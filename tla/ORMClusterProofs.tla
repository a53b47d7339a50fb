-------------------------- MODULE ORMClusterProofs --------------------------
(***************************************************************************)
(* Proofs about ORMCluster: for any programs, versions of the descriptors, *)
(* mappings, tables and keys, an object that was stored is read back, and  *)
(* a true result of a change of structure means the columns are there.     *)
(***************************************************************************)
EXTENDS ORMCluster, TLAPS

-----------------------------------------------------------------------------
(***************************************************************************)
(* The statements.                                                         *)
(***************************************************************************)
(* RowsHaveColumns and StoredIsThere of a database d and of what w says is *)
(* stored in it.                                                           *)
Rows(d) == \A t \in DOMAIN d : \A k \in DOMAIN d[t].rows : d[t].cols \subseteq DOMAIN d[t].rows[k]

Holds(d, t, k, w) ==
    /\ w.by \in Programs /\ w.value \in Reads[w.by]
    /\ t \in DOMAIN d /\ fields(w.by) \subseteq d[t].cols /\ k \in DOMAIN d[t].rows
    /\ \A f \in fields(w.by) : d[t].rows[k][f] = Cell(w.by, f, w.value)

HoldsAll(d, w) ==
    /\ DOMAIN w \subseteq Tables \X Keys
    /\ \A t \in Tables, k \in Keys : <<t, k>> \in DOMAIN w => Holds(d, t, k, w[<<t, k>>])

LEMMA Stored1 ==
    /\ RowsHaveColumns <=> Rows(db)
    /\ StoredIsThere <=> HoldsAll(db, written)
BY DEF RowsHaveColumns, StoredIsThere, Rows, HoldsAll, Holds, RowKeys, Has

LEMMA Forget ==
    ASSUME NEW d, HoldsAll(d, written), NEW S
    PROVE  HoldsAll(d, Without(S))
BY DEF HoldsAll, Without

(***************************************************************************)
(* CREATE TABLE and ALTER TABLE keep what is stored.                       *)
(***************************************************************************)
LEMMA CreateKeeps ==
    ASSUME Rows(db), HoldsAll(db, written), NEW t, t \notin DOMAIN db, NEW p
    PROVE  Rows(sql_create(t, p)) /\ HoldsAll(sql_create(t, p), written)
<1> DEFINE d == sql_create(t, p)
<1>1. /\ DOMAIN d = DOMAIN db \cup {t}
      /\ d[t] = [cols |-> fields(p), rows |-> Nothing]
      /\ \A u \in DOMAIN db : d[u] = db[u]
  BY DEF sql_create, With
<1>2. DOMAIN Nothing = {}  BY DEF Nothing
<1>3. d[t].rows = Nothing  BY <1>1
<1> HIDE DEF d
<1>4. Rows(d)  BY <1>1, <1>2, <1>3 DEF Rows
<1>5. HoldsAll(d, written)  BY <1>1 DEF HoldsAll, Holds
<1> QED  BY <1>4, <1>5 DEF d

LEMMA AddFieldKeeps ==
    ASSUME Rows(db), HoldsAll(db, written), NEW t \in DOMAIN db, NEW f, f \notin db[t].cols
    PROVE  Rows(sql_addfield(t, f)) /\ HoldsAll(sql_addfield(t, f), written)
<1> DEFINE d == sql_addfield(t, f)
           row(k) == With(db[t].rows[k], f, sql_default(f))
<1>1. /\ DOMAIN d = DOMAIN db
      /\ d[t] = [cols |-> db[t].cols \cup {f}, rows |-> [k \in RowKeys(t) |-> row(k)]]
      /\ \A u \in DOMAIN db : u # t => d[u] = db[u]
  BY DEF sql_addfield
<1>2. /\ d[t].cols = db[t].cols \cup {f} /\ DOMAIN d[t].rows = DOMAIN db[t].rows
      /\ \A k \in DOMAIN db[t].rows : d[t].rows[k] = row(k)
  BY <1>1 DEF RowKeys
<1>3. \A k : /\ DOMAIN row(k) = DOMAIN db[t].rows[k] \cup {f}
             /\ \A g \in DOMAIN db[t].rows[k] : g # f => row(k)[g] = db[t].rows[k][g]
  BY DEF With
<1> HIDE DEF d, row
<1>4. Rows(d)
  <2> SUFFICES ASSUME NEW u \in DOMAIN d, NEW k \in DOMAIN d[u].rows
               PROVE  d[u].cols \subseteq DOMAIN d[u].rows[k]
    BY DEF Rows
  <2>1. CASE u = t  BY <1>2, <1>3, <2>1 DEF Rows
  <2>2. CASE u # t  BY <1>1, <2>2 DEF Rows
  <2> QED  BY <2>1, <2>2
<1>5. HoldsAll(d, written)
  <2> SUFFICES ASSUME NEW u \in Tables, NEW k \in Keys, <<u, k>> \in DOMAIN written
               PROVE  Holds(d, u, k, written[<<u, k>>])
    BY DEF HoldsAll
  <2>1. Holds(db, u, k, written[<<u, k>>])  BY DEF HoldsAll
  <2>2. CASE u = t
    <3>1. \A g \in fields(written[<<u, k>>].by) :
             g # f /\ g \in DOMAIN db[t].rows[k]
      BY <2>1, <2>2 DEF Holds, Rows
    <3> QED  BY <1>1, <1>2, <1>3, <2>1, <2>2, <3>1 DEF Holds
  <2>3. CASE u # t  BY <1>1, <2>1, <2>3 DEF Holds
  <2> QED  BY <2>2, <2>3
<1> QED  BY <1>4, <1>5 DEF d

LEMMA DropKeeps ==
    ASSUME Rows(db), HoldsAll(db, written), NEW t
    PROVE  Rows(sql_drop(t)) /\ HoldsAll(sql_drop(t), Without({t} \X Keys))
<1> DEFINE d == sql_drop(t)
<1>1. DOMAIN d = DOMAIN db \ {t} /\ \A u \in DOMAIN d : d[u] = db[u]  BY DEF sql_drop
<1> HIDE DEF d
<1>2. Rows(d)  BY <1>1 DEF Rows
<1>3. HoldsAll(d, Without({t} \X Keys))  BY <1>1 DEF HoldsAll, Holds, Without
<1> QED  BY <1>2, <1>3 DEF d

(***************************************************************************)
(* INSERT, REPLACE, UPDATE and DELETE keep what is stored in other rows,   *)
(* and the first three store the object.                                   *)
(***************************************************************************)
RowOf(p, v) == [f \in fields(p) |-> Cell(p, f, v)]

LEMMA OverRow ==
    \A p \in Programs : \A v \in Reads[p] : \A old :
           /\ DOMAIN Over(RowOf(p, v), old) = fields(p) \cup DOMAIN old
           /\ \A f \in fields(p) : Over(RowOf(p, v), old)[f] = Cell(p, f, v)
BY DEF Over, RowOf

LEMMA WithRowsIs ==
    ASSUME NEW t \in DOMAIN db, NEW rows, NEW d, d = WithRows(t, rows)
    PROVE  /\ DOMAIN d = DOMAIN db
           /\ d[t].cols = db[t].cols /\ d[t].rows = rows
           /\ \A u \in DOMAIN db : u # t => d[u] = db[u]
<1>1. d[t] = [cols |-> db[t].cols, rows |-> rows]  BY DEF WithRows
<1> QED  BY <1>1 DEF WithRows

LEMMA RememberIs ==
    \A p \in Programs, t \in Tables, k \in Keys : \A v \in Reads[p] :
           /\ DOMAIN Remember(p, t, k, v) = DOMAIN written \cup {<<t, k>>}
           /\ Remember(p, t, k, v)[<<t, k>>].by = p
           /\ Remember(p, t, k, v)[<<t, k>>].value = v
           /\ \A x \in DOMAIN written :
                 x # <<t, k>> => Remember(p, t, k, v)[x] = written[x]
<1> TAKE p \in Programs, t \in Tables, k \in Keys
<1> TAKE v \in Reads[p]
<1>1. Remember(p, t, k, v)[<<t, k>>] = [by |-> p, value |-> v]  BY DEF Remember, With
<1> QED  BY <1>1 DEF Remember, With

LEMMA InsertKeeps ==
    ASSUME Rows(db), HoldsAll(db, written),
           NEW t \in Tables, NEW k \in Keys, NEW p \in Programs, NEW v \in Reads[p],
           Has(t, fields(p))
    PROVE  /\ Rows(sql_insert(t, k, RowOf(p, v)))
           /\ HoldsAll(sql_insert(t, k, RowOf(p, v)), Remember(p, t, k, v))
           /\ HoldsAll(sql_insert(t, k, RowOf(p, v)), Without({t} \X {k}))
<1> DEFINE d == sql_insert(t, k, RowOf(p, v))
           w == Remember(p, t, k, v)
           new == Stored(t, RowOf(p, v))
           rows == With(db[t].rows, k, new)
<1>0. t \in DOMAIN db /\ fields(p) \subseteq db[t].cols  BY DEF Has
<1>1. /\ DOMAIN d = DOMAIN db
      /\ d[t].cols = db[t].cols /\ d[t].rows = rows
      /\ \A u \in DOMAIN db : u # t => d[u] = db[u]
  BY <1>0, WithRowsIs DEF sql_insert
<1>2. /\ DOMAIN rows = DOMAIN db[t].rows \cup {k}
      /\ rows[k] = new
      /\ \A j \in DOMAIN db[t].rows : j # k => rows[j] = db[t].rows[j]
  BY DEF With
<1>3. /\ db[t].cols \subseteq DOMAIN new
      /\ \A f \in fields(p) : new[f] = Cell(p, f, v)
  BY <1>0, OverRow DEF Stored
<1>4. /\ DOMAIN w = DOMAIN written \cup {<<t, k>>}
      /\ w[<<t, k>>].by = p /\ w[<<t, k>>].value = v
      /\ \A x \in DOMAIN written : x # <<t, k>> => w[x] = written[x]
  BY RememberIs
<1>5. /\ DOMAIN Without({t} \X {k}) = DOMAIN written \ {<<t, k>>}
      /\ \A x \in DOMAIN Without({t} \X {k}) : Without({t} \X {k})[x] = written[x]
  BY DEF Without
<1> HIDE DEF d, w, new, rows
<1>6. Rows(d)
  <2> SUFFICES ASSUME NEW u \in DOMAIN d, NEW j \in DOMAIN d[u].rows
               PROVE  d[u].cols \subseteq DOMAIN d[u].rows[j]
    BY DEF Rows
  <2>1. CASE u = t  BY <1>1, <1>2, <1>3, <2>1 DEF Rows
  <2>2. CASE u # t  BY <1>1, <2>2 DEF Rows
  <2> QED  BY <2>1, <2>2
<1>7. ASSUME NEW u \in Tables, NEW j \in Keys, <<u, j>> \in DOMAIN written, <<u, j>> # <<t, k>>
      PROVE  Holds(d, u, j, written[<<u, j>>])
  <2>1. Holds(db, u, j, written[<<u, j>>])  BY <1>7 DEF HoldsAll
  <2>2. CASE u = t  BY <1>1, <1>2, <1>7, <2>1, <2>2 DEF Holds
  <2>3. CASE u # t  BY <1>1, <2>1, <2>3 DEF Holds
  <2> QED  BY <2>2, <2>3
<1>8. Holds(d, t, k, w[<<t, k>>])  BY <1>0, <1>1, <1>2, <1>3, <1>4 DEF Holds
<1>9. HoldsAll(d, w)
  <2>1. DOMAIN w \subseteq Tables \X Keys  BY <1>4 DEF HoldsAll
  <2>2. ASSUME NEW u \in Tables, NEW j \in Keys, <<u, j>> \in DOMAIN w
        PROVE  Holds(d, u, j, w[<<u, j>>])
    BY <1>4, <1>7, <1>8, <2>2
  <2> QED  BY <2>1, <2>2 DEF HoldsAll
<1>10. HoldsAll(d, Without({t} \X {k}))
  BY <1>5, <1>7 DEF HoldsAll
<1> QED  BY <1>6, <1>9, <1>10 DEF d, w

LEMMA UpdateKeeps ==
    ASSUME Rows(db), HoldsAll(db, written),
           NEW t \in Tables, NEW k \in Keys, NEW p \in Programs, NEW v \in Reads[p],
           Has(t, fields(p))
    PROVE  /\ Rows(sql_update(t, k, RowOf(p, v)))
           /\ k \in RowKeys(t) =>
                 HoldsAll(sql_update(t, k, RowOf(p, v)), Remember(p, t, k, v))
           /\ k \notin RowKeys(t) => HoldsAll(sql_update(t, k, RowOf(p, v)), written)
           /\ HoldsAll(sql_update(t, k, RowOf(p, v)), Without({t} \X {k}))
<1> DEFINE d == sql_update(t, k, RowOf(p, v))
           w == Remember(p, t, k, v)
           new == Over(RowOf(p, v), db[t].rows[k])
           rows == [j \in RowKeys(t) |-> IF j = k THEN Over(RowOf(p, v), db[t].rows[j])
                                         ELSE db[t].rows[j]]
<1>0. t \in DOMAIN db /\ fields(p) \subseteq db[t].cols  BY DEF Has
<1>1. /\ DOMAIN d = DOMAIN db
      /\ d[t].cols = db[t].cols /\ d[t].rows = rows
      /\ \A u \in DOMAIN db : u # t => d[u] = db[u]
  BY <1>0, WithRowsIs DEF sql_update
<1>2. /\ DOMAIN rows = DOMAIN db[t].rows
      /\ k \in DOMAIN rows => rows[k] = new
      /\ \A j \in DOMAIN db[t].rows : j # k => rows[j] = db[t].rows[j]
  BY DEF RowKeys
<1>3. /\ DOMAIN db[t].rows[k] \subseteq DOMAIN new
      /\ \A f \in fields(p) : new[f] = Cell(p, f, v)
  <2>1. \A old : /\ DOMAIN Over(RowOf(p, v), old) = fields(p) \cup DOMAIN old
                 /\ \A f \in fields(p) : Over(RowOf(p, v), old)[f] = Cell(p, f, v)
    BY OverRow
  <2> QED  BY <2>1
<1>4. /\ DOMAIN w = DOMAIN written \cup {<<t, k>>}
      /\ w[<<t, k>>].by = p /\ w[<<t, k>>].value = v
      /\ \A x \in DOMAIN written : x # <<t, k>> => w[x] = written[x]
  BY RememberIs
<1>5. /\ DOMAIN Without({t} \X {k}) = DOMAIN written \ {<<t, k>>}
      /\ \A x \in DOMAIN Without({t} \X {k}) : Without({t} \X {k})[x] = written[x]
  BY DEF Without
<1> HIDE DEF d, w, new, rows
<1>6. Rows(d)
  <2> SUFFICES ASSUME NEW u \in DOMAIN d, NEW j \in DOMAIN d[u].rows
               PROVE  d[u].cols \subseteq DOMAIN d[u].rows[j]
    BY DEF Rows
  <2>1. CASE u = t  BY <1>0, <1>1, <1>2, <1>3, <2>1 DEF Rows
  <2>2. CASE u # t  BY <1>1, <2>2 DEF Rows
  <2> QED  BY <2>1, <2>2
<1>7. ASSUME NEW u \in Tables, NEW j \in Keys, <<u, j>> \in DOMAIN written, <<u, j>> # <<t, k>>
      PROVE  Holds(d, u, j, written[<<u, j>>])
  <2>1. Holds(db, u, j, written[<<u, j>>])  BY <1>7 DEF HoldsAll
  <2>2. CASE u = t  BY <1>1, <1>2, <1>7, <2>1, <2>2 DEF Holds
  <2>3. CASE u # t  BY <1>1, <2>1, <2>3 DEF Holds
  <2> QED  BY <2>2, <2>3
<1>8. ASSUME k \in RowKeys(t) PROVE HoldsAll(d, w)
  <2>0. k \in DOMAIN rows  BY <1>2, <1>8 DEF RowKeys
  <2>1. Holds(d, t, k, w[<<t, k>>])  BY <1>0, <1>1, <1>2, <1>3, <1>4, <2>0 DEF Holds
  <2>2. DOMAIN w \subseteq Tables \X Keys  BY <1>4 DEF HoldsAll
  <2>3. ASSUME NEW u \in Tables, NEW j \in Keys, <<u, j>> \in DOMAIN w
        PROVE  Holds(d, u, j, w[<<u, j>>])
    BY <1>4, <1>7, <2>1, <2>3
  <2> QED  BY <2>2, <2>3 DEF HoldsAll
<1>9. ASSUME k \notin RowKeys(t) PROVE HoldsAll(d, written)
  <2>1. <<t, k>> \notin DOMAIN written  BY <1>9 DEF HoldsAll, Holds, RowKeys
  <2> QED  BY <1>7, <2>1 DEF HoldsAll
<1>10. HoldsAll(d, Without({t} \X {k}))  BY <1>5, <1>7 DEF HoldsAll
<1> QED  BY <1>6, <1>8, <1>9, <1>10 DEF d, w

LEMMA DeleteKeeps ==
    ASSUME Rows(db), HoldsAll(db, written), NEW t \in DOMAIN db, NEW ks
    PROVE  /\ Rows(sql_delete(t, ks))
           /\ HoldsAll(sql_delete(t, ks), Without({t} \X ks))
<1> DEFINE d == sql_delete(t, ks)
           rows == [j \in RowKeys(t) \ ks |-> db[t].rows[j]]
<1>1. /\ DOMAIN d = DOMAIN db
      /\ d[t].cols = db[t].cols /\ d[t].rows = rows
      /\ \A u \in DOMAIN db : u # t => d[u] = db[u]
  BY WithRowsIs DEF sql_delete
<1>2. /\ DOMAIN rows = DOMAIN db[t].rows \ ks
      /\ \A j \in DOMAIN rows : rows[j] = db[t].rows[j]
  BY DEF RowKeys
<1> HIDE DEF d, rows
<1>3. Rows(d)  BY <1>1, <1>2 DEF Rows
<1>4. HoldsAll(d, Without({t} \X ks))
  <2>1. DOMAIN Without({t} \X ks) = DOMAIN written \ ({t} \X ks)  BY DEF Without
  <2>2. DOMAIN Without({t} \X ks) \subseteq Tables \X Keys  BY <2>1 DEF HoldsAll
  <2>3. ASSUME NEW u \in Tables, NEW j \in Keys, <<u, j>> \in DOMAIN Without({t} \X ks)
        PROVE  Holds(d, u, j, Without({t} \X ks)[<<u, j>>])
    <3>1. Without({t} \X ks)[<<u, j>>] = written[<<u, j>>] /\ ~(u = t /\ j \in ks)
      BY <2>3 DEF Without
    <3>2. Holds(db, u, j, written[<<u, j>>])  BY <2>1, <2>3 DEF HoldsAll
    <3>3. CASE u = t
      <4>1. j \in DOMAIN d[u].rows /\ d[u].rows[j] = db[u].rows[j]
        BY <1>1, <1>2, <3>1, <3>2, <3>3 DEF Holds
      <4> QED  BY <1>1, <3>1, <3>2, <3>3, <4>1 DEF Holds
    <3>4. CASE u # t  BY <1>1, <3>1, <3>2, <3>4 DEF Holds
    <3> QED  BY <3>3, <3>4
  <2> QED  BY <2>2, <2>3 DEF HoldsAll
<1> QED  BY <1>3, <1>4 DEF d

-----------------------------------------------------------------------------
(***************************************************************************)
(* The three mappings.                                                     *)
(***************************************************************************)
LEMMA RowsWritten ==
    ASSUME NEW p \in Programs, NEW v \in Reads[p]
    PROVE  /\ p \in MySql => makeValueList(p, v) = RowOf(p, v)
           /\ p \in Soci => SociRow(p, v) = RowOf(p, v)
           /\ p \in Obj => ObjRow(p, v) = RowOf(p, v)
<1>1. p \in MySql => makeValueList(p, v) = RowOf(p, v)
  BY DEF MySql, makeValueList, fieldToQuery, RowOf, Cell
<1>2. p \in Soci => SociRow(p, v) = RowOf(p, v)
  BY DEF Soci, SociRow, fieldToStatement, RowOf, Cell
<1>3. p \in Obj => ObjRow(p, v) = RowOf(p, v)
  BY DEF Obj, ObjRow, object2Query, RowOf, Cell
<1> QED  BY <1>1, <1>2, <1>3

(***************************************************************************)
(* What MySqlLeave, SociLeave and ObjLeave have in common: the task goes   *)
(* on with the next table, or answers; and an answer that can be relied on *)
(* is not true if the table could not be brought up to date.               *)
(***************************************************************************)
Leaves(p, t, ok) ==
    \/ /\ task[p].todo = {t}
       /\ \E r \in BOOLEAN : /\ Return(p, Answer(task[p].op, r))
                             /\ Reliable(p) /\ r => ok
    \/ /\ task[p].todo # {t}
       /\ NextTable(p, t) /\ UNCHANGED last

LEMMA LeavesAll ==
    ASSUME Tasks, NEW p \in Programs, NEW t \in task[p].todo, NEW ok \in BOOLEAN,
           task[p].op # "idle"
    PROVE  /\ p \in MySql /\ MySqlLeave(p, t, ok) => Leaves(p, t, ok)
           /\ p \in Soci /\ SociLeave(p, t, ok) => Leaves(p, t, ok)
           /\ p \in Obj /\ ObjLeave(p, t, ok) => Leaves(p, t, ok)
<1>1. p \in MySql /\ MySqlLeave(p, t, ok) => Leaves(p, t, ok)
  BY DEF MySql, MySqlLeave, Leaves, Reliable
<1>2. p \in Soci /\ SociLeave(p, t, ok) => Leaves(p, t, ok)
  BY DEF Soci, SociLeave, Leaves, Reliable
<1>3. p \in Obj /\ ObjLeave(p, t, ok) => Leaves(p, t, ok)
  <2> SUFFICES ASSUME p \in Obj, ObjLeave(p, t, ok) PROVE Leaves(p, t, ok)  OBVIOUS
  <2>1. task[p].op = "updateTable"  BY DEF Obj, Tasks, TaskShape
  <2>2. task[p].todo = {t}  BY <2>1 DEF Tasks, TaskShape
  <2> QED  BY <2>2 DEF ObjLeave, Leaves
<1> QED  BY <1>1, <1>2, <1>3

UpdateStep(p) ==
    \/ \E t \in Tables : Desc(p, t, Leaves)
    \/ AddField(p, Leaves)
    \/ Updated(p, Leaves)

LEMMA UpdateSteps ==
    ASSUME Tasks, NEW p \in Programs,
           \/ MySqlUpdateExistTable(p) \/ SociUpdateExistTable(p) \/ ObjUpdateExistTable(p)
    PROVE  UpdateStep(p)
<1>1. ASSUME NEW t \in Tables, Desc(p, t, MySqlLeave), p \in MySql PROVE Desc(p, t, Leaves)
  BY <1>1, LeavesAll DEF Desc, Next1
<1>2. ASSUME NEW t \in Tables, Desc(p, t, SociLeave), p \in Soci PROVE Desc(p, t, Leaves)
  BY <1>2, LeavesAll DEF Desc, Next1
<1>3. ASSUME NEW t \in Tables, Desc(p, t, ObjLeave), p \in Obj PROVE Desc(p, t, Leaves)
  BY <1>3, LeavesAll DEF Desc, Next1
<1>4. task[p].table # "" => task[p].op # "idle" /\ task[p].table \in task[p].todo
  BY DEF Tasks, TaskShape
<1>5. ASSUME AddField(p, MySqlLeave), p \in MySql PROVE AddField(p, Leaves)
  BY <1>4, <1>5, LeavesAll DEF AddField
<1>6. ASSUME AddField(p, SociLeave), p \in Soci PROVE AddField(p, Leaves)
  BY <1>4, <1>6, LeavesAll DEF AddField
<1>7. ASSUME AddField(p, ObjLeave), p \in Obj PROVE AddField(p, Leaves)
  BY <1>4, <1>7, LeavesAll DEF AddField
<1>8. ASSUME Updated(p, MySqlLeave), p \in MySql PROVE Updated(p, Leaves)
  BY <1>4, <1>8, LeavesAll DEF Updated
<1>9. ASSUME Updated(p, SociLeave), p \in Soci PROVE Updated(p, Leaves)
  BY <1>4, <1>9, LeavesAll DEF Updated
<1>10. ASSUME Updated(p, ObjLeave), p \in Obj PROVE Updated(p, Leaves)
  BY <1>4, <1>10, LeavesAll DEF Updated
<1> QED  BY <1>1, <1>2, <1>3, <1>5, <1>6, <1>7, <1>8, <1>9, <1>10
         DEF UpdateStep, MySqlUpdateExistTable, SociUpdateExistTable, ObjUpdateExistTable

LEMMA CreateSteps ==
    ASSUME Tasks, NEW p \in Programs, NEW t \in Tables,
           MySqlCreateByName(p, t) \/ SociCreateByName(p, t) \/ ObjCreateMissing(p, t)
    PROVE  CreateMissing(p, t, Leaves)
<1>1. ASSUME p \in MySql, CreateMissing(p, t, MySqlLeave) PROVE CreateMissing(p, t, Leaves)
  BY <1>1, LeavesAll DEF CreateMissing, Next1
<1>2. ASSUME p \in Soci, CreateMissing(p, t, SociLeave) PROVE CreateMissing(p, t, Leaves)
  BY <1>2, LeavesAll DEF CreateMissing, Next1
<1>3. ASSUME p \in Obj, CreateMissing(p, t, ObjLeave) PROVE CreateMissing(p, t, Leaves)
  BY <1>3, LeavesAll DEF CreateMissing, Next1
<1> QED  BY <1>1, <1>2, <1>3 DEF MySqlCreateByName, SociCreateByName, ObjCreateMissing

-----------------------------------------------------------------------------
(***************************************************************************)
(* The calls that change rows: they keep what is stored, and no task and   *)
(* no structure of a table changes.                                        *)
(***************************************************************************)
SameColumns ==
    /\ DOMAIN db' = DOMAIN db
    /\ \A t \in DOMAIN db : db'[t].cols = db[t].cols

(* p's call returned; what it answered is not about a stored object. *)
Answered(p) == \E r : r.op # "select" /\ last' = [last EXCEPT ![p] = r]

RowsOnly(p) ==
    /\ task[p].op = "idle" /\ task' = [task EXCEPT ![p] = Idle]
    /\ disturbed' = disturbed /\ SameColumns

LEMMA AnswerOp == \A op, ok : Answer(op, ok).op = op
BY DEF Answer

LEMMA RowsSame ==
    ASSUME NEW t \in DOMAIN db, NEW rows, db' = WithRows(t, rows)
    PROVE  SameColumns
<1>1. /\ DOMAIN db' = DOMAIN db
      /\ db'[t].cols = db[t].cols
      /\ \A u \in DOMAIN db : u # t => db'[u] = db[u]
  BY WithRowsIs
<1> QED  BY <1>1 DEF SameColumns

LEMMA InsertStep ==
    ASSUME Rows(db), HoldsAll(db, written),
           NEW p \in Programs, NEW t \in Tables, NEW k \in Keys, NEW v \in Reads[p],
           NEW op, op # "select", NEW accepted \in BOOLEAN, accepted => Has(t, fields(p)),
           Insert(p, op, t, k, v, accepted, RowOf(p, v))
    PROVE  Rows(db') /\ HoldsAll(db', written') /\ RowsOnly(p) /\ Answered(p)
<1> DEFINE new == sql_insert(t, k, RowOf(p, v))
<1>1. /\ task[p].op = "idle" /\ task' = [task EXCEPT ![p] = Idle] /\ disturbed' = disturbed
      /\ \E ok \in BOOLEAN : last' = [last EXCEPT ![p] = Answer(op, ok)]
  BY DEF Insert, Modify, Call, Return
<1>2. Answered(p)  BY <1>1, AnswerOp DEF Answered
<1>3. \/ accepted /\ db' = new /\ written' = Remember(p, t, k, v)
      \/ db' = db /\ written' = Without({t} \X {k})
      \/ accepted /\ db' = new /\ written' = Without({t} \X {k})
  BY DEF Insert, Modify, Executes, Throws
<1>4. accepted => /\ Rows(new)
                  /\ HoldsAll(new, Remember(p, t, k, v))
                  /\ HoldsAll(new, Without({t} \X {k}))
  BY InsertKeeps
<1>5. HoldsAll(db, Without({t} \X {k}))  BY Forget
<1>6. accepted /\ db' = new => SameColumns  BY RowsSame DEF sql_insert, Has
<1>7. db' = db => SameColumns  BY DEF SameColumns
<1> HIDE DEF new
<1> QED  BY <1>1, <1>2, <1>3, <1>4, <1>5, <1>6, <1>7 DEF RowsOnly

LEMMA UpdateRowStep ==
    ASSUME Rows(db), HoldsAll(db, written),
           NEW p \in Programs, NEW t \in Tables, NEW k \in Keys, NEW v \in Reads[p],
           Update(p, t, k, v, RowOf(p, v))
    PROVE  Rows(db') /\ HoldsAll(db', written') /\ RowsOnly(p) /\ Answered(p)
<1> DEFINE new == sql_update(t, k, RowOf(p, v))
<1>1. /\ task[p].op = "idle" /\ task' = [task EXCEPT ![p] = Idle] /\ disturbed' = disturbed
      /\ \E ok \in BOOLEAN : last' = [last EXCEPT ![p] = Answer("update", ok)]
  BY DEF Update, Modify, Call, Return
<1>2. Answered(p)  BY <1>1, AnswerOp DEF Answered
<1>3. \/ /\ Has(t, fields(p)) /\ db' = new
         /\ written' = IF k \in RowKeys(t) THEN Remember(p, t, k, v) ELSE written
      \/ db' = db /\ written' = Without({t} \X {k})
      \/ Has(t, fields(p)) /\ db' = new /\ written' = Without({t} \X {k})
  BY DEF Update, Modify, Executes, Throws
<1>4. Has(t, fields(p)) => /\ Rows(new)
                           /\ k \in RowKeys(t) => HoldsAll(new, Remember(p, t, k, v))
                           /\ k \notin RowKeys(t) => HoldsAll(new, written)
                           /\ HoldsAll(new, Without({t} \X {k}))
  BY UpdateKeeps
<1>5. HoldsAll(db, Without({t} \X {k}))  BY Forget
<1>6. Has(t, fields(p)) /\ db' = new => SameColumns  BY RowsSame DEF sql_update, Has
<1>7. db' = db => SameColumns  BY DEF SameColumns
<1> HIDE DEF new
<1> QED  BY <1>1, <1>2, <1>3, <1>4, <1>5, <1>6, <1>7 DEF RowsOnly

LEMMA DeleteStep ==
    ASSUME Rows(db), HoldsAll(db, written),
           NEW p \in Programs, NEW t \in Tables, NEW ks, NEW op, op # "select",
           Delete(p, op, t, ks)
    PROVE  Rows(db') /\ HoldsAll(db', written') /\ RowsOnly(p) /\ Answered(p)
<1> DEFINE new == sql_delete(t, ks)
<1>1. /\ task[p].op = "idle" /\ task' = [task EXCEPT ![p] = Idle] /\ disturbed' = disturbed
      /\ \E ok \in BOOLEAN : last' = [last EXCEPT ![p] = Answer(op, ok)]
  BY DEF Delete, Modify, Call, Return
<1>2. Answered(p)  BY <1>1, AnswerOp DEF Answered
<1>3. /\ \/ db' = db
         \/ t \in DOMAIN db /\ db' = new
      /\ written' = Without({t} \X ks)
  BY DEF Delete, Modify, Executes, Throws
<1>4. t \in DOMAIN db => Rows(new) /\ HoldsAll(new, Without({t} \X ks))
  BY DeleteKeeps
<1>5. HoldsAll(db, Without({t} \X ks))  BY Forget
<1>6. t \in DOMAIN db /\ db' = new => SameColumns  BY RowsSame DEF sql_delete
<1>7. db' = db => SameColumns  BY DEF SameColumns
<1> HIDE DEF new
<1> QED  BY <1>1, <1>2, <1>3, <1>4, <1>5, <1>6, <1>7 DEF RowsOnly

LEMMA LoadStep ==
    ASSUME Rows(db), HoldsAll(db, written),
           NEW p \in Programs, NEW t \in Tables, NEW delivered, NEW ok,
           Load(p, t, delivered, ok)
    PROVE  Rows(db') /\ HoldsAll(db', written') /\ RowsOnly(p) /\ Answered(p)
<1>1. /\ task[p].op = "idle" /\ task' = [task EXCEPT ![p] = Idle]
      /\ UNCHANGED <<db, disturbed, written>>
  BY DEF Load, Call, Return
<1>2. Answered(p)
  <2>1. \E good, got, keys :
           last' = [last EXCEPT ![p] = [op |-> "load", ret |-> good,
                                        delivered |-> got, rows |-> keys]]
    BY DEF Load, Return
  <2> QED  BY <2>1 DEF Answered
<1> QED  BY <1>1, <1>2 DEF RowsOnly, SameColumns


(***************************************************************************)
(* Reading a stored object gives the stored members.                       *)
(***************************************************************************)
Stores(p, w) == w.by = p /\ w.value \in Reads[p]

LEMMA FieldRead ==
    ASSUME NEW p \in Programs, NEW q \in Programs, NEW f \in fields(p) \cap fields(q),
           NEW v \in Reads[q]
    PROVE  /\ Cell(q, f, v) \in Values
           /\ p \in MySql => recordToField(p, f, Text(f, Cell(q, f, v))) = AsRead(p, q, f, v)
           /\ p \in Soci => SociRecordToField(p, f, Text(f, Cell(q, f, v))) = AsRead(p, q, f, v)
           /\ p \in Obj => record2Object(f, Text(f, Cell(q, f, v))) = AsRead(p, q, f, v)
           /\ Kind[f] = "object" => Cell(q, f, v) = v
<1> USE ORMAssumption
<1>1. v \in Values /\ Reads[p] \subseteq Values /\ NULL \notin Values  OBVIOUS
<1>2. f \in Fields /\ Kind[f] \in {"float", "double", "text", "object"}  OBVIOUS
<1>3. Printed[v] \in Values /\ Printed[Printed[v]] = Printed[v]  BY <1>1
<1>4. Cell(q, f, v) \in Values  BY <1>1, <1>3 DEF Cell
<1>5. Kind[f] \in {"text", "object"} => Cell(q, f, v) = v /\ Text(f, Cell(q, f, v)) = v
  BY DEF Cell, Numeric, Text
<1>6. /\ Kind[f] \in {"float", "double"} =>
            Text(f, Cell(q, f, v)) = AsRead(p, q, f, v) /\ AsRead(p, q, f, v) \in Values
      /\ Kind[f] \in {"text", "object"} => Text(f, Cell(q, f, v)) = v
  BY <1>1, <1>3, <1>5 DEF Cell, Numeric, Text, AsRead
<1>7. ASSUME p \in MySql
      PROVE  recordToField(p, f, Text(f, Cell(q, f, v))) = AsRead(p, q, f, v)
  <2>1. Backend[p] = "mysql"  BY <1>7 DEF MySql
  <2> QED  BY <1>1, <1>2, <1>6, <2>1 DEF recordToField, Skipped, Unread, AsRead
<1>8. ASSUME p \in Soci
      PROVE  SociRecordToField(p, f, Text(f, Cell(q, f, v))) = AsRead(p, q, f, v)
  <2>1. Backend[p] = "soci"  BY <1>8 DEF Soci
  <2> QED  BY <1>1, <1>2, <1>6, <2>1 DEF SociRecordToField, AsRead
<1>9. ASSUME p \in Obj
      PROVE  record2Object(f, Text(f, Cell(q, f, v))) = AsRead(p, q, f, v)
  <2>1. Kind[f] # "object"  BY <1>9 DEF Obj
  <2> QED  BY <1>1, <1>2, <1>6, <2>1 DEF record2Object, AsRead
<1> QED  BY <1>4, <1>5, <1>7, <1>8, <1>9


Want(t, k) == IF <<t, k>> \in DOMAIN written THEN written[<<t, k>>] ELSE [by |-> "nobody"]

(* An object with the members that q stored as v, as far as p has them. *)
ReadAs(p, q, v, obj) == \A f \in fields(p) \cap fields(q) : obj[f] = AsRead(p, q, f, v)

(* A call of select() returned, and if some q stored the row it is as stored. *)
ReadAnswer(p, t, k) ==
    \E ok, obj, failed, row :
        /\ last' = [last EXCEPT ![p] = [op |-> "select", ret |-> ok, object |-> obj,
                                        want |-> Want(t, k), failed |-> failed, row |-> row]]
        /\ Want(t, k).by = p => ok \/ failed
        /\ Want(t, k).by \in Programs /\ ok => ReadAs(p, Want(t, k).by, Want(t, k).value, obj)

LEMMA WantHeld ==
    ASSUME HoldsAll(db, written), NEW t \in Tables, NEW k \in Keys,
           Want(t, k).by \in Programs
    PROVE  Holds(db, t, k, Want(t, k))
BY ORMAssumption DEF HoldsAll, Want

LEMMA SelectAnswers ==
    ASSUME HoldsAll(db, written), NEW p \in Programs, NEW t \in Tables, NEW k \in Keys,
           MySqlSelect(p, t, k) \/ SociSelect(p, t, k) \/ selectDB(p, t, k)
    PROVE  ReadAnswer(p, t, k)
<1> DEFINE w == Want(t, k)
           row == db[t].rows[k]
           text(f) == Text(f, row[f])
           Ans(ok, obj, failed) ==
               [op |-> "select", ret |-> ok, object |-> obj, want |-> w, failed |-> failed,
                row |-> IF Found(p, t, k) THEN row ELSE Nothing]
<1>1. ASSUME w.by \in Programs
      PROVE  /\ w.value \in Reads[w.by]
             /\ \A f \in fields(w.by) : row[f] = Cell(w.by, f, w.value)
             /\ w.by = p => Found(p, t, k)
  BY <1>1, WantHeld DEF Holds, Found, Has, RowKeys
<1>2. ASSUME p \in MySql, MySqlSelect(p, t, k)
      PROVE  \/ last' = [last EXCEPT ![p] = Ans(recordToObject(p, row),
                                [f \in fields(p) |-> recordToField(p, f, text(f))], FALSE)]
             \/ ~Found(p, t, k) /\ last' = [last EXCEPT ![p] = Ans(FALSE, Nothing, FALSE)]
             \/ last' = [last EXCEPT ![p] = Ans(FALSE, Nothing, TRUE)]
  BY <1>2 DEF MySqlSelect, Read, Return, Want
<1>3. ASSUME p \in Soci, SociSelect(p, t, k)
      PROVE  \/ last' = [last EXCEPT ![p] = Ans(SociRecordToObject(p, row),
                                [f \in fields(p) |-> SociRecordToField(p, f, text(f))], FALSE)]
             \/ ~Found(p, t, k) /\ last' = [last EXCEPT ![p] = Ans(FALSE, Nothing, FALSE)]
             \/ last' = [last EXCEPT ![p] = Ans(FALSE, Nothing, TRUE)]
  BY <1>3 DEF SociSelect, Read, Return, Want
<1>4. ASSUME p \in Obj, selectDB(p, t, k)
      PROVE  \/ last' = [last EXCEPT ![p] = Ans(TRUE,
                                [f \in fields(p) |-> record2Object(f, text(f))], FALSE)]
             \/ ~Found(p, t, k) /\ last' = [last EXCEPT ![p] = Ans(FALSE, Nothing, FALSE)]
             \/ last' = [last EXCEPT ![p] = Ans(FALSE, Nothing, TRUE)]
  BY <1>4 DEF selectDB, Read, Return, Want
<1>5. ASSUME w.by = p, p \in MySql PROVE recordToObject(p, row)
  <2>1. \A f \in fields(p) : ~Unread(p, f, row[f])
    BY <1>1, <1>5, FieldRead DEF Unread
  <2>2. \A i \in DOMAIN FieldsOrdered[p] : FieldsOrdered[p][i] \in fields(p)
    BY DEF fields, ToSet
  <2> QED  BY <2>1, <2>2 DEF recordToObject
<1>6. ASSUME w.by = p, p \in Soci PROVE SociRecordToObject(p, row)
  <2>1. \A f \in fields(p) : /\ Kind[f] = "object" => row[f] \in Reads[p]
                             /\ row[f] # NULL
    <3>1. NULL \notin Values  BY ORMAssumption
    <3> QED  BY <1>1, <1>6, <3>1, FieldRead
  <2>2. \A i \in DOMAIN FieldsOrdered[p] : FieldsOrdered[p][i] \in fields(p)
    BY DEF fields, ToSet
  <2> QED  BY <2>1, <2>2 DEF SociRecordToObject, ThrowsAt
<1>7. ASSUME w.by \in Programs, NEW f \in fields(p) \cap fields(w.by)
      PROVE  /\ p \in MySql => recordToField(p, f, text(f)) = AsRead(p, w.by, f, w.value)
             /\ p \in Soci => SociRecordToField(p, f, text(f)) = AsRead(p, w.by, f, w.value)
             /\ p \in Obj => record2Object(f, text(f)) = AsRead(p, w.by, f, w.value)
  <2>1. row[f] = Cell(w.by, f, w.value) /\ w.value \in Reads[w.by]  BY <1>1, <1>7
  <2> QED  BY <1>7, <2>1, FieldRead
<1> HIDE DEF w, row, text
<1>8. CASE p \in MySql /\ MySqlSelect(p, t, k)
  <2>1. w.by \in Programs =>
          ReadAs(p, w.by, w.value, [f \in fields(p) |-> recordToField(p, f, text(f))])
    BY <1>7, <1>8 DEF ReadAs
  <2> QED  BY <1>1, <1>2, <1>5, <1>8, <2>1 DEF ReadAnswer, w
<1>9. CASE p \in Soci /\ SociSelect(p, t, k)
  <2>1. w.by \in Programs =>
          ReadAs(p, w.by, w.value, [f \in fields(p) |-> SociRecordToField(p, f, text(f))])
    BY <1>7, <1>9 DEF ReadAs
  <2> QED  BY <1>1, <1>3, <1>6, <1>9, <2>1 DEF ReadAnswer, w
<1>10. CASE p \in Obj /\ selectDB(p, t, k)
  <2>1. w.by \in Programs =>
          ReadAs(p, w.by, w.value, [f \in fields(p) |-> record2Object(f, text(f))])
    BY <1>7, <1>10 DEF ReadAs
  <2> QED  BY <1>1, <1>4, <1>10, <2>1 DEF ReadAnswer, w
<1> QED  BY <1>8, <1>9, <1>10 DEF MySqlSelect, SociSelect, selectDB

LEMMA SelectStep ==
    ASSUME Tasks, HoldsAll(db, written), NEW p \in Programs, NEW t \in Tables, NEW k \in Keys,
           MySqlSelect(p, t, k) \/ SociSelect(p, t, k) \/ selectDB(p, t, k)
    PROVE  UNCHANGED <<db, written>> /\ RowsOnly(p) /\ ReadAnswer(p, t, k)
<1>1. ReadAnswer(p, t, k)  BY SelectAnswers
<1>2. /\ task[p].op = "idle" /\ UNCHANGED <<db, written, disturbed>>
      /\ task' = [task EXCEPT ![p] = Idle]
  <2>1. CASE MySqlSelect(p, t, k)  BY <2>1 DEF MySqlSelect, Read, Return, Call
  <2>2. CASE SociSelect(p, t, k)  BY <2>2 DEF SociSelect, Read, Return, Call
  <2>3. CASE selectDB(p, t, k)  BY <2>3 DEF selectDB, Read, Return, Call
  <2> QED  BY <2>1, <2>2, <2>3
<1> QED  BY <1>1, <1>2 DEF RowsOnly, SameColumns

-----------------------------------------------------------------------------
(***************************************************************************)
(* The calls that change the structure of tables.                          *)
(***************************************************************************)
Grows == \A t \in DOMAIN db : t \in DOMAIN db' /\ db[t].cols \subseteq db'[t].cols

LEMMA CreateGrows ==
    ASSUME NEW t, t \notin DOMAIN db, NEW p, db' = sql_create(t, p)
    PROVE  /\ Grows /\ DOMAIN db' = DOMAIN db \cup {t}
           /\ db'[t].cols = fields(p)
<1>1. db'[t] = [cols |-> fields(p), rows |-> Nothing]  BY DEF sql_create, With
<1> QED  BY <1>1 DEF sql_create, With, Grows

LEMMA AddFieldGrows ==
    ASSUME NEW t \in DOMAIN db, NEW f, db' = sql_addfield(t, f)
    PROVE  /\ Grows /\ DOMAIN db' = DOMAIN db
           /\ db'[t].cols = db[t].cols \cup {f}
<1>1. db'[t].cols = db[t].cols \cup {f}  BY DEF sql_addfield
<1>2. \A u \in DOMAIN db : u # t => db'[u] = db[u]  BY DEF sql_addfield
<1>3. DOMAIN db' = DOMAIN db  BY DEF sql_addfield
<1> QED  BY <1>1, <1>2, <1>3 DEF Grows

LEMMA SameGrows == (SameColumns => Grows) /\ (db' = db => SameColumns)
BY DEF SameColumns, Grows

(***************************************************************************)
(* What a step of p means for the other programs.                          *)
(***************************************************************************)
OthersSee(p) ==
    \A q \in Programs \ {p} :
        /\ task'[q] = task[q] /\ disturbed[q] \subseteq disturbed'[q]
        /\ \/ SameColumns
           \/ disturbed'[q] # {} /\ Grows
           \/ "drop" \in disturbed'[q]

LEMMA DisturbOthers ==
    ASSUME NEW p \in Programs, NEW what, Disturb(p, what),
           \A q \in Programs \ {p} : task'[q] = task[q],
           db' = db \/ Grows \/ what = "drop"
    PROVE  OthersSee(p)
<1>1. \A q \in Programs \ {p} :
         disturbed'[q] = disturbed[q] \cup (IF db' = db THEN {} ELSE {what})
  BY DEF Disturb
<1> QED  BY <1>1, SameGrows DEF OthersSee

LEMMA OthersKeep ==
    ASSUME NEW p \in Programs, OthersSee(p), NEW q \in Programs \ {p},
           Described(q), Undisturbed(q)
    PROVE  Described(q)' /\ Undisturbed(q)'
<1>1. /\ task'[q] = task[q] /\ disturbed[q] \subseteq disturbed'[q]
      /\ \/ SameColumns
         \/ disturbed'[q] # {} /\ Grows
         \/ "drop" \in disturbed'[q]
  BY DEF OthersSee
<1>2. Promised(q)' = Promised(q)  BY <1>1 DEF Promised
<1>3. Described(q)'  BY <1>1, SameGrows DEF Described, Grows
<1>4. Undisturbed(q)'
  <2> SUFFICES ASSUME task[q].op # "idle", disturbed'[q] = {} PROVE Undisturbed(q)'
    BY <1>1 DEF Undisturbed
  <2>1. SameColumns /\ disturbed[q] = {}  BY <1>1
  <2>2. \A u : Has(u, fields(q))' <=> Has(u, fields(q))  BY <2>1 DEF SameColumns, Has
  <2>3. task[q].table # "" => task[q].table \in DOMAIN db
    BY <2>1 DEF Described
  <2> QED  BY <1>1, <1>2, <2>1, <2>2, <2>3 DEF Undisturbed, SameColumns
<1> QED  BY <1>3, <1>4

(***************************************************************************)
(* What a step of p means for p itself: UpdatedMeansColumns, of p.         *)
(***************************************************************************)
UpdatedBy(p) ==
    /\ task[p].op # "idle" /\ task'[p].op = "idle" /\ last'[p].ret
    /\ IF Reliable(p) THEN "drop" \notin disturbed'[p] ELSE disturbed'[p] = {}
    => \A t \in Promised(p) : Has(t, fields(p))'

OwnStep(p) == TaskShape(p)' /\ Described(p)' /\ Undisturbed(p)' /\ UpdatedBy(p)

LEMMA IdleIs == Idle.op = "idle" /\ Idle.table = ""
BY DEF Idle

LEMMA IdleOwn ==
    ASSUME NEW p \in Programs, Tasks, task[p].op = "idle", task' = [task EXCEPT ![p] = Idle]
    PROVE  OwnStep(p)
<1>1. task'[p] = Idle  BY DEF Tasks
<1>2. task'[p].op = "idle" /\ task'[p].table = ""  BY <1>1, IdleIs
<1> QED  BY <1>2 DEF OwnStep, TaskShape, Described, Undisturbed, UpdatedBy

LEMMA AnswerRet ==
    \A p \in Programs : \A r \in BOOLEAN :
        last'[p] = Answer(task[p].op, r) => (last'[p].ret => r)
<1> SUFFICES ASSUME NEW p \in Programs, NEW r \in BOOLEAN, last'[p] = Answer(task[p].op, r)
             PROVE  last'[p].ret => r
  OBVIOUS
<1>1. last'[p] = [op |-> task[p].op, ret |-> r]  BY Zenon DEF Answer
<1>2. last'[p].ret = r  BY <1>1
<1> QED  BY <1>2

LEMMA LeavesOwn ==
    ASSUME NEW p \in Programs, NEW t \in task[p].todo, NEW ok \in BOOLEAN,
           Tasks, Undisturbed(p), task[p].op # "idle", task[p].table \in {"", t},
           Leaves(p, t, ok), disturbed[p] \subseteq disturbed'[p],
           Grows, DOMAIN db' \ {t} = DOMAIN db \ {t},
           Reliable(p) /\ ok /\ "drop" \notin disturbed'[p] => Has(t, fields(p))',
           disturbed'[p] = {} /\ t \in Promised(p) => Has(t, fields(p))'
    PROVE  OwnStep(p)
<1>1. ASSUME disturbed'[p] = {} 
      PROVE  \A u \in Promised(p) \ (task[p].todo \ {t}) : Has(u, fields(p))'
  <2> SUFFICES ASSUME NEW u \in Promised(p) \ (task[p].todo \ {t}) PROVE Has(u, fields(p))'
    OBVIOUS
  <2>1. CASE u = t  BY <1>1, <2>1
  <2>2. CASE u # t
    <3>1. Has(u, fields(p))  BY <1>1, <2>2 DEF Undisturbed
    <3> QED  BY <3>1 DEF Has, Grows
  <2> QED  BY <2>1, <2>2
<1>2. CASE task[p].todo = {t}
  <2>1. PICK r \in BOOLEAN : /\ Return(p, Answer(task[p].op, r))
                             /\ Reliable(p) /\ r => ok
    BY <1>2 DEF Leaves
  <2>2. task'[p] = Idle /\ last'[p] = Answer(task[p].op, r)
    BY <2>1 DEF Return, Tasks
  <2>3. task'[p].op = "idle" /\ task'[p].table = ""  BY <2>2, IdleIs
  <2>4. last'[p].ret => r  BY <2>2, AnswerRet
  <2>5. Reliable(p) => Promised(p) = {t}  BY <1>2 DEF Reliable, Promised
  <2>6. UpdatedBy(p)  BY <1>1, <1>2, <2>1, <2>4, <2>5 DEF UpdatedBy
  <2> QED  BY <2>3, <2>6 DEF OwnStep, TaskShape, Described, Undisturbed
<1>3. CASE task[p].todo # {t}
  <2>1. task[p].op = "updateTables" /\ Backend[p] # "object2db"
    BY <1>3 DEF Tasks, TaskShape
  <2>2. task' = [task EXCEPT ![p] = [op |-> task[p].op, todo |-> task[p].todo \ {t},
                                     seen |-> task[p].seen, table |-> "", missing |-> {}]]
    BY <1>3 DEF Leaves, NextTable
  <2>3. /\ task'[p].op = task[p].op /\ task'[p].todo = task[p].todo \ {t}
        /\ task'[p].seen = task[p].seen /\ task'[p].table = ""
    BY <2>2 DEF Tasks
  <2>4. Promised(p)' = Promised(p)  BY <2>1, <2>3 DEF Promised
  <2>5. Undisturbed(p)'
    <3> SUFFICES ASSUME disturbed'[p] = {} PROVE Undisturbed(p)'  BY DEF Undisturbed
    <3>1. \A u \in Promised(p)' \ task'[p].todo : Has(u, fields(p))'
      BY <1>1, <2>3, <2>4
    <3>2. ASSUME NEW u \in (Promised(p) \cap (task[p].todo \ {t})) \ {""}
          PROVE  u \in task[p].seen <=> u \in DOMAIN db'
      <4>1. u \in task[p].seen <=> u \in DOMAIN db  BY DEF Undisturbed
      <4> QED  BY <4>1
    <3> QED  BY <2>3, <2>4, <3>1, <3>2 DEF Undisturbed
  <2>6. UpdatedBy(p)  BY <2>1, <2>3 DEF UpdatedBy
  <2>7. TaskShape(p)'  BY <2>1, <2>3 DEF TaskShape
  <2> QED  BY <2>3, <2>5, <2>6, <2>7 DEF OwnStep, Described
<1> QED  BY <1>2, <1>3

(***************************************************************************)
(* What a task knows is kept by the statements that change structures.     *)
(***************************************************************************)
(* The shape of the state after a step; what p answered is not an object.  *)
Framed(p) ==
    /\ DOMAIN task' = Programs /\ DOMAIN last' = Programs /\ DOMAIN disturbed' = Programs
    /\ failures' \in Nat
    /\ Answered(p) \/ UNCHANGED last

StructureKept(p) ==
    /\ Rows(db') /\ HoldsAll(db', written')
    /\ OwnStep(p) /\ OthersSee(p) /\ Framed(p)

LEMMA LeavesFrame ==
    ASSUME Tasks, NEW p \in Programs, NEW t, NEW ok, Leaves(p, t, ok)
    PROVE  /\ DOMAIN task' = Programs /\ DOMAIN last' = Programs
           /\ Answered(p) \/ UNCHANGED last
           /\ \A q \in Programs \ {p} : task'[q] = task[q]
<1>1. task[p].op # "select"  BY DEF Tasks, TaskShape
<1>2. CASE \E r \in BOOLEAN : Return(p, Answer(task[p].op, r))
  <2>1. PICK r \in BOOLEAN : Return(p, Answer(task[p].op, r))  BY <1>2
  <2>2. Answered(p)  BY <1>1, <2>1, AnswerOp DEF Return, Answered
  <2> QED  BY <2>1, <2>2 DEF Return, Tasks
<1>3. CASE NextTable(p, t) /\ UNCHANGED last  BY <1>3 DEF NextTable, Tasks
<1> QED  BY <1>2, <1>3 DEF Leaves

LEMMA DisturbIs ==
    ASSUME NEW p \in Programs, NEW what, Disturb(p, what), Tasks
    PROVE  /\ disturbed[p] \subseteq disturbed'[p] /\ DOMAIN disturbed' = Programs
           /\ failures' = failures => disturbed'[p] = disturbed[p]
           /\ disturbed'[p] = {} => failures' = failures /\ disturbed[p] = {}
BY DEF Disturb, Tasks

LEMMA Loses ==
    ASSUME Tasks, LosesConnection
    PROVE  failures' \in Nat /\ failures' # failures
BY DEF Tasks, LosesConnection

LEMMA PromisedNamed ==
    ASSUME Tasks, NEW p \in Programs, task[p].op # "idle"
    PROVE  "" \notin Promised(p)
<1>1. UpperCase \subseteq Tables /\ "" \notin Tables  BY ORMAssumption
<1>2. task[p].op = "updateTable" => \E t \in Tables : task[p].todo = {t}
  BY DEF Tasks, TaskShape
<1>3. task[p].op \in {"updateTable", "updateTables"}  BY DEF Tasks, TaskShape
<1> QED  BY <1>1, <1>2, <1>3 DEF Promised

(* A table that p's task has seen was there, unless the task is disturbed. *)
LEMMA SeenIsThere ==
    ASSUME NEW p \in Programs, NEW t \in Tables, Undisturbed(p), disturbed[p] = {},
           Next1(p, t), t \in Promised(p)
    PROVE  t \in task[p].seen <=> t \in DOMAIN db
<1>1. t # "" /\ task[p].table = "" /\ task[p].op # "idle" /\ t \in task[p].todo
  BY ORMAssumption DEF Next1
<1>2. t \in (Promised(p) \cap task[p].todo) \ {task[p].table}  BY <1>1
<1> QED  BY <1>1, <1>2 DEF Undisturbed

LEMMA AtTableIs ==
    ASSUME Tasks, NEW p \in Programs, NEW t, NEW missing, AtTable(p, t, missing)
    PROVE  /\ task'[p].op = task[p].op /\ task'[p].todo = task[p].todo
           /\ task'[p].seen = task[p].seen /\ task'[p].table = t
           /\ task'[p].missing = missing
           /\ DOMAIN task' = Programs /\ Promised(p)' = Promised(p)
           /\ \A q \in Programs \ {p} : task'[q] = task[q]
<1>1. task'[p] = [op |-> task[p].op, todo |-> task[p].todo, seen |-> task[p].seen,
                  table |-> t, missing |-> missing]
  BY DEF AtTable, Tasks
<1>2. /\ task'[p].op = task[p].op /\ task'[p].todo = task[p].todo
      /\ task'[p].seen = task[p].seen /\ task'[p].table = t
      /\ task'[p].missing = missing
  BY <1>1
<1>3. Promised(p)' = Promised(p)  BY <1>2 DEF Promised
<1>4. DOMAIN task' = Programs /\ \A q \in Programs \ {p} : task'[q] = task[q]
  BY DEF AtTable, Tasks
<1> QED  BY <1>2, <1>3, <1>4

LEMMA DescStep ==
    ASSUME Rows(db), HoldsAll(db, written), Tasks, NEW p \in Programs, NEW t \in Tables,
           Undisturbed(p), Desc(p, t, Leaves)
    PROVE  StructureKept(p)
<1>1. /\ Next1(p, t) /\ t \in task[p].seen /\ UNCHANGED <<db, calls, written>>
      /\ task[p].op # "idle" /\ task[p].table = "" /\ t \in task[p].todo
  BY DEF Desc, Next1
<1>2. Rows(db') /\ HoldsAll(db', written')  BY <1>1
<1>3. SameColumns /\ Grows  BY <1>1, SameGrows
<1>4. \/ /\ t \in DOMAIN db /\ UNCHANGED <<failures, disturbed, last>>
         /\ AtTable(p, t, {i \in DOMAIN FieldsOrdered[p] :
                              FieldsOrdered[p][i] \notin db[t].cols})
      \/ /\ \/ t \notin DOMAIN db /\ UNCHANGED failures
            \/ LosesConnection
         /\ Disturb(p, "other") /\ Leaves(p, t, FALSE)
  BY DEF Desc, Throws
<1>5. CASE /\ t \in DOMAIN db /\ UNCHANGED <<failures, disturbed, last>>
           /\ AtTable(p, t, {i \in DOMAIN FieldsOrdered[p] :
                                FieldsOrdered[p][i] \notin db[t].cols})
  <2>1. /\ task'[p].op = task[p].op /\ task'[p].todo = task[p].todo
        /\ task'[p].seen = task[p].seen /\ task'[p].table = t
        /\ task'[p].missing = {i \in DOMAIN FieldsOrdered[p] :
                                  FieldsOrdered[p][i] \notin db[t].cols}
        /\ DOMAIN task' = Programs /\ Promised(p)' = Promised(p)
        /\ \A q \in Programs \ {p} : task'[q] = task[q]
    BY <1>5, AtTableIs
  <2>2. TaskShape(p)'  BY <1>1, <2>1 DEF Tasks, TaskShape
  <2>3. Described(p)'  BY <1>1, <1>5, <2>1 DEF Described
  <2>4. Undisturbed(p)'
    <3> SUFFICES ASSUME disturbed'[p] = {} PROVE Undisturbed(p)'  BY DEF Undisturbed
    <3>1. \A u \in Promised(p) \ task[p].todo : Has(u, fields(p))
      BY <1>1, <1>5 DEF Undisturbed
    <3>2. \A u \in (Promised(p) \cap task[p].todo) \ {""} :
             u \in task[p].seen <=> u \in DOMAIN db
      BY <1>1, <1>5 DEF Undisturbed
    <3>3. t # ""  BY ORMAssumption
    <3>4. ASSUME NEW u \in (Promised(p) \cap task[p].todo) \ {t}
          PROVE  u \in task[p].seen <=> u \in DOMAIN db
      <4>1. u # ""  BY <1>1, PromisedNamed
      <4> QED  BY <3>2, <4>1
    <3> QED  BY <1>1, <2>1, <3>1, <3>2, <3>4 DEF Undisturbed, Has
  <2>5. UpdatedBy(p)  BY <1>1, <2>1 DEF UpdatedBy
  <2>6. OthersSee(p)  BY <1>3, <1>5, <2>1 DEF OthersSee
  <2>7. Framed(p)  BY <1>5, <2>1 DEF Framed, Tasks
  <2> QED  BY <1>2, <2>2, <2>3, <2>4, <2>5, <2>6, <2>7 DEF StructureKept, OwnStep
<1>6. CASE /\ \/ t \notin DOMAIN db /\ UNCHANGED failures
              \/ LosesConnection
           /\ Disturb(p, "other") /\ Leaves(p, t, FALSE)
  <2>1. /\ disturbed[p] \subseteq disturbed'[p] /\ DOMAIN disturbed' = Programs
        /\ disturbed'[p] = {} => failures' = failures /\ disturbed[p] = {}
    BY <1>6, DisturbIs
  <2>2. /\ DOMAIN task' = Programs /\ DOMAIN last' = Programs
        /\ Answered(p) \/ UNCHANGED last
        /\ \A q \in Programs \ {p} : task'[q] = task[q]
    BY <1>6, LeavesFrame
  <2>3. ~(disturbed'[p] = {} /\ t \in Promised(p))
    BY <1>1, <1>6, <2>1, Loses, SeenIsThere
  <2>4. OwnStep(p)
    <3>1. DOMAIN db' \ {t} = DOMAIN db \ {t}  BY <1>1
    <3> QED  BY <1>1, <1>3, <1>6, <2>1, <2>3, <3>1, LeavesOwn
  <2>5. OthersSee(p)  BY <1>1, <1>6, <2>2, DisturbOthers
  <2>6. failures' \in Nat  BY <1>6, Loses DEF Tasks
  <2> QED  BY <1>2, <2>1, <2>2, <2>4, <2>5, <2>6 DEF StructureKept, Framed
<1> QED  BY <1>4, <1>5, <1>6

LEMMA AddFieldStep ==
    ASSUME Rows(db), HoldsAll(db, written), Tasks, NEW p \in Programs,
           Described(p), Undisturbed(p), AddField(p, Leaves)
    PROVE  StructureKept(p)
<1> DEFINE t == task[p].table
<1>1. PICK i \in task[p].missing :
         LET f == FieldsOrdered[p][i]
             accepted == t \in DOMAIN db /\ f \notin db[t].cols
         IN \/ /\ Executes(accepted, sql_addfield(t, f)) /\ Disturb(p, "other")
               /\ AtTable(p, t, task[p].missing \ {i}) /\ UNCHANGED last
            \/ /\ Throws(accepted, sql_addfield(t, f)) /\ Disturb(p, "other")
               /\ Leaves(p, t, FALSE)
  BY DEF AddField
<1> DEFINE f == FieldsOrdered[p][i]
           accepted == t \in DOMAIN db /\ f \notin db[t].cols
           new == sql_addfield(t, f)
<1>2. /\ t # "" /\ UNCHANGED <<calls, written>>
      /\ task[p].op # "idle" /\ t \in task[p].todo
  BY DEF AddField, Tasks, TaskShape
<1>3. accepted /\ db' = new => /\ Grows /\ DOMAIN db' = DOMAIN db
                               /\ db'[t].cols = db[t].cols \cup {f}
                               /\ Rows(db') /\ HoldsAll(db', written)
  BY AddFieldGrows, AddFieldKeeps
<1>4. \/ /\ accepted /\ db' = new /\ failures' = failures
         /\ Disturb(p, "other") /\ AtTable(p, t, task[p].missing \ {i}) /\ UNCHANGED last
      \/ /\ \/ ~accepted /\ db' = db /\ failures' = failures
            \/ LosesConnection /\ (db' = db \/ (accepted /\ db' = new))
         /\ Disturb(p, "other") /\ Leaves(p, t, FALSE)
  BY <1>1 DEF Executes, Throws
<1> HIDE DEF t, f, accepted, new
<1>5. Rows(db') /\ HoldsAll(db', written') /\ Grows /\ DOMAIN db' = DOMAIN db
  BY <1>2, <1>3, <1>4, SameGrows
<1>6. /\ disturbed[p] \subseteq disturbed'[p] /\ DOMAIN disturbed' = Programs
      /\ disturbed'[p] = {} => failures' = failures /\ disturbed[p] = {}
  BY <1>4, DisturbIs
<1>7. CASE /\ accepted /\ db' = new /\ failures' = failures
           /\ Disturb(p, "other") /\ AtTable(p, t, task[p].missing \ {i}) /\ UNCHANGED last
  <2>1. /\ task'[p].op = task[p].op /\ task'[p].todo = task[p].todo
        /\ task'[p].seen = task[p].seen /\ task'[p].table = t
        /\ task'[p].missing = task[p].missing \ {i}
        /\ DOMAIN task' = Programs /\ Promised(p)' = Promised(p)
        /\ \A q \in Programs \ {p} : task'[q] = task[q]
    BY <1>7, AtTableIs
  <2>2. TaskShape(p)'  BY <1>2, <2>1 DEF Tasks, TaskShape
  <2>3. t \in DOMAIN db /\ f \notin db[t].cols /\ db'[t].cols = db[t].cols \cup {f}
    BY <1>3, <1>7 DEF accepted
  <2>4. disturbed'[p] = disturbed[p]  BY <1>7, DisturbIs
  <2>5. Described(p)'
    <3> SUFFICES ASSUME "drop" \notin disturbed[p]
                 PROVE  /\ t \in DOMAIN db'
                        /\ \A j \in DOMAIN FieldsOrdered[p] :
                              FieldsOrdered[p][j] \in db'[t].cols \/ j \in task'[p].missing
      BY <2>1, <2>4 DEF Described
    <3>1. \A j \in DOMAIN FieldsOrdered[p] :
             FieldsOrdered[p][j] \in db[t].cols \/ j \in task[p].missing
      BY <1>2 DEF Described, t
    <3>2. \A j \in DOMAIN FieldsOrdered[p] : j = i => FieldsOrdered[p][j] = f  BY DEF f
    <3> QED  BY <1>5, <2>1, <2>3, <3>1, <3>2
  <2>6. Undisturbed(p)'
    <3> SUFFICES ASSUME disturbed'[p] = {} PROVE Undisturbed(p)'  BY DEF Undisturbed
    <3>1. \A u \in Promised(p) \ task[p].todo : Has(u, fields(p))'
      BY <1>2, <1>5, <2>4 DEF Undisturbed, Has, Grows
    <3>2. \A u \in (Promised(p) \cap task[p].todo) \ {t} :
             u \in task[p].seen <=> u \in DOMAIN db
      BY <1>2, <2>4 DEF Undisturbed, t
    <3>3. /\ task[p].missing \subseteq DOMAIN FieldsOrdered[p]
          /\ \A j \in task[p].missing : FieldsOrdered[p][j] \notin db[t].cols
      BY <1>2, <2>4 DEF Undisturbed, t
    <3>4. ASSUME NEW j \in task[p].missing \ {i}
          PROVE  FieldsOrdered[p][j] \notin db'[t].cols
      <4>1. FieldsOrdered[p][j] # FieldsOrdered[p][i]
        <5>1. \A m, n \in DOMAIN FieldsOrdered[p] :
                 FieldsOrdered[p][m] = FieldsOrdered[p][n] => m = n
          BY ORMAssumption
        <5> QED  BY <3>3, <5>1
      <4> QED  BY <2>3, <3>3, <4>1 DEF f
    <3> QED  BY <1>5, <2>1, <3>1, <3>2, <3>3, <3>4 DEF Undisturbed
  <2>7. UpdatedBy(p)  BY <1>2, <2>1 DEF UpdatedBy
  <2>8. OthersSee(p)  BY <1>5, <1>7, <2>1, DisturbOthers
  <2>9. Framed(p)  BY <1>6, <1>7, <2>1 DEF Framed, Tasks
  <2> QED  BY <1>5, <2>2, <2>5, <2>6, <2>7, <2>8, <2>9 DEF StructureKept, OwnStep
<1>8. CASE /\ \/ ~accepted /\ db' = db /\ failures' = failures
              \/ LosesConnection /\ (db' = db \/ (accepted /\ db' = new))
           /\ Disturb(p, "other") /\ Leaves(p, t, FALSE)
  <2>1. /\ DOMAIN task' = Programs /\ DOMAIN last' = Programs
        /\ Answered(p) \/ UNCHANGED last
        /\ \A q \in Programs \ {p} : task'[q] = task[q]
    BY <1>8, LeavesFrame
  <2>2. disturbed'[p] # {}
    <3> SUFFICES ASSUME disturbed'[p] = {} PROVE FALSE  OBVIOUS
    <3>1. ~accepted /\ disturbed[p] = {}  BY <1>6, <1>8, Loses
    <3>2. t \in DOMAIN db  BY <1>2, <3>1 DEF Described, t
    <3>3. f \notin db[t].cols  BY <1>2, <3>1 DEF Undisturbed, t, f
    <3> QED  BY <3>1, <3>2, <3>3 DEF accepted
  <2>3. OwnStep(p)
    <3>1. DOMAIN db' \ {t} = DOMAIN db \ {t} /\ task[p].table \in {"", t}
      BY <1>5 DEF t
    <3> QED  BY <1>2, <1>5, <1>6, <1>8, <2>2, <3>1, LeavesOwn
  <2>4. OthersSee(p)  BY <1>5, <1>8, <2>1, DisturbOthers
  <2>5. failures' \in Nat  BY <1>8, Loses DEF Tasks
  <2> QED  BY <1>5, <1>6, <2>1, <2>3, <2>4, <2>5 DEF StructureKept, Framed
<1> QED  BY <1>4, <1>7, <1>8

LEMMA UpdatedStep ==
    ASSUME Rows(db), HoldsAll(db, written), Tasks, NEW p \in Programs,
           Described(p), Undisturbed(p), Updated(p, Leaves)
    PROVE  StructureKept(p)
<1>0. PICK t : t = task[p].table  OBVIOUS
<1>1. /\ t # "" /\ task[p].missing = {} /\ Leaves(p, t, TRUE)
      /\ UNCHANGED <<db, calls, failures, disturbed, written>>
  BY <1>0 DEF Updated
<1>2. task[p].op # "idle" /\ t \in task[p].todo  BY <1>0, <1>1 DEF Tasks, TaskShape
<1>3. SameColumns /\ Grows  BY <1>1, SameGrows
<1>4. "drop" \notin disturbed'[p] => Has(t, fields(p))'
  <2>1. "drop" \notin disturbed[p] =>
           /\ t \in DOMAIN db
           /\ \A j \in DOMAIN FieldsOrdered[p] : FieldsOrdered[p][j] \in db[t].cols
    BY <1>0, <1>1 DEF Described
  <2>2. \A g \in fields(p) : \E j \in DOMAIN FieldsOrdered[p] : FieldsOrdered[p][j] = g
    BY DEF fields, ToSet
  <2> QED  BY <1>1, <2>1, <2>2 DEF Has
<1>5. /\ DOMAIN task' = Programs /\ DOMAIN last' = Programs
      /\ Answered(p) \/ UNCHANGED last
      /\ \A q \in Programs \ {p} : task'[q] = task[q]
  BY <1>1, LeavesFrame
<1>6. OwnStep(p)
  <2>1. DOMAIN db' \ {t} = DOMAIN db \ {t} /\ task[p].table \in {"", t}  BY <1>0, <1>1
  <2>2. disturbed[p] \subseteq disturbed'[p]  BY <1>1
  <2>3. disturbed'[p] = {} => Has(t, fields(p))'  BY <1>4
  <2> QED  BY <1>1, <1>2, <1>3, <1>4, <2>1, <2>2, <2>3, LeavesOwn
<1>7. OthersSee(p)  BY <1>1, <1>3, <1>5 DEF OthersSee
<1>8. Framed(p)  BY <1>1, <1>5 DEF Framed, Tasks
<1> QED  BY <1>1, <1>6, <1>7, <1>8 DEF StructureKept

LEMMA CreateMissingStep ==
    ASSUME Rows(db), HoldsAll(db, written), Tasks, NEW p \in Programs, NEW t \in Tables,
           Undisturbed(p), CreateMissing(p, t, Leaves)
    PROVE  StructureKept(p)
<1> DEFINE new == sql_create(t, p)
<1>1. /\ Next1(p, t) /\ t \notin task[p].seen /\ UNCHANGED <<calls, written>>
      /\ task[p].op # "idle" /\ task[p].table = "" /\ t \in task[p].todo
  BY DEF CreateMissing, Next1
<1>2. \E ok \in BOOLEAN :
         /\ Disturb(p, "other") /\ Leaves(p, t, ok)
         /\ \/ t \notin DOMAIN db /\ db' = new /\ failures' = failures
            \/ t \in DOMAIN db /\ db' = db /\ failures' = failures /\ ~ok
            \/ LosesConnection /\ (db' = db \/ (t \notin DOMAIN db /\ db' = new)) /\ ~ok
  BY DEF CreateMissing, Executes, Throws
<1>3. PICK ok \in BOOLEAN :
         /\ Disturb(p, "other") /\ Leaves(p, t, ok)
         /\ \/ t \notin DOMAIN db /\ db' = new /\ failures' = failures
            \/ t \in DOMAIN db /\ db' = db /\ failures' = failures /\ ~ok
            \/ LosesConnection /\ (db' = db \/ (t \notin DOMAIN db /\ db' = new)) /\ ~ok
  BY <1>2
<1>4. ASSUME t \notin DOMAIN db, db' = new
      PROVE  /\ Grows /\ DOMAIN db' = DOMAIN db \cup {t} /\ db'[t].cols = fields(p)
             /\ Rows(db') /\ HoldsAll(db', written)
  <2>1. /\ Grows /\ DOMAIN db' = DOMAIN db \cup {t} /\ db'[t].cols = fields(p)
    BY <1>4, CreateGrows
  <2>2. Rows(new) /\ HoldsAll(new, written)  BY <1>4, CreateKeeps
  <2> QED  BY <1>4, <2>1, <2>2
<1> HIDE DEF new
<1>5. /\ Rows(db') /\ HoldsAll(db', written') /\ Grows
      /\ DOMAIN db' \ {t} = DOMAIN db \ {t}
  BY <1>1, <1>3, <1>4, SameGrows
<1>6. /\ disturbed[p] \subseteq disturbed'[p] /\ DOMAIN disturbed' = Programs
      /\ disturbed'[p] = {} => failures' = failures /\ disturbed[p] = {}
  BY <1>3, DisturbIs
<1>7. /\ DOMAIN task' = Programs /\ DOMAIN last' = Programs
      /\ Answered(p) \/ UNCHANGED last
      /\ \A q \in Programs \ {p} : task'[q] = task[q]
  BY <1>3, LeavesFrame
<1>8. ok => Has(t, fields(p))'  BY <1>3, <1>4 DEF Has
<1>9. disturbed'[p] = {} /\ t \in Promised(p) => Has(t, fields(p))'
  <2> SUFFICES ASSUME disturbed'[p] = {}, t \in Promised(p) PROVE Has(t, fields(p))'
    OBVIOUS
  <2>1. failures' = failures /\ disturbed[p] = {}  BY <1>6
  <2>2. t \notin DOMAIN db  BY <1>1, <2>1, SeenIsThere
  <2> QED  BY <1>3, <1>4, <2>1, <2>2, Loses DEF Has
<1>10. OwnStep(p)
  <2>1. task[p].table \in {"", t}  BY <1>1
  <2> QED  BY <1>1, <1>3, <1>5, <1>6, <1>8, <1>9, <2>1, LeavesOwn
<1>11. OthersSee(p)  BY <1>3, <1>5, <1>7, DisturbOthers
<1>12. failures' \in Nat  BY <1>3, Loses DEF Tasks
<1> QED  BY <1>5, <1>6, <1>7, <1>10, <1>11, <1>12 DEF StructureKept, Framed

LEMMA IdleFrame ==
    ASSUME Tasks, NEW p \in Programs, task' = [task EXCEPT ![p] = Idle], Answered(p),
           DOMAIN disturbed' = Programs, failures' \in Nat
    PROVE  Framed(p) /\ \A q \in Programs \ {p} : task'[q] = task[q]
<1>1. DOMAIN last' = Programs  BY DEF Answered, Tasks
<1> QED  BY <1>1 DEF Framed, Tasks

LEMMA CreateTableStep ==
    ASSUME Rows(db), HoldsAll(db, written), Tasks, NEW p \in Programs, NEW t \in Tables,
           CreateTable(p, t)
    PROVE  StructureKept(p)
<1> DEFINE new == sql_create(t, p)
<1>1. /\ task[p].op = "idle" /\ task' = [task EXCEPT ![p] = Idle]
      /\ Disturb(p, "other") /\ UNCHANGED written
      /\ \E ok \in BOOLEAN : last' = [last EXCEPT ![p] = Answer("create", ok)]
  BY DEF CreateTable, Call, Return
<1>2. /\ db' = db \/ (t \notin DOMAIN db /\ db' = new)
      /\ failures' = failures \/ LosesConnection
  BY DEF CreateTable, Executes, Throws
<1>3. Answered(p)  BY <1>1, AnswerOp DEF Answered
<1>4. ASSUME t \notin DOMAIN db, db' = new
      PROVE  Grows /\ Rows(db') /\ HoldsAll(db', written)
  <2>1. Grows  BY <1>4, CreateGrows
  <2>2. Rows(new) /\ HoldsAll(new, written)  BY <1>4, CreateKeeps
  <2> QED  BY <1>4, <2>1, <2>2
<1> HIDE DEF new
<1>5. Rows(db') /\ HoldsAll(db', written') /\ (db' = db \/ Grows)  BY <1>1, <1>2, <1>4
<1>6. DOMAIN disturbed' = Programs  BY <1>1, DisturbIs
<1>7. failures' \in Nat  BY <1>2, Loses DEF Tasks
<1>8. Framed(p) /\ \A q \in Programs \ {p} : task'[q] = task[q]
  BY <1>1, <1>3, <1>6, <1>7, IdleFrame
<1>9. OthersSee(p)  BY <1>1, <1>5, <1>8, DisturbOthers
<1>10. OwnStep(p)  BY <1>1, IdleOwn
<1> QED  BY <1>5, <1>8, <1>9, <1>10 DEF StructureKept

LEMMA DropTableStep ==
    ASSUME Rows(db), HoldsAll(db, written), Tasks, NEW p \in Programs, NEW t \in Tables,
           DropTable(p, t)
    PROVE  StructureKept(p)
<1> DEFINE new == sql_drop(t)
<1>1. /\ task[p].op = "idle" /\ task' = [task EXCEPT ![p] = Idle]
      /\ Disturb(p, "drop") /\ written' = Without({t} \X Keys)
      /\ \E ok \in BOOLEAN : last' = [last EXCEPT ![p] = Answer("drop", ok)]
  BY DEF DropTable, Call, Return
<1>2. /\ db' = db \/ db' = new
      /\ failures' = failures \/ LosesConnection
  BY DEF DropTable, Executes, Throws
<1>3. Answered(p)  BY <1>1, AnswerOp DEF Answered
<1>4. Rows(new) /\ HoldsAll(new, Without({t} \X Keys))  BY DropKeeps
<1>5. HoldsAll(db, Without({t} \X Keys))  BY Forget
<1> HIDE DEF new
<1>6. Rows(db') /\ HoldsAll(db', written')  BY <1>1, <1>2, <1>4, <1>5
<1>7. DOMAIN disturbed' = Programs  BY <1>1, DisturbIs
<1>8. failures' \in Nat  BY <1>2, Loses DEF Tasks
<1>9. Framed(p) /\ \A q \in Programs \ {p} : task'[q] = task[q]
  BY <1>1, <1>3, <1>7, <1>8, IdleFrame
<1>10. OthersSee(p)  BY <1>1, <1>9, DisturbOthers
<1>11. OwnStep(p)  BY <1>1, IdleOwn
<1> QED  BY <1>6, <1>9, <1>10, <1>11 DEF StructureKept

(* What SHOW TABLES is asked for and answers, in the six calls. *)
Shows(p, op, todo, seen) ==
    \/ op = "updateTable" /\ seen = DOMAIN db /\ \E t \in Tables : todo = {t}
    \/ /\ op = "updateTables" /\ seen = DOMAIN db \cap UpperCase /\ todo = Tables
       /\ Backend[p] # "object2db"

Shown(p, op, todo, seen, table, missing) ==
    task' = [task EXCEPT ![p] = [op |-> op, todo |-> todo, seen |-> seen,
                                 table |-> table, missing |-> missing]]

LEMMA ShownIs ==
    ASSUME Tasks, NEW p \in Programs, NEW op, NEW todo, NEW seen, NEW table, NEW missing,
           Shown(p, op, todo, seen, table, missing)
    PROVE  /\ task'[p].op = op /\ task'[p].todo = todo /\ task'[p].seen = seen
           /\ task'[p].table = table /\ task'[p].missing = missing
<1>1. task'[p] = [op |-> op, todo |-> todo, seen |-> seen, table |-> table, missing |-> missing]
  BY DEF Shown, Tasks
<1> QED  BY <1>1

LEMMA ShowStep ==
    ASSUME Rows(db), HoldsAll(db, written), Tasks, NEW p \in Programs,
           NEW op, NEW todo, NEW seen, Shows(p, op, todo, seen), Show(p, op, todo, seen)
    PROVE  StructureKept(p)
<1>1. /\ task[p].op = "idle" /\ UNCHANGED <<db, written>>
      /\ disturbed' = [disturbed EXCEPT ![p] = {}]
  BY DEF Show, Call
<1>2. op # "select" /\ op # "idle"  BY DEF Shows
<1>3. /\ DOMAIN disturbed' = Programs /\ disturbed'[p] = {}
      /\ \A q \in Programs \ {p} : disturbed'[q] = disturbed[q]
  BY <1>1 DEF Tasks
<1>4. SameColumns  BY <1>1, SameGrows
<1>5. Rows(db') /\ HoldsAll(db', written')  BY <1>1
<1>6. CASE /\ task' = [task EXCEPT ![p] = [op |-> op, todo |-> todo, seen |-> seen,
                                           table |-> "", missing |-> {}]]
           /\ UNCHANGED <<failures, last>>
  <2>1. Shown(p, op, todo, seen, "", {})  BY <1>6 DEF Shown
  <2>2. /\ task'[p].op = op /\ task'[p].todo = todo /\ task'[p].seen = seen
        /\ task'[p].table = ""
    BY <2>1, ShownIs
  <2>3. DOMAIN task' = Programs /\ \A q \in Programs \ {p} : task'[q] = task[q]
    BY <1>6 DEF Tasks
  <2>4. TaskShape(p)'  BY <2>2 DEF TaskShape, Shows
  <2>5. Described(p)' /\ UpdatedBy(p)  BY <1>2, <2>2 DEF Described, UpdatedBy
  <2>6. Undisturbed(p)'
    <3>1. Promised(p)' \subseteq todo /\ \A u \in Promised(p)' : u \in seen <=> u \in DOMAIN db
      BY <2>2, ORMAssumption DEF Shows, Promised
    <3> QED  BY <1>1, <2>2, <3>1 DEF Undisturbed
  <2>7. OthersSee(p)  BY <1>3, <1>4, <2>3 DEF OthersSee
  <2>8. Framed(p)  BY <1>3, <1>6, <2>3 DEF Framed, Tasks
  <2> QED  BY <1>5, <2>4, <2>5, <2>6, <2>7, <2>8 DEF StructureKept, OwnStep
<1>7. CASE LosesConnection /\ Return(p, Answer(op, FALSE))
  <2>1. task' = [task EXCEPT ![p] = Idle]  BY <1>7 DEF Return
  <2>2. Answered(p)  BY <1>2, <1>7, AnswerOp DEF Return, Answered
  <2>3. failures' \in Nat  BY <1>7, Loses
  <2>4. Framed(p) /\ \A q \in Programs \ {p} : task'[q] = task[q]
    BY <1>3, <2>1, <2>2, <2>3, IdleFrame
  <2>5. OthersSee(p)  BY <1>3, <1>4, <2>4 DEF OthersSee
  <2>6. OwnStep(p)  BY <1>1, <2>1, IdleOwn
  <2> QED  BY <1>5, <2>4, <2>5, <2>6 DEF StructureKept
<1> QED  BY <1>6, <1>7 DEF Show

(* A call that only changes rows, or reads them. *)
LEMMA RowsOnlyKept ==
    ASSUME Tasks, NEW p \in Programs, RowsOnly(p)
    PROVE  /\ OwnStep(p) /\ OthersSee(p)
           /\ DOMAIN task' = Programs /\ DOMAIN disturbed' = Programs
<1>1. OwnStep(p)  BY IdleOwn DEF RowsOnly
<1>2. \A q \in Programs \ {p} : task'[q] = task[q]  BY DEF RowsOnly, Tasks
<1>3. OthersSee(p)  BY <1>2 DEF OthersSee, RowsOnly
<1>4. DOMAIN task' = Programs /\ DOMAIN disturbed' = Programs  BY DEF RowsOnly, Tasks
<1> QED  BY <1>1, <1>3, <1>4

-----------------------------------------------------------------------------
(***************************************************************************)
(* Every step keeps IInv, and does what UpdatedMeansColumns says.          *)
(***************************************************************************)
ReadBackOf(p) ==
    last[p].op = "select" /\ last[p].want.by \in Programs =>
        /\ last[p].want.by = p => last[p].ret \/ last[p].failed
        /\ last[p].ret => ReadAs(p, last[p].want.by, last[p].want.value, last[p].object)

LEMMA AnsweredReads ==
    ASSUME Tasks, NEW p \in Programs, Answered(p) \/ UNCHANGED last,
           \A q \in Programs : ReadBackOf(q)
    PROVE  \A q \in Programs : ReadBackOf(q)'
<1>1. ASSUME UNCHANGED last PROVE \A q \in Programs : ReadBackOf(q)'
  BY <1>1 DEF ReadBackOf
<1>2. ASSUME Answered(p) PROVE \A q \in Programs : ReadBackOf(q)'
  <2>1. PICK r : r.op # "select" /\ last' = [last EXCEPT ![p] = r]  BY <1>2 DEF Answered
  <2>2. last'[p] = r /\ \A q \in Programs \ {p} : last'[q] = last[q]  BY <2>1 DEF Tasks
  <2> QED  BY <2>1, <2>2 DEF ReadBackOf
<1> QED  BY <1>1, <1>2

Selected(p, ok, obj, want, failed, row) ==
    last' = [last EXCEPT ![p] = [op |-> "select", ret |-> ok, object |-> obj,
                                 want |-> want, failed |-> failed, row |-> row]]

LEMMA SelectedIs ==
    ASSUME Tasks, NEW p \in Programs, NEW ok, NEW obj, NEW want, NEW failed, NEW row,
           Selected(p, ok, obj, want, failed, row)
    PROVE  /\ last'[p].op = "select" /\ last'[p].ret = ok /\ last'[p].object = obj
           /\ last'[p].want = want /\ last'[p].failed = failed
           /\ DOMAIN last' = Programs /\ \A q \in Programs \ {p} : last'[q] = last[q]
<1>1. last'[p] = [op |-> "select", ret |-> ok, object |-> obj, want |-> want,
                  failed |-> failed, row |-> row]
  BY DEF Selected, Tasks
<1>2. /\ last'[p].op = "select" /\ last'[p].ret = ok /\ last'[p].object = obj
      /\ last'[p].want = want /\ last'[p].failed = failed
  BY <1>1
<1> QED  BY <1>2 DEF Selected, Tasks

LEMMA SelectReads ==
    ASSUME Tasks, NEW p \in Programs, NEW t, NEW k, ReadAnswer(p, t, k),
           \A q \in Programs : ReadBackOf(q)
    PROVE  DOMAIN last' = Programs /\ \A q \in Programs : ReadBackOf(q)'
<1> DEFINE w == Want(t, k)
<1>1. PICK ok, obj, failed, row :
         /\ Selected(p, ok, obj, w, failed, row)
         /\ w.by = p => ok \/ failed
         /\ w.by \in Programs /\ ok => ReadAs(p, w.by, w.value, obj)
  BY DEF ReadAnswer, Selected
<1> HIDE DEF w
<1>2. /\ last'[p].op = "select" /\ last'[p].ret = ok /\ last'[p].object = obj
      /\ last'[p].want = w /\ last'[p].failed = failed
      /\ DOMAIN last' = Programs /\ \A q \in Programs \ {p} : last'[q] = last[q]
  BY <1>1, SelectedIs
<1>3. ReadBackOf(p)'  BY <1>1, <1>2 DEF ReadBackOf
<1>4. \A q \in Programs \ {p} : ReadBackOf(q)'  BY <1>2 DEF ReadBackOf
<1> QED  BY <1>2, <1>3, <1>4

(* What a step of p has to establish for IInv to be kept. *)
StepKept(p) ==
    /\ Rows(db') /\ HoldsAll(db', written')
    /\ OwnStep(p) /\ OthersSee(p)
    /\ DOMAIN task' = Programs /\ DOMAIN last' = Programs /\ DOMAIN disturbed' = Programs
    /\ failures' \in Nat
    /\ \A q \in Programs : ReadBackOf(q)'

IParts ==
    /\ Rows(db) /\ HoldsAll(db, written) /\ Tasks
    /\ \A q \in Programs : ReadBackOf(q) /\ Described(q) /\ Undisturbed(q)

LEMMA IInvParts == (IInv <=> IParts) /\ (IInv' <=> IParts')
BY DEF IInv, IParts, Rows, HoldsAll, Holds, RowsHaveColumns, StoredIsThere, RowKeys, Has,
       ReadBack, ReadBackOf, ReadAs

LEMMA StructureStep ==
    ASSUME IParts, NEW p \in Programs, StructureKept(p)
    PROVE  StepKept(p)
BY AnsweredReads DEF IParts, StructureKept, Framed, StepKept

LEMMA RowsStep ==
    ASSUME IParts, NEW p \in Programs, Rows(db'), HoldsAll(db', written'), RowsOnly(p),
           Answered(p), failures' = failures \/ LosesConnection
    PROVE  StepKept(p)
<1>1. Tasks  BY DEF IParts
<1>2. /\ OwnStep(p) /\ OthersSee(p)
      /\ DOMAIN task' = Programs /\ DOMAIN disturbed' = Programs
  BY <1>1, RowsOnlyKept
<1>3. DOMAIN last' = Programs  BY <1>1 DEF Answered, Tasks
<1>4. failures' \in Nat  BY <1>1, Loses DEF Tasks
<1>5. \A q \in Programs : ReadBackOf(q)'  BY <1>1, AnsweredReads DEF IParts
<1> QED  BY <1>2, <1>3, <1>4, <1>5 DEF StepKept

LEMMA KeptStep ==
    ASSUME IParts, NEW p \in Programs, StepKept(p)
    PROVE  IParts' /\ \A q \in Programs : UpdatedBy(q)
<1>1. \A q \in Programs \ {p} : task'[q] = task[q]  BY DEF StepKept, OthersSee
<1>2. \A q \in Programs : TaskShape(q)'
  <2>1. TaskShape(p)'  BY DEF StepKept, OwnStep
  <2>2. ASSUME NEW q \in Programs \ {p} PROVE TaskShape(q)'
    <3>1. task'[q] = task[q]  BY <1>1
    <3>2. TaskShape(q)  BY DEF IParts, Tasks
    <3> QED  BY <3>1, <3>2 DEF TaskShape
  <2> QED  BY <2>1, <2>2
<1>3. Tasks'  BY <1>2 DEF StepKept, Tasks
<1>4. \A q \in Programs : Described(q)' /\ Undisturbed(q)'
  <2>1. Described(p)' /\ Undisturbed(p)'  BY DEF StepKept, OwnStep
  <2>2. ASSUME NEW q \in Programs \ {p} PROVE Described(q)' /\ Undisturbed(q)'
    BY OthersKeep DEF StepKept, IParts
  <2> QED  BY <2>1, <2>2
<1>5. \A q \in Programs : UpdatedBy(q)
  <2>1. UpdatedBy(p)  BY DEF StepKept, OwnStep
  <2>2. \A q \in Programs \ {p} : UpdatedBy(q)  BY <1>1 DEF UpdatedBy
  <2> QED  BY <2>1, <2>2
<1>6. \A q \in Programs : ReadBackOf(q)'  BY DEF StepKept
<1>7. IParts'  BY <1>3, <1>4, <1>6 DEF StepKept, IParts, Rows, HoldsAll, Holds
<1> QED  BY <1>5, <1>7

-----------------------------------------------------------------------------
(***************************************************************************)
(* The calls of the three mappings.                                        *)
(***************************************************************************)
LEMMA InsertFull ==
    ASSUME IParts, NEW p \in Programs, NEW t \in Tables, NEW k \in Keys, NEW v \in Reads[p],
           NEW op, op # "select", NEW accepted \in BOOLEAN, accepted => Has(t, fields(p)),
           Insert(p, op, t, k, v, accepted, RowOf(p, v))
    PROVE  StepKept(p)
<1>1. Rows(db') /\ HoldsAll(db', written') /\ RowsOnly(p) /\ Answered(p)
  BY InsertStep DEF IParts
<1>2. failures' = failures \/ LosesConnection
  BY DEF Insert, Modify, Executes, Throws
<1> QED  BY <1>1, <1>2, RowsStep

LEMMA UpdateFull ==
    ASSUME IParts, NEW p \in Programs, NEW t \in Tables, NEW k \in Keys, NEW v \in Reads[p],
           Update(p, t, k, v, RowOf(p, v))
    PROVE  StepKept(p)
<1>1. Rows(db') /\ HoldsAll(db', written') /\ RowsOnly(p) /\ Answered(p)
  BY UpdateRowStep DEF IParts
<1>2. failures' = failures \/ LosesConnection
  BY DEF Update, Modify, Executes, Throws
<1> QED  BY <1>1, <1>2, RowsStep

LEMMA DeleteFull ==
    ASSUME IParts, NEW p \in Programs, NEW t \in Tables, NEW ks, NEW op, op # "select",
           Delete(p, op, t, ks)
    PROVE  StepKept(p)
<1>1. Rows(db') /\ HoldsAll(db', written') /\ RowsOnly(p) /\ Answered(p)
  BY DeleteStep DEF IParts
<1>2. failures' = failures \/ LosesConnection
  BY DEF Delete, Modify, Executes, Throws
<1> QED  BY <1>1, <1>2, RowsStep

LEMMA LoadFull ==
    ASSUME IParts, NEW p \in Programs, NEW t \in Tables, NEW delivered, NEW ok,
           Load(p, t, delivered, ok)
    PROVE  StepKept(p)
<1>1. Rows(db') /\ HoldsAll(db', written') /\ RowsOnly(p) /\ Answered(p)
  BY LoadStep DEF IParts
<1>2. failures' = failures \/ LosesConnection
  BY DEF Load, Throws
<1> QED  BY <1>1, <1>2, RowsStep

LEMMA SelectFull ==
    ASSUME IParts, NEW p \in Programs, NEW t \in Tables, NEW k \in Keys,
           MySqlSelect(p, t, k) \/ SociSelect(p, t, k) \/ selectDB(p, t, k)
    PROVE  StepKept(p)
<1>1. Tasks /\ Rows(db) /\ HoldsAll(db, written)  BY DEF IParts
<1>2. UNCHANGED <<db, written>> /\ RowsOnly(p) /\ ReadAnswer(p, t, k)
  BY <1>1, SelectStep
<1>3. failures' = failures \/ LosesConnection
  <2>1. CASE MySqlSelect(p, t, k)  BY <2>1 DEF MySqlSelect, Read
  <2>2. CASE SociSelect(p, t, k)  BY <2>2 DEF SociSelect, Read
  <2>3. CASE selectDB(p, t, k)  BY <2>3 DEF selectDB, Read
  <2> QED  BY <2>1, <2>2, <2>3
<1>4. /\ OwnStep(p) /\ OthersSee(p)
      /\ DOMAIN task' = Programs /\ DOMAIN disturbed' = Programs
  BY <1>1, <1>2, RowsOnlyKept
<1>5. DOMAIN last' = Programs /\ \A q \in Programs : ReadBackOf(q)'
  BY <1>1, <1>2, SelectReads DEF IParts
<1>6. failures' \in Nat  BY <1>1, <1>3, Loses DEF Tasks
<1>7. Rows(db') /\ HoldsAll(db', written')  BY <1>1, <1>2
<1> QED  BY <1>4, <1>5, <1>6, <1>7 DEF StepKept

LEMMA StructureFull ==
    ASSUME IParts, NEW p \in Programs
    PROVE  /\ UpdateStep(p) => StepKept(p)
           /\ \A t \in Tables :
                 /\ CreateMissing(p, t, Leaves) => StepKept(p)
                 /\ CreateTable(p, t) => StepKept(p)
                 /\ DropTable(p, t) => StepKept(p)
<1>1. Rows(db) /\ HoldsAll(db, written) /\ Tasks /\ Described(p) /\ Undisturbed(p)
  BY DEF IParts
<1>2. ASSUME UpdateStep(p) PROVE StepKept(p)
  <2>1. ASSUME NEW t \in Tables, Desc(p, t, Leaves) PROVE StepKept(p)
    BY <1>1, <2>1, DescStep, StructureStep
  <2>2. ASSUME AddField(p, Leaves) PROVE StepKept(p)
    BY <1>1, <2>2, AddFieldStep, StructureStep
  <2>3. ASSUME Updated(p, Leaves) PROVE StepKept(p)
    BY <1>1, <2>3, UpdatedStep, StructureStep
  <2> QED  BY <1>2, <2>1, <2>2, <2>3 DEF UpdateStep
<1>3. ASSUME NEW t \in Tables, CreateMissing(p, t, Leaves) PROVE StepKept(p)
  BY <1>1, <1>3, CreateMissingStep, StructureStep
<1>4. ASSUME NEW t \in Tables, CreateTable(p, t) PROVE StepKept(p)
  BY <1>1, <1>4, CreateTableStep, StructureStep
<1>5. ASSUME NEW t \in Tables, DropTable(p, t) PROVE StepKept(p)
  BY <1>1, <1>5, DropTableStep, StructureStep
<1> QED  BY <1>2, <1>3, <1>4, <1>5

LEMMA ShowFull ==
    ASSUME IParts, NEW p \in Programs, NEW op, NEW todo, NEW seen,
           Shows(p, op, todo, seen), Show(p, op, todo, seen)
    PROVE  StepKept(p)
BY ShowStep, StructureStep DEF IParts

Inserts(p, op, t, k, v, accepted) ==
    /\ op # "select" /\ accepted \in BOOLEAN /\ (accepted => Has(t, fields(p)))
    /\ Insert(p, op, t, k, v, accepted, RowOf(p, v))

(* What MySqlNext, SociNext and ObjNext have in common. *)
OneCall(p) ==
    \/ UpdateStep(p)
    \/ \E op, todo, seen : Shows(p, op, todo, seen) /\ Show(p, op, todo, seen)
    \/ \E t \in Tables :
        \/ CreateMissing(p, t, Leaves) \/ CreateTable(p, t) \/ DropTable(p, t)
        \/ \E op, ks : op # "select" /\ Delete(p, op, t, ks)
        \/ \E delivered, ok : Load(p, t, delivered, ok)
        \/ \E k \in Keys : MySqlSelect(p, t, k) \/ SociSelect(p, t, k) \/ selectDB(p, t, k)
        \/ \E k \in Keys, v \in Reads[p] :
            \/ Update(p, t, k, v, RowOf(p, v))
            \/ \E op, accepted : Inserts(p, op, t, k, v, accepted)

LEMMA CallKept ==
    ASSUME IParts, NEW p \in Programs, OneCall(p)
    PROVE  StepKept(p)
<1>1. ASSUME NEW op, NEW todo, NEW seen, Shows(p, op, todo, seen), Show(p, op, todo, seen)
      PROVE  StepKept(p)
  BY <1>1, ShowFull
<1>2. ASSUME NEW t \in Tables, NEW op, NEW ks, op # "select", Delete(p, op, t, ks)
      PROVE  StepKept(p)
  BY <1>2, DeleteFull
<1>3. ASSUME NEW t \in Tables, NEW delivered, NEW ok, Load(p, t, delivered, ok)
      PROVE  StepKept(p)
  BY <1>3, LoadFull
<1>4. ASSUME NEW t \in Tables, NEW k \in Keys,
             MySqlSelect(p, t, k) \/ SociSelect(p, t, k) \/ selectDB(p, t, k)
      PROVE  StepKept(p)
  BY <1>4, SelectFull
<1>5. ASSUME NEW t \in Tables, NEW k \in Keys, NEW v \in Reads[p],
             Update(p, t, k, v, RowOf(p, v))
      PROVE  StepKept(p)
  BY <1>5, UpdateFull
<1>6. ASSUME NEW t \in Tables, NEW k \in Keys, NEW v \in Reads[p], NEW op, NEW accepted,
             Inserts(p, op, t, k, v, accepted)
      PROVE  StepKept(p)
  <2>1. accepted \in BOOLEAN  BY <1>6 DEF Inserts
  <2> QED  BY <1>6, <2>1, InsertFull DEF Inserts
<1> QED  BY <1>1, <1>2, <1>3, <1>4, <1>5, <1>6, StructureFull DEF OneCall

LEMMA InsertCall ==
    ASSUME NEW p \in Programs, NEW t \in Tables, NEW k \in Keys, NEW v \in Reads[p],
           NEW op, op # "select", NEW accepted \in BOOLEAN, accepted => Has(t, fields(p)),
           Insert(p, op, t, k, v, accepted, RowOf(p, v))
    PROVE  OneCall(p)
<1>1. Inserts(p, op, t, k, v, accepted)  BY DEF Inserts
<1> QED  BY <1>1 DEF OneCall

LEMMA RowCalls ==
    ASSUME NEW p \in Programs, NEW t \in Tables
    PROVE  /\ \A op, ks : op # "select" /\ Delete(p, op, t, ks) => OneCall(p)
           /\ \A delivered, ok : Load(p, t, delivered, ok) => OneCall(p)
           /\ \A k \in Keys : \A v \in Reads[p] :
                  Update(p, t, k, v, RowOf(p, v)) => OneCall(p)
BY DEF OneCall

LEMMA ShowCall ==
    ASSUME NEW p \in Programs, NEW op, NEW todo, NEW seen,
           Shows(p, op, todo, seen), Show(p, op, todo, seen)
    PROVE  OneCall(p)
BY DEF OneCall

LEMMA MySqlCall ==
    ASSUME Tasks, NEW p \in Programs, MySqlNext(p)
    PROVE  OneCall(p)
<1>1. ASSUME MySqlUpdateTables(p) PROVE OneCall(p)
  <2>1. Backend[p] # "object2db"  BY <1>1 DEF MySqlUpdateTables, MySql
  <2>2. Shows(p, "updateTables", Tables, showTables)  BY <2>1 DEF Shows, showTables
  <2> QED  BY <1>1, <2>2, ShowCall DEF MySqlUpdateTables
<1>2. ASSUME MySqlUpdateExistTable(p) PROVE OneCall(p)
  BY <1>2, UpdateSteps DEF OneCall
<1>3. ASSUME NEW t \in Tables, MySqlUpdateTable(p, t) PROVE OneCall(p)
  <2>1. Shows(p, "updateTable", {t}, DOMAIN db)  BY DEF Shows
  <2> QED  BY <1>3, <2>1, ShowCall DEF MySqlUpdateTable
<1>4. ASSUME NEW t \in Tables,
             MySqlCreateByName(p, t) \/ MySqlCreateTable(p, t) \/ MySqlDropTable(p, t)
      PROVE  OneCall(p)
  <2>1. MySqlCreateByName(p, t) => OneCall(p)  BY CreateSteps DEF OneCall
  <2> QED  BY <1>4, <2>1 DEF OneCall, MySqlCreateTable, MySqlDropTable
<1>5. ASSUME NEW t \in Tables, MySqlDeleteFromDB(p, t) PROVE OneCall(p)
  BY <1>5, RowCalls DEF MySqlDeleteFromDB
<1>6. ASSUME NEW t \in Tables, MySqlLoadFromDB(p, t) PROVE OneCall(p)
  BY <1>6, RowCalls DEF MySqlLoadFromDB
<1>7. ASSUME NEW t \in Tables, NEW k \in Keys, MySqlDel(p, t, k) PROVE OneCall(p)
  BY <1>7, RowCalls DEF MySqlDel
<1>8. ASSUME NEW t \in Tables, NEW k \in Keys, MySqlSelect(p, t, k) PROVE OneCall(p)
  BY <1>8 DEF OneCall
<1>9. ASSUME NEW t \in Tables, NEW k \in Keys, NEW v \in Reads[p], MySqlInsert(p, t, k, v)
      PROVE  OneCall(p)
  <2>1. Insert(p, "insert", t, k, v, Has(t, fields(p)) /\ k \notin RowKeys(t), RowOf(p, v))
    BY <1>9, RowsWritten DEF MySqlInsert
  <2> QED  BY <2>1, InsertCall
<1>10. ASSUME NEW t \in Tables, NEW k \in Keys, NEW v \in Reads[p], MySqlReplace(p, t, k, v)
       PROVE  OneCall(p)
  <2>1. Insert(p, "replace", t, k, v, Has(t, fields(p)), RowOf(p, v))
    BY <1>10, RowsWritten DEF MySqlReplace
  <2>2. Has(t, fields(p)) \in BOOLEAN  BY DEF Has
  <2> QED  BY <2>1, <2>2, InsertCall
<1>11. ASSUME NEW t \in Tables, NEW k \in Keys, NEW v \in Reads[p], MySqlUpdate(p, t, k, v)
       PROVE  OneCall(p)
  <2>1. Update(p, t, k, v, RowOf(p, v))  BY <1>11, RowsWritten DEF MySqlUpdate
  <2> QED  BY <2>1, RowCalls
<1> QED  BY <1>1, <1>2, <1>3, <1>4, <1>5, <1>6, <1>7, <1>8, <1>9, <1>10, <1>11 DEF MySqlNext

LEMMA SociCall ==
    ASSUME Tasks, NEW p \in Programs, SociNext(p)
    PROVE  OneCall(p)
<1>1. ASSUME SociUpdateTables(p) PROVE OneCall(p)
  <2>1. Backend[p] # "object2db"  BY <1>1 DEF SociUpdateTables, Soci
  <2>2. Shows(p, "updateTables", Tables, SociShowTables)  BY <2>1 DEF Shows, SociShowTables
  <2> QED  BY <1>1, <2>2, ShowCall DEF SociUpdateTables
<1>2. ASSUME SociUpdateExistTable(p) PROVE OneCall(p)
  BY <1>2, UpdateSteps DEF OneCall
<1>3. ASSUME NEW t \in Tables, SociUpdateTable(p, t) PROVE OneCall(p)
  <2>1. Shows(p, "updateTable", {t}, DOMAIN db)  BY DEF Shows
  <2> QED  BY <1>3, <2>1, ShowCall DEF SociUpdateTable
<1>4. ASSUME NEW t \in Tables,
             SociCreateByName(p, t) \/ SociCreateTable(p, t) \/ SociDropTable(p, t)
      PROVE  OneCall(p)
  <2>1. SociCreateByName(p, t) => OneCall(p)  BY CreateSteps DEF OneCall
  <2> QED  BY <1>4, <2>1 DEF OneCall, SociCreateTable, SociDropTable
<1>5. ASSUME NEW t \in Tables, SociDeleteFromDB(p, t) PROVE OneCall(p)
  BY <1>5, RowCalls DEF SociDeleteFromDB
<1>6. ASSUME NEW t \in Tables, SociLoadFromDB(p, t) PROVE OneCall(p)
  <2>1. \E delivered : Load(p, t, delivered, FALSE)  BY <1>6 DEF SociLoadFromDB
  <2> QED  BY <2>1, RowCalls
<1>7. ASSUME NEW t \in Tables, NEW k \in Keys, SociDel(p, t, k) PROVE OneCall(p)
  BY <1>7, RowCalls DEF SociDel
<1>8. ASSUME NEW t \in Tables, NEW k \in Keys, SociSelect(p, t, k) PROVE OneCall(p)
  BY <1>8 DEF OneCall
<1>9. ASSUME NEW t \in Tables, NEW k \in Keys, NEW v \in Reads[p], SociInsert(p, t, k, v)
      PROVE  OneCall(p)
  <2>1. Insert(p, "insert", t, k, v, Has(t, fields(p)) /\ k \notin RowKeys(t), RowOf(p, v))
    BY <1>9, RowsWritten DEF SociInsert
  <2> QED  BY <2>1, InsertCall
<1>10. ASSUME NEW t \in Tables, NEW k \in Keys, NEW v \in Reads[p], SociReplace(p, t, k, v)
       PROVE  OneCall(p)
  <2>1. Insert(p, "replace", t, k, v, Has(t, fields(p)), RowOf(p, v))
    BY <1>10, RowsWritten DEF SociReplace
  <2>2. Has(t, fields(p)) \in BOOLEAN  BY DEF Has
  <2> QED  BY <2>1, <2>2, InsertCall
<1>11. ASSUME NEW t \in Tables, NEW k \in Keys, NEW v \in Reads[p], SociUpdate(p, t, k, v)
       PROVE  OneCall(p)
  <2>1. Update(p, t, k, v, RowOf(p, v))  BY <1>11, RowsWritten DEF SociUpdate
  <2> QED  BY <2>1, RowCalls
<1> QED  BY <1>1, <1>2, <1>3, <1>4, <1>5, <1>6, <1>7, <1>8, <1>9, <1>10, <1>11 DEF SociNext

LEMMA ObjCall ==
    ASSUME Tasks, NEW p \in Programs, ObjNext(p)
    PROVE  OneCall(p)
<1>1. ASSUME ObjUpdateExistTable(p) PROVE OneCall(p)
  BY <1>1, UpdateSteps DEF OneCall
<1>2. ASSUME NEW t \in Tables, ObjUpdateTable(p, t) PROVE OneCall(p)
  <2>1. Shows(p, "updateTable", {t}, DOMAIN db)  BY DEF Shows
  <2> QED  BY <1>2, <2>1, ShowCall DEF ObjUpdateTable
<1>3. ASSUME NEW t \in Tables,
             ObjCreateMissing(p, t) \/ ObjCreateTable(p, t) \/ ObjDropTable(p, t)
      PROVE  OneCall(p)
  <2>1. ObjCreateMissing(p, t) => OneCall(p)  BY CreateSteps DEF OneCall
  <2> QED  BY <1>3, <2>1 DEF OneCall, ObjCreateTable, ObjDropTable
<1>4. ASSUME NEW t \in Tables, ObjDeleteFromDB(p, t) PROVE OneCall(p)
  BY <1>4, RowCalls DEF ObjDeleteFromDB
<1>5. ASSUME NEW t \in Tables, ObjLoadFromDB(p, t) PROVE OneCall(p)
  BY <1>5, RowCalls DEF ObjLoadFromDB
<1>6. ASSUME NEW t \in Tables, NEW k \in Keys, deleteDB(p, t, k) PROVE OneCall(p)
  BY <1>6, RowCalls DEF deleteDB
<1>7. ASSUME NEW t \in Tables, NEW k \in Keys, selectDB(p, t, k) PROVE OneCall(p)
  BY <1>7 DEF OneCall
<1>8. ASSUME NEW t \in Tables, NEW k \in Keys, NEW v \in Reads[p], insertDB(p, t, k, v)
      PROVE  OneCall(p)
  <2>1. Insert(p, "insert", t, k, v, Has(t, fields(p)) /\ k \notin RowKeys(t), RowOf(p, v))
    BY <1>8, RowsWritten DEF insertDB
  <2> QED  BY <2>1, InsertCall
<1>9. ASSUME NEW t \in Tables, NEW k \in Keys, NEW v \in Reads[p], replaceDB(p, t, k, v)
       PROVE  OneCall(p)
  <2>1. Insert(p, "replace", t, k, v, Has(t, fields(p)), RowOf(p, v))
    BY <1>9, RowsWritten DEF replaceDB
  <2>2. Has(t, fields(p)) \in BOOLEAN  BY DEF Has
  <2> QED  BY <2>1, <2>2, InsertCall
<1>10. ASSUME NEW t \in Tables, NEW k \in Keys, NEW v \in Reads[p], updateDB(p, t, k, v)
       PROVE  OneCall(p)
  <2>1. Update(p, t, k, v, RowOf(p, v))  BY <1>10, RowsWritten DEF updateDB
  <2> QED  BY <2>1, RowCalls
<1> QED  BY <1>1, <1>2, <1>3, <1>4, <1>5, <1>6, <1>7, <1>8, <1>9, <1>10 DEF ObjNext

LEMMA NextStep ==
    ASSUME IInv, Next
    PROVE  IInv' /\ \A q \in Programs : UpdatedBy(q)
<1>1. IParts  BY IInvParts
<1>2. PICK p \in Programs : MySqlNext(p) \/ SociNext(p) \/ ObjNext(p)  BY DEF Next
<1>3. OneCall(p)  BY <1>1, <1>2, MySqlCall, SociCall, ObjCall DEF IParts
<1>4. StepKept(p)  BY <1>1, <1>3, CallKept
<1> QED  BY <1>1, <1>4, KeptStep, IInvParts

LEMMA InitIInv == Init => IInv
<1> SUFFICES ASSUME Init PROVE IInv  OBVIOUS
<1>1. DOMAIN db = {} /\ DOMAIN written = {}  BY DEF Init, Nothing
<1>2. Rows(db) /\ HoldsAll(db, written)  BY <1>1 DEF Rows, HoldsAll
<1>3. \A q \in Programs : task[q] = Idle /\ task[q].op = "idle" /\ task[q].table = ""
  BY IdleIs DEF Init
<1>4. Tasks
  <2>1. \A q \in Programs : TaskShape(q)  BY <1>3 DEF TaskShape
  <2> QED  BY <2>1 DEF Init, Tasks
<1>5. \A q \in Programs : Described(q) /\ Undisturbed(q)
  BY <1>3 DEF Described, Undisturbed
<1>6. ASSUME NEW q \in Programs PROVE ReadBackOf(q)
  <2>1. NoCall.op = "none"  BY DEF NoCall
  <2> QED  BY <2>1 DEF Init, ReadBackOf
<1>7. IParts  BY <1>2, <1>4, <1>5, <1>6 DEF IParts
<1> QED  BY <1>7, IInvParts

LEMMA StutterStep ==
    ASSUME IInv, UNCHANGED vars
    PROVE  IInv'
<1>1. IParts  BY IInvParts
<1>2. UNCHANGED <<db, task, last, calls, failures, disturbed, written>>  BY DEF vars
<1>3. Rows(db') /\ HoldsAll(db', written')  BY <1>1, <1>2 DEF IParts
<1>4. ASSUME NEW q \in Programs
      PROVE  TaskShape(q)' /\ ReadBackOf(q)' /\ Described(q)' /\ Undisturbed(q)'
  <2>1. TaskShape(q) /\ ReadBackOf(q) /\ Described(q) /\ Undisturbed(q)
    BY <1>1 DEF IParts, Tasks
  <2>2. TaskShape(q)' /\ ReadBackOf(q)'  BY <1>2, <2>1 DEF TaskShape, ReadBackOf
  <2>3. Described(q)'  BY <1>2, <2>1 DEF Described
  <2>4. Undisturbed(q)'  BY <1>2, <2>1 DEF Undisturbed, Promised, Has
  <2> QED  BY <2>2, <2>3, <2>4
<1>5. Tasks'  BY <1>1, <1>2, <1>4 DEF IParts, Tasks
<1>6. IParts'  BY <1>3, <1>4, <1>5 DEF IParts, Rows, HoldsAll, Holds
<1> QED  BY <1>6, IInvParts

-----------------------------------------------------------------------------
(***************************************************************************)
(* Types: the statements keep the rows of every table in its columns.      *)
(***************************************************************************)
RowType(row, cols) ==
    /\ row \in [cols -> Cells]
    /\ \A f \in cols : Numeric(f) => row[f] # NULL

TableType(table) ==
    /\ table.cols \subseteq Fields /\ DOMAIN table.rows \subseteq Keys
    /\ \A k \in DOMAIN table.rows : RowType(table.rows[k], table.cols)

DbType(d) == DOMAIN d \subseteq Tables /\ \A t \in DOMAIN d : TableType(d[t])

LEMMA DefaultType ==
    \A f \in Fields : /\ sql_default(f) \in Cells
                      /\ Numeric(f) => sql_default(f) # NULL
BY ORMAssumption DEF sql_default, Cells

LEMMA RowOfType ==
    ASSUME NEW p \in Programs, NEW v \in Reads[p]
    PROVE  /\ DOMAIN RowOf(p, v) = fields(p) /\ fields(p) \subseteq Fields
           /\ \A f \in fields(p) : RowOf(p, v)[f] \in Values
           /\ NULL \notin Values /\ Values \subseteq Cells
<1>1. \A f \in fields(p) : Cell(p, f, v) \in Values  BY FieldRead
<1> QED  BY <1>1, ORMAssumption DEF RowOf, Cells

LEMMA OverType ==
    ASSUME NEW new, NEW old, NEW cols, DOMAIN new \subseteq cols, RowType(old, cols),
           \A f \in DOMAIN new : new[f] \in Values
    PROVE  RowType(Over(new, old), cols)
<1>1. DOMAIN old = cols /\ \A f \in cols : old[f] \in Cells  BY DEF RowType
<1>2. NULL \notin Values /\ Values \subseteq Cells  BY ORMAssumption DEF Cells
<1>3. DOMAIN new \cup DOMAIN old = cols  BY <1>1
<1>4. Over(new, old) = [f \in cols |-> IF f \in DOMAIN new THEN new[f] ELSE old[f]]
  BY <1>3 DEF Over
<1> QED  BY <1>1, <1>2, <1>4 DEF RowType

LEMMA WithRowsType ==
    ASSUME DbType(db), NEW t \in DOMAIN db, NEW rows, DOMAIN rows \subseteq Keys,
           \A k \in DOMAIN rows : RowType(rows[k], db[t].cols)
    PROVE  DbType(WithRows(t, rows))
<1>1. PICK d : d = WithRows(t, rows)  OBVIOUS
<1>2. /\ DOMAIN d = DOMAIN db
      /\ d[t].cols = db[t].cols /\ d[t].rows = rows
      /\ \A u \in DOMAIN db : u # t => d[u] = db[u]
  BY <1>1, WithRowsIs
<1>3. TableType(d[t])  BY <1>2 DEF DbType, TableType
<1>4. \A u \in DOMAIN d : TableType(d[u])  BY <1>2, <1>3 DEF DbType
<1> QED  BY <1>1, <1>2, <1>4 DEF DbType

LEMMA CreateType ==
    ASSUME DbType(db), NEW t \in Tables, NEW p \in Programs
    PROVE  DbType(sql_create(t, p))
<1>1. PICK d : d = sql_create(t, p)  OBVIOUS
<1>2. /\ DOMAIN d = DOMAIN db \cup {t}
      /\ d[t] = [cols |-> fields(p), rows |-> Nothing]
      /\ \A u \in DOMAIN db : u # t => d[u] = db[u]
  BY <1>1 DEF sql_create, With
<1>3. d[t].cols = fields(p) /\ d[t].rows = Nothing /\ DOMAIN Nothing = {}
  BY <1>2 DEF Nothing
<1>4. fields(p) \subseteq Fields  BY ORMAssumption
<1>5. TableType(d[t])  BY <1>3, <1>4 DEF TableType
<1> QED  BY <1>1, <1>2, <1>5 DEF DbType

LEMMA AddFieldType ==
    ASSUME DbType(db), NEW t \in DOMAIN db, NEW f \in Fields
    PROVE  DbType(sql_addfield(t, f))
<1>1. PICK d : d = sql_addfield(t, f)  OBVIOUS
<1> DEFINE row(k) == With(db[t].rows[k], f, sql_default(f))
<1>2. /\ DOMAIN d = DOMAIN db
      /\ d[t] = [cols |-> db[t].cols \cup {f}, rows |-> [k \in RowKeys(t) |-> row(k)]]
      /\ \A u \in DOMAIN db : u # t => d[u] = db[u]
  BY <1>1 DEF sql_addfield
<1>3. /\ d[t].cols = db[t].cols \cup {f} /\ DOMAIN d[t].rows = DOMAIN db[t].rows
      /\ \A k \in DOMAIN db[t].rows : d[t].rows[k] = row(k)
  BY <1>2 DEF RowKeys
<1>4. TableType(db[t])  BY DEF DbType
<1>5. ASSUME NEW k \in DOMAIN db[t].rows PROVE RowType(row(k), db[t].cols \cup {f})
  <2>1. /\ DOMAIN db[t].rows[k] = db[t].cols
        /\ \A g \in db[t].cols : /\ db[t].rows[k][g] \in Cells
                                 /\ Numeric(g) => db[t].rows[k][g] # NULL
    BY <1>4 DEF TableType, RowType
  <2>2. row(k) = [g \in db[t].cols \cup {f} |->
                     IF g = f THEN sql_default(f) ELSE db[t].rows[k][g]]
    BY <2>1 DEF With
  <2> HIDE DEF row
  <2> QED  BY <2>1, <2>2, DefaultType DEF RowType
<1>6. TableType(d[t])  BY <1>3, <1>4, <1>5 DEF TableType
<1> QED  BY <1>1, <1>2, <1>6 DEF DbType

LEMMA DropType ==
    ASSUME DbType(db), NEW t
    PROVE  DbType(sql_drop(t))
<1>1. /\ DOMAIN sql_drop(t) = DOMAIN db \ {t}
      /\ \A u \in DOMAIN db \ {t} : sql_drop(t)[u] = db[u]
  BY DEF sql_drop
<1> QED  BY <1>1 DEF DbType

LEMMA InsertType ==
    ASSUME DbType(db), NEW p \in Programs, NEW t, Has(t, fields(p)), NEW k \in Keys,
           NEW v \in Reads[p]
    PROVE  DbType(sql_insert(t, k, RowOf(p, v)))
<1>1. /\ t \in DOMAIN db /\ fields(p) \subseteq db[t].cols /\ TableType(db[t])
  BY DEF Has, DbType
<1>2. PICK default : default = [f \in db[t].cols |-> sql_default(f)]  OBVIOUS
<1>3. RowType(default, db[t].cols)
  BY <1>1, <1>2, DefaultType DEF TableType, RowType
<1>4. RowType(Stored(t, RowOf(p, v)), db[t].cols)
  <2>1. Stored(t, RowOf(p, v)) = Over(RowOf(p, v), default)  BY <1>2 DEF Stored
  <2> QED  BY <1>1, <1>3, <2>1, RowOfType, OverType
<1>5. PICK rows : rows = With(db[t].rows, k, Stored(t, RowOf(p, v)))  OBVIOUS
<1>6. /\ DOMAIN rows = DOMAIN db[t].rows \cup {k} /\ rows[k] = Stored(t, RowOf(p, v))
      /\ \A j \in DOMAIN db[t].rows : j # k => rows[j] = db[t].rows[j]
  BY <1>5 DEF With
<1>7. DOMAIN rows \subseteq Keys /\ \A j \in DOMAIN rows : RowType(rows[j], db[t].cols)
  BY <1>1, <1>4, <1>6 DEF TableType
<1> QED  BY <1>1, <1>5, <1>7, WithRowsType DEF sql_insert

LEMMA UpdateType ==
    ASSUME DbType(db), NEW p \in Programs, NEW t, Has(t, fields(p)), NEW k \in Keys,
           NEW v \in Reads[p]
    PROVE  DbType(sql_update(t, k, RowOf(p, v)))
<1>1. /\ t \in DOMAIN db /\ fields(p) \subseteq db[t].cols /\ TableType(db[t])
  BY DEF Has, DbType
<1>2. PICK rows : rows = [j \in RowKeys(t) |-> IF j = k THEN Over(RowOf(p, v), db[t].rows[j])
                                               ELSE db[t].rows[j]]
  OBVIOUS
<1>3. /\ DOMAIN rows = DOMAIN db[t].rows
      /\ \A j \in DOMAIN rows : rows[j] \in {Over(RowOf(p, v), db[t].rows[j]), db[t].rows[j]}
  BY <1>2 DEF RowKeys
<1>4. \A j \in DOMAIN db[t].rows : RowType(Over(RowOf(p, v), db[t].rows[j]), db[t].cols)
  BY <1>1, RowOfType, OverType DEF TableType
<1>5. DOMAIN rows \subseteq Keys /\ \A j \in DOMAIN rows : RowType(rows[j], db[t].cols)
  BY <1>1, <1>3, <1>4 DEF TableType
<1> QED  BY <1>1, <1>2, <1>5, WithRowsType DEF sql_update

LEMMA DeleteType ==
    ASSUME DbType(db), NEW t \in DOMAIN db, NEW ks
    PROVE  DbType(sql_delete(t, ks))
<1>1. PICK rows : rows = [j \in RowKeys(t) \ ks |-> db[t].rows[j]]  OBVIOUS
<1>2. DOMAIN rows \subseteq DOMAIN db[t].rows /\ \A j \in DOMAIN rows : rows[j] = db[t].rows[j]
  BY <1>1 DEF RowKeys
<1>3. DOMAIN rows \subseteq Keys /\ \A j \in DOMAIN rows : RowType(rows[j], db[t].cols)
  BY <1>2 DEF DbType, TableType
<1> QED  BY <1>1, <1>3, WithRowsType DEF sql_delete

(***************************************************************************)
(* What a call leaves: typed tables, and bounds that are kept.             *)
(***************************************************************************)
Misses(p) == task[p].missing \subseteq DOMAIN FieldsOrdered[p]

Typed(p) ==
    /\ DbType(db') /\ Misses(p)'
    /\ calls' = calls \/ (calls < MaxCalls /\ calls' = calls + 1)
    /\ failures' = failures \/ LosesConnection

LEMMA IdleMisses ==
    ASSUME Tasks, NEW p \in Programs, task' = [task EXCEPT ![p] = Idle]
    PROVE  Misses(p)'
<1>1. Idle.missing = {}  BY DEF Idle
<1>2. task'[p].missing = {}  BY <1>1 DEF Tasks
<1> QED  BY <1>2 DEF Misses

LEMMA ShownMisses ==
    ASSUME Tasks, NEW p \in Programs, NEW op, NEW todo, NEW seen, NEW table, NEW missing,
           Shown(p, op, todo, seen, table, missing), missing \subseteq DOMAIN FieldsOrdered[p]
    PROVE  Misses(p)'
<1>1. task'[p].missing = missing  BY ShownIs
<1> QED  BY <1>1 DEF Misses

LEMMA LeavesMisses ==
    ASSUME Tasks, NEW p \in Programs, NEW t, NEW ok, Leaves(p, t, ok)
    PROVE  Misses(p)'
<1>1. CASE \E r \in BOOLEAN : Return(p, Answer(task[p].op, r))
  BY <1>1, IdleMisses DEF Return
<1>2. CASE NextTable(p, t)
  <2>1. PICK missing : missing = {}  OBVIOUS
  <2>2. Shown(p, task[p].op, task[p].todo \ {t}, task[p].seen, "", missing)
    BY <1>2, <2>1 DEF NextTable, Shown
  <2>3. missing \subseteq DOMAIN FieldsOrdered[p]  BY <2>1
  <2> QED  BY <2>2, <2>3, ShownMisses
<1> QED  BY <1>1, <1>2 DEF Leaves

LEMMA DescTyped ==
    ASSUME DbType(db), Tasks, NEW p \in Programs, NEW t, Desc(p, t, Leaves)
    PROVE  Typed(p)
<1>1. db' = db /\ calls' = calls  BY DEF Desc
<1>2. failures' = failures \/ LosesConnection  BY DEF Desc, Throws
<1>3. Misses(p)'
  <2>1. PICK missing :
           missing = {i \in DOMAIN FieldsOrdered[p] : FieldsOrdered[p][i] \notin db[t].cols}
    OBVIOUS
  <2>2. CASE AtTable(p, t, missing)
    <3>1. task'[p].missing = missing  BY <2>2, AtTableIs
    <3> QED  BY <2>1, <3>1 DEF Misses
  <2>3. CASE Leaves(p, t, FALSE)  BY <2>3, LeavesMisses
  <2> QED  BY <2>1, <2>2, <2>3 DEF Desc
<1> QED  BY <1>1, <1>2, <1>3 DEF Typed

LEMMA AddFieldTyped ==
    ASSUME DbType(db), Tasks, NEW p \in Programs, Misses(p), AddField(p, Leaves)
    PROVE  Typed(p)
<1>1. PICK i \in task[p].missing :
         LET t == task[p].table  f == FieldsOrdered[p][i]
             accepted == t \in DOMAIN db /\ f \notin db[t].cols
         IN \/ /\ Executes(accepted, sql_addfield(t, f)) /\ Disturb(p, "other")
               /\ AtTable(p, t, task[p].missing \ {i}) /\ UNCHANGED last
            \/ /\ Throws(accepted, sql_addfield(t, f)) /\ Disturb(p, "other")
               /\ Leaves(p, t, FALSE)
  BY DEF AddField
<1>2. PICK t, f : t = task[p].table /\ f = FieldsOrdered[p][i]  OBVIOUS
<1>3. PICK missing : missing = task[p].missing \ {i}  OBVIOUS
<1>4. PICK new : new = sql_addfield(t, f)  OBVIOUS
<1>5. \/ Executes(t \in DOMAIN db /\ f \notin db[t].cols, new) /\ AtTable(p, t, missing)
      \/ Throws(t \in DOMAIN db /\ f \notin db[t].cols, new) /\ Leaves(p, t, FALSE)
  BY <1>1, <1>2, <1>3, <1>4
<1>6. f \in Fields
  <2>1. i \in DOMAIN FieldsOrdered[p]  BY DEF Misses
  <2>2. f \in fields(p)  BY <1>2, <2>1 DEF fields, ToSet
  <2> QED  BY <2>2, ORMAssumption
<1>7. db' = db \/ (t \in DOMAIN db /\ db' = new)  BY <1>5 DEF Executes, Throws
<1>8. DbType(db')  BY <1>4, <1>6, <1>7, AddFieldType
<1>9. failures' = failures \/ LosesConnection  BY <1>5 DEF Executes, Throws
<1>10. Misses(p)'
  <2>1. CASE AtTable(p, t, missing)
    <3>1. task'[p].missing = missing  BY <2>1, AtTableIs
    <3> QED  BY <1>3, <3>1 DEF Misses
  <2>2. CASE Leaves(p, t, FALSE)  BY <2>2, LeavesMisses
  <2> QED  BY <1>5, <2>1, <2>2
<1>11. calls' = calls  BY DEF AddField
<1> QED  BY <1>8, <1>9, <1>10, <1>11 DEF Typed

LEMMA UpdateTyped ==
    ASSUME DbType(db), Tasks, NEW p \in Programs, Misses(p), UpdateStep(p)
    PROVE  Typed(p)
<1>1. ASSUME Updated(p, Leaves) PROVE Typed(p)
  <2>1. UNCHANGED <<db, calls, failures>>  BY <1>1 DEF Updated
  <2>2. Misses(p)'
    <3>1. Leaves(p, task[p].table, TRUE)  BY <1>1 DEF Updated
    <3> QED  BY <3>1, LeavesMisses
  <2> QED  BY <2>1, <2>2 DEF Typed
<1> QED  BY <1>1, DescTyped, AddFieldTyped DEF UpdateStep

LEMMA TablesTyped ==
    ASSUME DbType(db), Tasks, NEW p \in Programs, NEW t \in Tables,
           CreateMissing(p, t, Leaves) \/ CreateTable(p, t) \/ DropTable(p, t)
    PROVE  Typed(p)
<1>1. DbType(sql_create(t, p)) /\ DbType(sql_drop(t))  BY CreateType, DropType
<1>2. ASSUME CreateMissing(p, t, Leaves) PROVE Typed(p)
  <2>1. /\ db' \in {db, sql_create(t, p)} /\ calls' = calls
        /\ failures' = failures \/ LosesConnection
    BY <1>2 DEF CreateMissing, Executes, Throws
  <2>2. \E ok : Leaves(p, t, ok)  BY <1>2 DEF CreateMissing
  <2>3. Misses(p)'  BY <2>2, LeavesMisses
  <2> QED  BY <1>1, <2>1, <2>3 DEF Typed
<1>3. ASSUME CreateTable(p, t) PROVE Typed(p)
  <2>1. /\ db' \in {db, sql_create(t, p)} /\ calls < MaxCalls /\ calls' = calls + 1
        /\ failures' = failures \/ LosesConnection
        /\ task' = [task EXCEPT ![p] = Idle]
    BY <1>3 DEF CreateTable, Call, Return, Executes, Throws
  <2> QED  BY <1>1, <2>1, IdleMisses DEF Typed
<1>4. ASSUME DropTable(p, t) PROVE Typed(p)
  <2>1. /\ db' \in {db, sql_drop(t)} /\ calls < MaxCalls /\ calls' = calls + 1
        /\ failures' = failures \/ LosesConnection
        /\ task' = [task EXCEPT ![p] = Idle]
    BY <1>4 DEF DropTable, Call, Return, Executes, Throws
  <2> QED  BY <1>1, <2>1, IdleMisses DEF Typed
<1> QED  BY <1>2, <1>3, <1>4

LEMMA ModifyTyped ==
    ASSUME DbType(db), Tasks, NEW p \in Programs, NEW op, NEW t, NEW ks,
           NEW accepted \in BOOLEAN, NEW new, accepted => DbType(new), NEW after,
           Modify(p, op, t, ks, accepted, new, after)
    PROVE  Typed(p)
<1>1. /\ db' = db \/ (accepted /\ db' = new)
      /\ calls < MaxCalls /\ calls' = calls + 1
      /\ failures' = failures \/ LosesConnection
      /\ task' = [task EXCEPT ![p] = Idle]
  BY DEF Modify, Call, Return, Executes, Throws
<1> QED  BY <1>1, IdleMisses DEF Typed

LEMMA CallTyped ==
    ASSUME DbType(db), Tasks, NEW p \in Programs, Misses(p), OneCall(p)
    PROVE  Typed(p)
<1>1. ASSUME NEW op, NEW todo, NEW seen, Show(p, op, todo, seen) PROVE Typed(p)
  <2>1. /\ db' = db /\ calls < MaxCalls /\ calls' = calls + 1
        /\ failures' = failures \/ LosesConnection
        /\ \E missing : \/ missing = {} /\ Shown(p, op, todo, seen, "", missing)
                        \/ task' = [task EXCEPT ![p] = Idle]
    BY <1>1 DEF Show, Call, Return, Shown
  <2>2. Misses(p)'
    <3>1. ASSUME NEW missing, missing = {}, Shown(p, op, todo, seen, "", missing)
          PROVE  Misses(p)'
      <4>1. missing \subseteq DOMAIN FieldsOrdered[p]  BY <3>1
      <4> QED  BY <3>1, <4>1, ShownMisses
    <3> QED  BY <2>1, <3>1, IdleMisses
  <2> QED  BY <2>1, <2>2 DEF Typed
<1>2. ASSUME NEW t \in Tables, NEW op, NEW ks, Delete(p, op, t, ks) PROVE Typed(p)
  <2>1. t \in DOMAIN db => DbType(sql_delete(t, ks))  BY DeleteType
  <2>2. (t \in DOMAIN db) \in BOOLEAN  OBVIOUS
  <2> QED  BY <1>2, <2>1, <2>2, ModifyTyped DEF Delete
<1>3. ASSUME NEW t \in Tables, NEW delivered, NEW ok, Load(p, t, delivered, ok) PROVE Typed(p)
  <2>1. /\ db' = db /\ calls < MaxCalls /\ calls' = calls + 1
        /\ failures' = failures \/ LosesConnection
        /\ task' = [task EXCEPT ![p] = Idle]
    BY <1>3 DEF Load, Call, Return, Throws
  <2> QED  BY <2>1, IdleMisses DEF Typed
<1>4. ASSUME NEW t \in Tables, NEW k \in Keys,
             MySqlSelect(p, t, k) \/ SociSelect(p, t, k) \/ selectDB(p, t, k)
      PROVE  Typed(p)
  <2>1. /\ db' = db /\ calls < MaxCalls /\ calls' = calls + 1
        /\ failures' = failures \/ LosesConnection
        /\ task' = [task EXCEPT ![p] = Idle]
    <3>1. CASE MySqlSelect(p, t, k)  BY <3>1 DEF MySqlSelect, Read, Call, Return
    <3>2. CASE SociSelect(p, t, k)  BY <3>2 DEF SociSelect, Read, Call, Return
    <3>3. CASE selectDB(p, t, k)  BY <3>3 DEF selectDB, Read, Call, Return
    <3> QED  BY <1>4, <3>1, <3>2, <3>3
  <2> QED  BY <2>1, IdleMisses DEF Typed
<1>5. ASSUME NEW t \in Tables, NEW k \in Keys, NEW v \in Reads[p],
             Update(p, t, k, v, RowOf(p, v))
      PROVE  Typed(p)
  <2>1. Has(t, fields(p)) => DbType(sql_update(t, k, RowOf(p, v)))  BY UpdateType
  <2>2. Has(t, fields(p)) \in BOOLEAN  BY DEF Has
  <2> QED  BY <1>5, <2>1, <2>2, ModifyTyped DEF Update
<1>6. ASSUME NEW t \in Tables, NEW k \in Keys, NEW v \in Reads[p], NEW op, NEW accepted,
             Inserts(p, op, t, k, v, accepted)
      PROVE  Typed(p)
  <2>1. accepted \in BOOLEAN /\ (accepted => Has(t, fields(p)))  BY <1>6 DEF Inserts
  <2>2. accepted => DbType(sql_insert(t, k, RowOf(p, v)))  BY <2>1, InsertType
  <2>3. Insert(p, op, t, k, v, accepted, RowOf(p, v))  BY <1>6 DEF Inserts
  <2> QED  BY <2>1, <2>2, <2>3, ModifyTyped DEF Insert
<1> QED  BY <1>1, <1>2, <1>3, <1>4, <1>5, <1>6, UpdateTyped, TablesTyped DEF OneCall

(* The type invariant, made inductive: a task misses fields of its own. *)
TInv == IInv /\ TypeOK /\ \A p \in Programs : Misses(p)

Bounds == calls \in 0 .. MaxCalls /\ failures \in 0 .. MaxFailures

LEMMA TypeParts == IInv => (TypeOK <=> DbType(db) /\ Bounds)
<1> SUFFICES ASSUME IInv PROVE TypeOK <=> DbType(db) /\ Bounds  OBVIOUS
<1>1. /\ DOMAIN written \subseteq Tables \X Keys
      /\ \A w \in DOMAIN written : written[w].value \in Values
  <2>1. HoldsAll(db, written)  BY IInvParts DEF IParts
  <2>2. DOMAIN written \subseteq Tables \X Keys  BY <2>1 DEF HoldsAll
  <2>3. ASSUME NEW w \in DOMAIN written PROVE written[w].value \in Values
    <3>1. PICK t \in Tables, k \in Keys : w = <<t, k>>  BY <2>2
    <3>2. Holds(db, t, k, written[w])  BY <2>1, <3>1 DEF HoldsAll
    <3>3. written[w].value \in Reads[written[w].by] /\ written[w].by \in Programs
      BY <3>2 DEF Holds
    <3> QED  BY <3>3, ORMAssumption
  <2> QED  BY <2>2, <2>3
<1> QED  BY <1>1 DEF TypeOK, DbType, TableType, RowType, RowKeys, Bounds

LEMMA TypeStep ==
    ASSUME TInv, [Next]_vars
    PROVE  TInv'
<1>1. IInv'  BY NextStep, StutterStep DEF TInv
<1>2. /\ IParts /\ DbType(db) /\ Bounds
      /\ Tasks /\ \A p \in Programs : Misses(p)
  BY TypeParts, IInvParts DEF TInv, IParts
<1>3. MaxCalls \in Nat /\ MaxFailures \in Nat  BY ORMAssumption
<1>4. CASE Next
  <2>1. PICK p \in Programs : MySqlNext(p) \/ SociNext(p) \/ ObjNext(p)  BY <1>4 DEF Next
  <2>2. OneCall(p)  BY <1>2, <2>1, MySqlCall, SociCall, ObjCall
  <2>3. Typed(p)  BY <1>2, <2>2, CallTyped
  <2>4. StepKept(p)  BY <1>2, <2>2, CallKept
  <2>5. ASSUME NEW q \in Programs PROVE Misses(q)'
    <3>1. CASE q = p  BY <2>3, <3>1 DEF Typed
    <3>2. CASE q # p
      <4>1. task'[q] = task[q]  BY <2>4, <3>2 DEF StepKept, OthersSee
      <4> QED  BY <1>2, <4>1 DEF Misses
    <3> QED  BY <3>1, <3>2
  <2>6. Bounds'  BY <1>2, <1>3, <2>3 DEF Typed, LosesConnection, Bounds
  <2>7. TypeOK'
    <3>1. IInv' => (TypeOK' <=> DbType(db)' /\ Bounds')  BY TypeParts, PTL
    <3>2. DbType(db)'  BY <2>3 DEF Typed, DbType, TableType, RowType
    <3> QED  BY <1>1, <2>6, <3>1, <3>2
  <2> QED  BY <1>1, <2>5, <2>7 DEF TInv
<1>5. CASE UNCHANGED vars
  <2>1. UNCHANGED <<db, task, last, calls, failures, disturbed, written>>  BY <1>5 DEF vars
  <2>2. TypeOK'  BY <2>1 DEF TInv, TypeOK, RowKeys
  <2>3. \A p \in Programs : Misses(p)'  BY <1>2, <2>1 DEF Misses
  <2> QED  BY <1>1, <2>2, <2>3 DEF TInv
<1> QED  BY <1>4, <1>5

LEMMA TypeInit == Init => TInv
<1> SUFFICES ASSUME Init PROVE TInv  OBVIOUS
<1>1. IInv  BY InitIInv
<1>2. DbType(db)
  <2>1. DOMAIN db = {}  BY DEF Init, Nothing
  <2> QED  BY <2>1 DEF DbType
<1>3. TypeOK
  <2>1. calls = 0 /\ failures = 0 /\ MaxCalls \in Nat /\ MaxFailures \in Nat
    BY ORMAssumption DEF Init
  <2>2. Bounds  BY <2>1 DEF Bounds
  <2> QED  BY <1>1, <1>2, <2>2, TypeParts
<1>4. \A p \in Programs : Misses(p)
  <2>1. Idle.missing = {}  BY DEF Idle
  <2> QED  BY <2>1 DEF Init, Misses
<1> QED  BY <1>1, <1>3, <1>4 DEF TInv

-----------------------------------------------------------------------------
(***************************************************************************)
(* The inductive invariant: rows have the columns of their table, a stored *)
(* object is in its row as its program wrote it, the answers of select()   *)
(* are right, and a task that was not disturbed knows the tables.          *)
(***************************************************************************)
THEOREM MappingInvariance == Spec => []IInv
<1>1. Init => IInv  BY InitIInv
<1>2. IInv /\ [Next]_vars => IInv'  BY NextStep, StutterStep
<1> QED  BY <1>1, <1>2, PTL DEF Spec

(***************************************************************************)
(* Whatever tables were created, altered and written in whatever order, a  *)
(* row has exactly the columns of its table, and NULL only in a column     *)
(* that may be NULL.                                                       *)
(***************************************************************************)
THEOREM TypeCorrect == Spec => []TypeOK
<1>1. TInv /\ [Next]_vars => TInv'  BY TypeStep
<1>2. TInv => TypeOK  BY DEF TInv
<1> QED  BY <1>1, <1>2, TypeInit, PTL DEF Spec

(***************************************************************************)
(* Of any programs, versions of the descriptors, mappings and tables: what *)
(* select() returns of an object its program stored is the stored object,  *)
(* and it only fails when the connection is lost, whatever structures      *)
(* other programs changed and whatever rows they wrote meanwhile.          *)
(***************************************************************************)
THEOREM StoredIsReadBack == Spec => []ReadBack
<1>1. IInv => ReadBack  BY DEF IInv
<1> QED  BY <1>1, MappingInvariance, PTL

(***************************************************************************)
(* After updateTable() or updateTables() returned true the tables have all *)
(* fields of the program's descriptors, if nothing disturbed the call; of  *)
(* SOCI's and Object2DB's updateTable(), if no table was dropped.          *)
(***************************************************************************)
THEOREM UpdatedHasColumns == Spec => UpdatedMeansColumns
<1> DEFINE Body == \A p \in Programs :
              /\ task[p].op # "idle" /\ task'[p].op = "idle" /\ last'[p].ret
              /\ IF Reliable(p) THEN "drop" \notin disturbed'[p] ELSE disturbed'[p] = {}
              => \A t \in IF task[p].op = "updateTables" THEN UpperCase ELSE task[p].todo :
                     Has(t, fields(p))'
<1>1. IInv /\ Next => Body
  <2> SUFFICES ASSUME IInv, Next PROVE Body  OBVIOUS
  <2>1. \A q \in Programs : UpdatedBy(q)  BY NextStep
  <2> QED  BY <2>1 DEF UpdatedBy, Promised
<1>2. IInv /\ [Next]_vars => [Body]_vars  BY <1>1
<1>3. Spec => [][Body]_vars  BY <1>2, MappingInvariance, PTL DEF Spec
<1> QED  BY <1>3 DEF UpdatedMeansColumns
=============================================================================
