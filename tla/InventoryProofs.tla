-------------------------- MODULE InventoryProofs --------------------------
(***************************************************************************)
(* Proofs about Inventory, for any sets of ids, names and ports, and any   *)
(* number of requests.                                                     *)
(***************************************************************************)
EXTENDS Inventory, TLAPS

TableNames == {"node", "backend", "tunnel", "mapping", "sni", "foreign"}

Ids == [node |-> Nodes, backend |-> Backends, tunnel |-> Tunnels, mapping |-> Mappings,
        sni |-> Routes, foreign |-> Foreigns]

Rows == [node |-> {"row"}, backend |-> BackendRow, tunnel |-> TunnelRow,
         mapping |-> MappingRow, sni |-> SniRow, foreign |-> ForeignRow]

IsRecord(r, fields) == r = [f \in fields |-> r[f]]

RequestFields == {"at", "table", "id", "base", "row", "patch", "named"}
SnapFields == {"at", "node", "backends", "tunnels", "mappings", "sni", "overlap"}

-----------------------------------------------------------------------------
(* The tables *)

\* Names of backends are unique.
NamesUnique ==
    \A b, c \in Existing("backend") : db.backend[b].name = db.backend[c].name => b = c

\* An SNI route that keeps a name leads to a backend that exists.
Led(row) == row.name # NoName => row.backend \in Existing("backend")

RoutesLed == \A r \in Existing("sni") : Led(db.sni[r])

\* A mapping leads to a backend that exists, on the mapping's node unless a caller
\* asked for another.
Aimed(row) ==
    /\ row.backend \in Existing("backend")
    /\ crossed \/ row.node = NodeOf(row.backend)

MappingsAimed == \A m \in Existing("mapping") : Aimed(db.mapping[m])

-----------------------------------------------------------------------------
(* The requests under way *)

\* What a request gives, with its name replaced by what the name was resolved to.
Given(r) == IF r.named = NoName THEN r.patch ELSE [r.patch EXCEPT !.backend = r.row.backend]

\* The row is complete up to the backend, which is known by name.
Waiting(r) ==
    /\ r.at = "resolve" /\ r.named \in Names /\ r.table \in {"mapping", "sni"}
    /\ \A b \in Backends : Resolved(r.row, b) \in Rows[r.table]
    /\ IF r.base = NoRow THEN r.table = "sni"
       ELSE /\ r.base \in Rows[r.table] /\ r.row = Over(r.base, r.patch)
            /\ IsRecord(r.patch, DOMAIN r.patch) /\ "backend" \in DOMAIN r.patch

\* A new row with a backend that was looked up by name.
Inserting(r) ==
    /\ r.at = "insert" /\ r.named \in Names /\ r.table \in {"tunnel", "mapping", "sni"}
    /\ r.row \in Rows[r.table] /\ r.row.backend \in Existing("backend")
    /\ r.table = "mapping" => Aimed(r.row)

\* A whole row: what was read, with what the caller gave.
Putting(r) ==
    /\ r.at = "put" /\ r.table \in {"backend", "mapping", "sni", "foreign"}
    /\ r.base \in Rows[r.table] /\ r.row \in Rows[r.table] /\ r.row = Over(r.base, Given(r))
    /\ r.table = "sni" => Led(r.row)
    /\ \/ r.named = NoName
       \/ /\ r.named \in Names /\ r.table \in {"mapping", "sni"}
          /\ r.row.backend \in Existing("backend")
          /\ IsRecord(r.patch, DOMAIN r.patch) /\ "backend" \in DOMAIN r.patch

RequestOK(r) ==
    /\ IsRecord(r, RequestFields)
    /\ \/ r.at = "free"
       \/ r.id \in Ids[r.table] /\ (Waiting(r) \/ Inserting(r) \/ Putting(r))

RequestsOK == \A h \in Handlers : RequestOK(req[h])

-----------------------------------------------------------------------------
(* The desired state being read *)

\* As long as nothing is changed, what has been read is what the tables hold.
SnapOK ==
    /\ IsRecord(snap, SnapFields)
    /\ snap.at \in {"idle", "backends", "tunnels", "mappings", "sni", "done"}
    /\ ~snap.overlap =>
         /\ snap.at \in {"tunnels", "mappings", "sni", "done"} =>
              snap.backends = ListByNode("backend", snap.node)
         /\ snap.at \in {"sni", "done"} =>
              snap.mappings = FilterEnabledMappings(ListByNode("mapping", snap.node))
         /\ snap.at = "done" => snap.sni = ListByNode("sni", snap.node)

IInv ==
    /\ TypeOK /\ NamesUnique /\ RoutesLed /\ MappingsAimed
    /\ IsRecord(req, Handlers) /\ RequestsOK /\ SnapOK /\ OmittedFieldsKept

-----------------------------------------------------------------------------
(* Tables and rows *)

\* The tables one by one.
LEMMA TablesTyped ==
    ASSUME NEW d
    PROVE  d \in Tables <=> /\ IsRecord(d, TableNames)
                            /\ \A t \in TableNames : d[t] \in [Ids[t] -> Rows[t] \cup {NoRow}]
  <1>1. /\ Ids["node"] = Nodes /\ Ids["backend"] = Backends /\ Ids["tunnel"] = Tunnels
        /\ Ids["mapping"] = Mappings /\ Ids["sni"] = Routes /\ Ids["foreign"] = Foreigns
    BY DEF Ids
  <1>2. /\ Rows["node"] = {"row"} /\ Rows["backend"] = BackendRow /\ Rows["tunnel"] = TunnelRow
        /\ Rows["mapping"] = MappingRow /\ Rows["sni"] = SniRow /\ Rows["foreign"] = ForeignRow
    BY DEF Rows
  <1>3. [Nodes -> {"row", NoRow}] = [Nodes -> {"row"} \cup {NoRow}]
    <2>1. {"row", NoRow} = {"row"} \cup {NoRow}
      OBVIOUS
    <2> QED  BY <2>1
  <1> QED  BY <1>1, <1>2, <1>3 DEF Tables, IsRecord, TableNames

\* A row is not the lack of one.
LEMMA RowsAreRows == \A t \in TableNames : NoRow \notin Rows[t]
  BY NoneAssumption DEF TableNames, Rows

\* The fields of the rows.
LEMMA RowFields ==
    /\ \A row \in BackendRow : /\ IsRecord(row, {"name", "node"})
                               /\ row.name \in Names /\ row.node \in Nodes
    /\ \A row \in TunnelRow : /\ IsRecord(row, {"node", "backend"})
                              /\ row.node \in Nodes /\ row.backend \in Backends
    /\ \A row \in MappingRow : /\ IsRecord(row, {"node", "backend", "port", "enabled"})
                               /\ row.node \in Nodes /\ row.backend \in Backends
                               /\ row.port \in Ports /\ row.enabled \in BOOLEAN
    /\ \A row \in SniRow : /\ IsRecord(row, {"node", "name", "backend"})
                           /\ row.node \in Nodes /\ row.name \in Names \cup {NoName}
                           /\ row.backend \in Backends \cup {NoRow}
    /\ \A row \in ForeignRow : /\ IsRecord(row, {"name", "country"})
                               /\ row.name \in Names /\ row.country \in {"", "NL"}
  BY DEF IsRecord, BackendRow, TunnelRow, MappingRow, SniRow, ForeignRow

\* Row i of table t is replaced.
Replaced(t, i, row) == db' = [db EXCEPT ![t][i] = row]

\* One changed row.
LEMMA RowChanged ==
    ASSUME db \in Tables, NEW t \in TableNames, NEW i \in Ids[t],
           NEW row \in Rows[t] \cup {NoRow}, Replaced(t, i, row)
    PROVE  /\ db' \in Tables /\ db'[t][i] = row
           /\ \A s \in TableNames : \A j \in Ids[s] : (s # t \/ j # i) => db'[s][j] = db[s][j]
           /\ \A s \in TableNames : DOMAIN db[s] = Ids[s] /\ DOMAIN db'[s] = Ids[s]
  <1>1. /\ IsRecord(db, TableNames)
        /\ \A s \in TableNames : db[s] \in [Ids[s] -> Rows[s] \cup {NoRow}]
    BY TablesTyped
  <1>2. DOMAIN db = TableNames
    BY <1>1 DEF IsRecord
  <1>3. /\ IsRecord(db', TableNames)
        /\ \A s \in TableNames : db'[s] \in [Ids[s] -> Rows[s] \cup {NoRow}]
    BY <1>1, <1>2 DEF IsRecord, Replaced
  <1>4. db' \in Tables
    BY <1>3, TablesTyped
  <1> QED  BY <1>1, <1>2, <1>3, <1>4 DEF Replaced

-----------------------------------------------------------------------------
(* What one changed row does to the rest *)

\* No backend disappears or, as long as no caller asks for it, moves.
BackendsStay ==
    /\ Existing("backend") \subseteq Existing("backend")'
    /\ crossed => crossed'
    /\ crossed' \/ \A b \in Existing("backend") : NodeOf(b)' = NodeOf(b)

\* The row fits: a backend has a name of its own and moves only if asked to, a
\* mapping leads to a backend, a named route as well.
Fits(t, i, row) ==
    /\ t = "backend" => /\ row # NoRow /\ ~NameTaken("backend", i, row)
                        /\ crossed' \/ i \notin Existing("backend") \/ row.node = NodeOf(i)
    /\ t = "mapping" => \/ row = NoRow
                        \/ /\ row.backend \in Existing("backend")
                           /\ crossed' \/ row.node = NodeOf(row.backend)
    /\ t = "sni" => Led(row)

\* A row that fits keeps the tables in order, and a reading that is under way
\* knows of it.
LEMMA ChangeKeeps ==
    ASSUME db \in Tables, NamesUnique, RoutesLed, MappingsAimed, SnapOK,
           NEW t \in TableNames, NEW i \in Ids[t], NEW row \in Rows[t] \cup {NoRow},
           Replaced(t, i, row), Overlap, crossed => crossed', Fits(t, i, row)
    PROVE  /\ db' \in Tables /\ NamesUnique' /\ RoutesLed' /\ MappingsAimed' /\ SnapOK'
           /\ BackendsStay
  <1>1. /\ db' \in Tables /\ db'[t][i] = row
        /\ \A s \in TableNames : \A j \in Ids[s] : (s # t \/ j # i) => db'[s][j] = db[s][j]
        /\ \A s \in TableNames : DOMAIN db[s] = Ids[s] /\ DOMAIN db'[s] = Ids[s]
    BY RowChanged
  <1>2. \A s \in TableNames :
           /\ Existing(s) = {j \in Ids[s] : db[s][j] # NoRow}
           /\ Existing(s)' = {j \in Ids[s] : db'[s][j] # NoRow}
    BY <1>1 DEF Existing
  <1>3. "backend" \in TableNames /\ "mapping" \in TableNames /\ "sni" \in TableNames
    BY DEF TableNames
  <1>4. \A j \in Ids["backend"] : j # i \/ t # "backend" => db'["backend"][j] = db["backend"][j]
    BY <1>1, <1>3
  <1>5. \A j \in Ids["mapping"] : j # i \/ t # "mapping" => db'["mapping"][j] = db["mapping"][j]
    BY <1>1, <1>3
  <1>6. \A j \in Ids["sni"] : j # i \/ t # "sni" => db'["sni"][j] = db["sni"][j]
    BY <1>1, <1>3
  <1>7. /\ Existing("backend") = {j \in Ids["backend"] : db["backend"][j] # NoRow}
        /\ Existing("backend")' = {j \in Ids["backend"] : db'["backend"][j] # NoRow}
        /\ Existing("mapping") = {j \in Ids["mapping"] : db["mapping"][j] # NoRow}
        /\ Existing("mapping")' = {j \in Ids["mapping"] : db'["mapping"][j] # NoRow}
        /\ Existing("sni") = {j \in Ids["sni"] : db["sni"][j] # NoRow}
        /\ Existing("sni")' = {j \in Ids["sni"] : db'["sni"][j] # NoRow}
    BY <1>2, <1>3
  <1>8. BackendsStay
    <2>1. Existing("backend") \subseteq Existing("backend")'
      BY <1>1, <1>4, <1>7 DEF Fits
    <2>2. ASSUME NEW b \in Existing("backend"), ~crossed'
          PROVE  NodeOf(b)' = NodeOf(b)
      BY <1>1, <1>4, <1>7, <2>2 DEF Fits, NodeOf
    <2> QED  BY <2>1, <2>2 DEF BackendsStay
  <1>9. NamesUnique'
    <2>1. SUFFICES ASSUME NEW b \in Existing("backend")', NEW c \in Existing("backend")',
                          db'["backend"][b].name = db'["backend"][c].name, b # c
                   PROVE  FALSE
      BY DEF NamesUnique
    <2>2. CASE t # "backend" \/ (b # i /\ c # i)
      BY <1>4, <1>7, <2>1, <2>2 DEF NamesUnique
    <2>3. CASE t = "backend" /\ b = i
      BY <1>1, <1>4, <1>7, <2>1, <2>3 DEF Fits, NameTaken
    <2>4. CASE t = "backend" /\ c = i
      BY <1>1, <1>4, <1>7, <2>1, <2>4 DEF Fits, NameTaken
    <2> QED  BY <2>2, <2>3, <2>4
  <1>10. RoutesLed'
    BY <1>1, <1>6, <1>7, <1>8 DEF RoutesLed, Led, Fits, BackendsStay
  <1>11. MappingsAimed'
    <2>1. \A b \in Existing("backend") :
            b \in Existing("backend")' /\ (crossed' \/ db'["backend"][b].node = db["backend"][b].node)
      BY <1>8 DEF BackendsStay, NodeOf
    <2>2. SUFFICES ASSUME NEW m \in Existing("mapping")'
                   PROVE  /\ db'["mapping"][m].backend \in Existing("backend")'
                          /\ \/ crossed'
                             \/ db'["mapping"][m].node =
                                    db'["backend"][db'["mapping"][m].backend].node
      BY DEF MappingsAimed, Aimed, NodeOf
    <2>3. CASE t = "mapping" /\ m = i
      BY <1>1, <1>7, <2>1, <2>2, <2>3 DEF Fits, NodeOf
    <2>4. CASE t # "mapping" \/ m # i
      <3>1. m \in Existing("mapping") /\ db'["mapping"][m] = db["mapping"][m]
        BY <1>5, <1>7, <2>2, <2>4
      <3>2. /\ db["mapping"][m].backend \in Existing("backend")
            /\ crossed \/ db["mapping"][m].node = db["backend"][db["mapping"][m].backend].node
        BY <3>1 DEF MappingsAimed, Aimed, NodeOf
      <3> QED  BY <2>1, <3>1, <3>2
    <2> QED  BY <2>3, <2>4
  <1>12. SnapOK'
    <2>1. CASE snap.at = "idle"
      BY <2>1 DEF Overlap, SnapOK
    <2>2. CASE snap.at # "idle"
      <3>1. snap' = [snap EXCEPT !.overlap = TRUE]
        BY <2>2 DEF Overlap
      <3>2. /\ IsRecord(snap', SnapFields) /\ snap'.overlap = TRUE /\ snap'.at = snap.at
        BY <3>1 DEF SnapOK, IsRecord, SnapFields
      <3> QED  BY <3>2 DEF SnapOK
    <2> QED  BY <2>1, <2>2
  <1> QED  BY <1>1, <1>8, <1>9, <1>10, <1>11, <1>12

\* What a request holds stays true as long as backends stay.
LEMMA RequestStays ==
    ASSUME BackendsStay, NEW r, RequestOK(r)
    PROVE  RequestOK(r)'
  <1>1. ASSUME NEW row, Led(row) PROVE Led(row)'
    BY <1>1 DEF Led, BackendsStay
  <1>2. ASSUME NEW row, Aimed(row) PROVE Aimed(row)'
    BY <1>2 DEF Aimed, BackendsStay
  <1>3. Waiting(r) => Waiting(r)'
    BY DEF Waiting
  <1>4. Inserting(r) => Inserting(r)'
    BY <1>2 DEF Inserting, BackendsStay
  <1>5. Putting(r) => Putting(r)'
    BY <1>1 DEF Putting, BackendsStay
  <1> QED  BY <1>3, <1>4, <1>5 DEF RequestOK

\* A request takes a step, the others stay as they are.
LEMMA OthersStay ==
    ASSUME BackendsStay, IsRecord(req, Handlers), RequestsOK, NEW h \in Handlers,
           req' = [req EXCEPT ![h] = req'[h]], RequestOK(req[h])'
    PROVE  IsRecord(req, Handlers)' /\ RequestsOK'
  <1>1. DOMAIN req = Handlers
    BY DEF IsRecord
  <1>2. /\ IsRecord(req', Handlers)
        /\ \A k \in Handlers : k # h => req'[k] = req[k]
    BY <1>1 DEF IsRecord
  <1>3. ASSUME NEW k \in Handlers, k # h PROVE RequestOK(req[k])'
    <2>1. RequestOK(req[k])
      BY DEF RequestsOK
    <2>2. PICK r : r = req[k]
      OBVIOUS
    <2>3. RequestOK(r)'
      BY <2>1, <2>2, RequestStays
    <2> QED  BY <1>2, <1>3, <2>2, <2>3
  <1> QED  BY <1>2, <1>3 DEF RequestsOK

\* A request without anything to do.
LEMMA FreeRequest == IsRecord(Free, RequestFields) /\ Free.at = "free" /\ Free.named = NoName
  BY DEF IsRecord, RequestFields, Free

\* A step of a request that changes no table.
LEMMA Asked ==
    ASSUME IInv, NEW h \in Handlers, req' = [req EXCEPT ![h] = req'[h]], RequestOK(req[h])',
           UNCHANGED <<db, snap, stated, outdated>>, crossed' \in BOOLEAN, crossed => crossed',
           begun' \in 0..MaxRequests
    PROVE  IInv'
  <1>1. BackendsStay
    BY DEF BackendsStay, Existing, NodeOf
  <1>2. IsRecord(req, Handlers)' /\ RequestsOK'
    BY <1>1, OthersStay DEF IInv
  <1>3. \A k \in Handlers : req'[k].at \in {"free", "resolve", "insert", "put"}
    BY <1>2 DEF RequestsOK, RequestOK, Waiting, Inserting, Putting
  <1>4. TypeOK'
    BY <1>3 DEF IInv, TypeOK
  <1>5. NamesUnique' /\ RoutesLed' /\ MappingsAimed'
    BY DEF IInv, NamesUnique, RoutesLed, Led, MappingsAimed, Aimed, NodeOf, Existing
  <1>6. SnapOK' /\ OmittedFieldsKept'
    BY DEF IInv, SnapOK, ListByNode, Existing, OmittedFieldsKept
  <1> QED  BY <1>2, <1>4, <1>5, <1>6 DEF IInv

\* A request ends with a row that fits, and what was said of it is in it.
LEMMA Written ==
    ASSUME IInv, NEW h \in Handlers, req' = [req EXCEPT ![h] = Free], begun' \in 0..MaxRequests,
           NEW t \in TableNames, NEW i \in Ids[t], NEW row \in Rows[t] \cup {NoRow},
           Replaced(t, i, row), Overlap, Fits(t, i, row),
           crossed' \in BOOLEAN, crossed => crossed', outdated' \in BOOLEAN,
           ~outdated' => db' = stated'
    PROVE  IInv'
  <1>1. /\ db' \in Tables /\ NamesUnique' /\ RoutesLed' /\ MappingsAimed' /\ SnapOK'
        /\ BackendsStay
    BY ChangeKeeps DEF IInv, TypeOK
  <1>2. req' = [req EXCEPT ![h] = req'[h]] /\ req'[h] = Free
    BY DEF IInv, IsRecord
  <1>3. RequestOK(req[h])'
    BY <1>2, FreeRequest DEF RequestOK
  <1>4. IsRecord(req, Handlers)' /\ RequestsOK'
    BY <1>1, <1>2, <1>3, OthersStay DEF IInv
  <1>5. \A k \in Handlers : req'[k].at \in {"free", "resolve", "insert", "put"}
    BY <1>4 DEF RequestsOK, RequestOK, Waiting, Inserting, Putting
  <1>6. TypeOK'
    BY <1>1, <1>5 DEF TypeOK, SnapOK
  <1> QED  BY <1>1, <1>4, <1>6 DEF IInv, OmittedFieldsKept

-----------------------------------------------------------------------------
(* Statements that change a table *)

\* A name stands for one backend.
LEMMA NameMeans ==
    ASSUME NamesUnique, NEW x, NEW b \in GetBackendByName(x)
    PROVE  GetBackendByName(x) = {b} /\ (CHOOSE c \in GetBackendByName(x) : TRUE) = b
  <1>1. GetBackendByName(x) = {b}
    BY DEF NamesUnique, GetBackendByName
  <1> QED  BY <1>1

\* Backends that exist are backends.
LEMMA ExistingBackends ==
    ASSUME db \in Tables
    PROVE  /\ Existing("backend") \subseteq Backends /\ NoRow \notin Existing("backend")
           /\ \A t \in TableNames : Existing(t) = {i \in Ids[t] : db[t][i] # NoRow}
  <1>1. /\ \A t \in TableNames : DOMAIN db[t] = Ids[t]
        /\ "backend" \in TableNames /\ Ids["backend"] = Backends
    BY TablesTyped DEF TableNames, Ids
  <1> QED  BY <1>1, NoneAssumption DEF Existing

\* What the caller said is what was resolved, unless the name has moved.
LEMMA SaidIsGiven ==
    ASSUME db \in Tables, NamesUnique, NEW h \in Handlers, ~NameMoved(h), NEW fields,
           req[h].named # NoName => req[h].row.backend \in Existing("backend")
    PROVE  Said(h, fields) = IF req[h].named = NoName THEN fields
                             ELSE [fields EXCEPT !.backend = req[h].row.backend]
  <1>1. CASE req[h].named = NoName
    BY <1>1 DEF Said
  <1>2. CASE req[h].named # NoName
    <2>1. req[h].row.backend \in GetBackendByName(req[h].named)
      BY <1>2, ExistingBackends DEF NameMoved
    <2>2. (CHOOSE c \in GetBackendByName(req[h].named) : TRUE) = req[h].row.backend
          /\ GetBackendByName(req[h].named) # {}
      BY <2>1, NameMeans
    <2> QED  BY <1>2, <2>2 DEF Said
  <1> QED  BY <1>1, <1>2

\* A request that begins or goes on is counted or not.
LEMMA Counted ==
    ASSUME TypeOK, begun < MaxRequests
    PROVE  begun + 1 \in 0..MaxRequests
  BY InventoryBound DEF TypeOK

\* Requests whose first statement is the INSERT.
LEMMA CreateKeeps ==
    ASSUME IInv, NEW h \in Handlers, NEW t \in TableNames, NEW i \in Ids[t], NEW row \in Rows[t],
           Create(h, t, i, row), t = "sni" => row.name = NoName
    PROVE  IInv'
  <1>1. /\ req' = [req EXCEPT ![h] = Free] /\ begun' \in 0..MaxRequests
        /\ Replaced(t, i, row) /\ Overlap /\ outdated' = outdated
        /\ stated' = [stated EXCEPT ![t][i] = row]
    BY Counted DEF IInv, Create, Begin, Change, Replaced
  <1>2. /\ crossed' \in BOOLEAN /\ (crossed => crossed')
        /\ t = "mapping" => crossed' \/ ~Crosses(row)
    BY DEF Create
  <1>3. Fits(t, i, row)
    <2>1. t = "backend" => AcceptsBackend(i, row)
      BY DEF Create, Accepts
    <2>2. t = "mapping" => AcceptsMapping(i, row)
      BY DEF Create, Accepts
    <2>3. i \notin Existing(t) /\ row # NoRow
      BY RowsAreRows DEF Create
    <2> QED  BY <1>2, <2>1, <2>2, <2>3
             DEF Fits, AcceptsBackend, AcceptsMapping, AcceptsTunnel, Crosses, NodeOf, Led
  <1>4. ~outdated' => db' = stated'
    BY <1>1 DEF IInv, OmittedFieldsKept, Replaced
  <1>5. outdated' \in BOOLEAN
    BY <1>1 DEF IInv, TypeOK
  <1> QED  BY <1>1, <1>2, <1>3, <1>4, <1>5, Written

\* The INSERT of a request that has looked its backend up.
LEMMA InsertKeeps ==
    ASSUME IInv, NEW h \in Handlers, Insert(h)
    PROVE  IInv'
  <1> DEFINE r == req[h]
  <1>1. r.id \in Ids[r.table] /\ Inserting(r)
    BY DEF IInv, RequestsOK, RequestOK, Insert, Waiting, Putting
  <1>2. r.table \in TableNames /\ r.row \in Rows[r.table] /\ r.row # NoRow
    BY <1>1, RowsAreRows DEF Inserting, TableNames
  <1>3. /\ req' = [req EXCEPT ![h] = Free] /\ begun' \in 0..MaxRequests
        /\ Replaced(r.table, r.id, r.row) /\ Overlap /\ crossed' = crossed
        /\ stated' = [stated EXCEPT ![r.table][r.id] = Said(h, r.row)]
        /\ outdated' = (outdated \/ NameMoved(h))
    BY DEF IInv, TypeOK, Insert, Goto, Change, Replaced
  <1>4. Fits(r.table, r.id, r.row)
    BY <1>1, <1>3 DEF Fits, Inserting, Aimed, Led
  <1>5. ~outdated' => db' = stated'
    <2>1. SUFFICES ASSUME ~outdated' PROVE db' = stated'
      OBVIOUS
    <2>2. ~NameMoved(h) /\ db = stated /\ db \in Tables
      BY <1>3, <2>1 DEF IInv, OmittedFieldsKept, TypeOK
    <2>3. Said(h, r.row) = [r.row EXCEPT !.backend = r.row.backend]
      BY <1>1, <2>2, SaidIsGiven, NoneAssumption DEF Inserting, IInv
    <2>4. r.row = [r.row EXCEPT !.backend = r.row.backend]
      <3>1. r.row \in TunnelRow \cup MappingRow \cup SniRow
        BY <1>1, <1>2 DEF Inserting, Rows
      <3>2. IsRecord(r.row, DOMAIN r.row)
        BY <3>1, RowFields DEF IsRecord
      <3> QED  BY <3>2 DEF IsRecord
    <2> QED  BY <1>3, <2>2, <2>3, <2>4 DEF Replaced
  <1>6. outdated' \in BOOLEAN /\ crossed' \in BOOLEAN
    BY <1>3 DEF IInv, TypeOK
  <1> QED  BY <1>1, <1>2, <1>3, <1>4, <1>5, <1>6, Written

\* An UPDATE writes what was read and what was given.
LEMMA PutKeeps ==
    ASSUME IInv, NEW h \in Handlers, NEW t \in {"backend", "mapping", "sni", "foreign"}, Put(h, t)
    PROVE  IInv'
  <1> DEFINE r == req[h]
  <1>1. r.table = t /\ r.id \in Ids[t] /\ Putting(r) /\ Accepts(t, r.id, r.row)
    BY DEF IInv, RequestsOK, RequestOK, Put, Waiting, Inserting
  <1>2. t \in TableNames /\ r.row \in Rows[t] /\ r.row # NoRow
    BY <1>1, RowsAreRows DEF Putting, TableNames
  <1>3. /\ req' = [req EXCEPT ![h] = Free] /\ begun' \in 0..MaxRequests
        /\ Replaced(t, r.id, r.row) /\ Overlap
        /\ stated' = [stated EXCEPT ![t][r.id] = Over(stated[t][r.id], Said(h, r.patch))]
        /\ outdated' = (outdated \/ db[t][r.id] # r.base \/ NameMoved(h))
        /\ crossed' = (crossed \/ AskedToCross(r))
    BY DEF IInv, TypeOK, Put, Goto, Change, Replaced
  <1>4. Fits(t, r.id, r.row)
    <2>1. t = "backend" => AcceptsBackend(r.id, r.row)
      BY <1>1 DEF Accepts
    <2>2. t = "mapping" => AcceptsMapping(r.id, r.row)
      BY <1>1 DEF Accepts
    <2>3. t = "sni" => Led(r.row)
      BY <1>1 DEF Putting
    <2>4. t = "backend" => crossed' \/ r.row.node = NodeOf(r.id)
      BY <1>1, <1>3 DEF AskedToCross, NodeOf
    <2>5. t = "mapping" => crossed' \/ r.row.node = NodeOf(r.row.backend)
      BY <1>1, <1>3 DEF AskedToCross, Crosses, NodeOf
    <2> QED  BY <1>2, <2>1, <2>2, <2>3, <2>4, <2>5 DEF Fits, AcceptsBackend, AcceptsMapping, AcceptsTunnel
  <1>5. ~outdated' => db' = stated'
    <2>1. SUFFICES ASSUME ~outdated' PROVE db' = stated'
      OBVIOUS
    <2>2. ~NameMoved(h) /\ db = stated /\ db \in Tables /\ db[t][r.id] = r.base
      BY <1>3, <2>1 DEF IInv, OmittedFieldsKept, TypeOK
    <2>3. Said(h, r.patch) = Given(r)
      BY <1>1, <2>2, SaidIsGiven, NoneAssumption DEF Putting, Given, IInv
    <2>4. r.row = Over(stated[t][r.id], Said(h, r.patch))
      BY <1>1, <2>2, <2>3 DEF Putting
    <2> QED  BY <1>3, <2>2, <2>4 DEF Replaced
  <1>6. outdated' \in BOOLEAN /\ crossed' \in BOOLEAN /\ (crossed => crossed')
    BY <1>3 DEF IInv, TypeOK
  <1> QED  BY <1>1, <1>2, <1>3, <1>4, <1>5, <1>6, Written

\* A mapping is deleted; nothing refers to it.
LEMMA DeleteMappingKeeps ==
    ASSUME IInv, NEW h \in Handlers, NEW m \in Mappings, DeleteMapping(h, m)
    PROVE  IInv'
  <1>1. "mapping" \in TableNames /\ Ids["mapping"] = Mappings
    BY DEF TableNames, Ids
  <1>2. /\ req' = [req EXCEPT ![h] = Free] /\ begun' \in 0..MaxRequests
        /\ Replaced("mapping", m, NoRow) /\ Overlap /\ outdated' = outdated /\ crossed' = crossed
        /\ stated' = [stated EXCEPT !["mapping"][m] = NoRow]
    BY Counted DEF IInv, DeleteMapping, Begin, Change, Replaced
  <1>3. Fits("mapping", m, NoRow)
    BY DEF Fits
  <1>4. ~outdated' => db' = stated'
    BY <1>2 DEF IInv, OmittedFieldsKept, Replaced
  <1>5. outdated' \in BOOLEAN /\ crossed' \in BOOLEAN
    BY <1>2 DEF IInv, TypeOK
  <1> QED  BY <1>1, <1>2, <1>3, <1>4, <1>5, Written

-----------------------------------------------------------------------------
(* Statements that read *)

\* The request that is given up, or was refused.
LEMMA RefusedKeeps ==
    ASSUME IInv, NEW h \in Handlers, Refused(h)
    PROVE  IInv'
  <1>1. req' = [req EXCEPT ![h] = req'[h]] /\ req'[h] = Free
    BY DEF IInv, IsRecord, Refused, Goto
  <1>2. RequestOK(req[h])'
    BY <1>1, FreeRequest DEF RequestOK
  <1>3. /\ UNCHANGED <<db, snap, stated, outdated>> /\ crossed' = crossed
        /\ crossed' \in BOOLEAN /\ begun' \in 0..MaxRequests
    BY DEF Refused, Goto, history, IInv, TypeOK
  <1> QED  BY <1>1, <1>2, <1>3, Asked

\* A request that begins with a lookup.
LEMMA BeginKeeps ==
    ASSUME IInv, NEW h \in Handlers, NEW r, Begin(h, r), RequestOK(r)',
           UNCHANGED <<db, snap, stated, outdated>>, crossed' \in BOOLEAN, crossed => crossed'
    PROVE  IInv'
  <1>1. /\ req' = [req EXCEPT ![h] = req'[h]] /\ req'[h] = r
        /\ begun' \in 0..MaxRequests
    BY Counted DEF Begin, IInv, IsRecord
  <1>2. RequestOK(req[h])'
    BY <1>1
  <1> QED  BY <1>1, <1>2, Asked

\* A route is held until its name is resolved.
LEMMA CreateSniByNameKeeps ==
    ASSUME IInv, NEW h \in Handlers, NEW i \in Routes, NEW n \in Nodes, NEW x \in Names,
           CreateSniByName(h, i, n, x)
    PROVE  IInv'
  <1>1. PICK r : r = [Free EXCEPT !.at = "resolve", !.table = "sni", !.id = i, !.named = x,
                                  !.row = SniByName(n, x)]
    OBVIOUS
  <1>2. /\ IsRecord(r, RequestFields) /\ r.at = "resolve" /\ r.table = "sni" /\ r.id = i
        /\ r.named = x /\ r.row = SniByName(n, x) /\ r.base = NoRow
    BY <1>1 DEF Free, IsRecord, RequestFields
  <1>3. \A b \in Backends : Resolved(SniByName(n, x), b) \in SniRow
    BY DEF Resolved, SniByName, SniRow
  <1>4. i \in Ids[r.table] /\ Rows[r.table] = SniRow
    BY <1>2 DEF Ids, Rows
  <1>5. RequestOK(r)'
    BY <1>2, <1>3, <1>4 DEF RequestOK, Waiting
  <1>6. Begin(h, r) /\ UNCHANGED <<db, snap, stated, outdated>> /\ crossed' = crossed
    BY <1>1 DEF CreateSniByName, history
  <1> QED  BY <1>5, <1>6, BeginKeeps DEF IInv, TypeOK

\* A new row whose backend has been looked up: the mapping of a name, and what the
\* CLI adds.
LEMMA LookedUpKeeps ==
    ASSUME IInv, NEW h \in Handlers, NEW t \in {"tunnel", "mapping"}, NEW i \in Ids[t],
           NEW x \in Names, NEW row \in Rows[t], row.backend \in Existing("backend"),
           t = "mapping" => crossed' \/ row.node = NodeOf(row.backend),
           Begin(h, [Free EXCEPT !.at = "insert", !.table = t, !.id = i, !.named = x, !.row = row]),
           UNCHANGED <<db, snap, stated, outdated>>, crossed' \in BOOLEAN, crossed => crossed'
    PROVE  IInv'
  <1>1. PICK r : r = [Free EXCEPT !.at = "insert", !.table = t, !.id = i, !.named = x, !.row = row]
    OBVIOUS
  <1>2. /\ IsRecord(r, RequestFields) /\ r.at = "insert" /\ r.table = t /\ r.id = i
        /\ r.named = x /\ r.row = row
    BY <1>1 DEF Free, IsRecord, RequestFields
  <1>3. Existing("backend")' = Existing("backend") /\ NodeOf(row.backend)' = NodeOf(row.backend)
    BY DEF Existing, NodeOf
  <1>4. t = "mapping" => Aimed(row)'
    BY <1>3 DEF Aimed
  <1>5. RequestOK(r)'
    BY <1>2, <1>3, <1>4 DEF RequestOK, Inserting
  <1>6. Begin(h, r)
    BY <1>1
  <1> QED  BY <1>5, <1>6, BeginKeeps

\* createMapping with a name: resolveMappingRefs.
LEMMA CreateMappingByNameKeeps ==
    ASSUME IInv, NEW h \in Handlers, NEW m \in Mappings, NEW x \in Names, NEW p \in Ports,
           CreateMappingByName(h, m, x, p)
    PROVE  IInv'
  <1>1. PICK b \in GetBackendByName(x) :
          Begin(h, [Free EXCEPT !.at = "insert", !.table = "mapping", !.id = m, !.named = x,
                    !.row = [node |-> NodeOf(b), backend |-> b, port |-> p, enabled |-> TRUE]])
    BY DEF CreateMappingByName
  <1>2. PICK row : row = [node |-> NodeOf(b), backend |-> b, port |-> p, enabled |-> TRUE]
    OBVIOUS
  <1>3. b \in Existing("backend") /\ b \in Backends /\ NodeOf(b) \in Nodes
    <2>1. db \in Tables
      BY DEF IInv, TypeOK
    <2>2. b \in Existing("backend") /\ b \in Backends
      BY <2>1, ExistingBackends DEF GetBackendByName
    <2>3. db["backend"][b] \in BackendRow
      BY <2>1, <2>2 DEF Tables, Existing
    <2> QED  BY <2>2, <2>3 DEF NodeOf, BackendRow
  <1>4. row \in MappingRow /\ row.backend = b /\ row.node = NodeOf(b)
    BY <1>2, <1>3 DEF MappingRow
  <1>5. m \in Ids["mapping"] /\ row \in Rows["mapping"]
    BY <1>4 DEF Ids, Rows
  <1>6. UNCHANGED <<db, snap, stated, outdated>> /\ crossed' = crossed /\ crossed' \in BOOLEAN
    BY DEF CreateMappingByName, history, IInv, TypeOK
  <1>7. Begin(h, [Free EXCEPT !.at = "insert", !.table = "mapping", !.id = m, !.named = x,
                              !.row = row])
    BY <1>1, <1>2
  <1> QED  BY <1>3, <1>4, <1>5, <1>6, <1>7, LookedUpKeeps

\* transitforge mapping add, transitforge tunnel add
LEMMA CliAddKeeps ==
    ASSUME IInv, NEW h \in Handlers, NEW n \in Nodes, NEW x \in Names
    PROVE  /\ \A m \in Mappings, p \in Ports : CliMappingAdd(h, m, n, x, p) => IInv'
           /\ \A i \in Tunnels : CliTunnelAdd(h, i, n, x) => IInv'
  <1>1. \A b \in CliResolveBackend(x) : b \in Existing("backend") /\ b \in Backends
    BY ExistingBackends DEF CliResolveBackend, IInv, TypeOK
  <1>2. ASSUME NEW m \in Mappings, NEW p \in Ports, CliMappingAdd(h, m, n, x, p) PROVE IInv'
    <2>1. PICK b \in CliResolveBackend(x) :
            /\ CliAdd(h, "mapping", m, n, x,
                      [node |-> n, backend |-> b, port |-> p, enabled |-> TRUE])
            /\ crossed' = (crossed \/ n # db.backend[b].node)
      BY <1>2 DEF CliMappingAdd
    <2>2. PICK row : row = [node |-> n, backend |-> b, port |-> p, enabled |-> TRUE]
      OBVIOUS
    <2>3. row \in MappingRow /\ row.backend = b /\ row.node = n
      BY <1>1, <2>2 DEF MappingRow
    <2>4. m \in Ids["mapping"] /\ row \in Rows["mapping"]
      BY <2>3 DEF Ids, Rows
    <2>5. CliAdd(h, "mapping", m, n, x, row)
      BY <2>1, <2>2
    <2>6. crossed' \in BOOLEAN /\ (crossed => crossed') /\ (crossed' \/ n = NodeOf(b))
      BY <2>1 DEF NodeOf
    <2> QED  BY <1>1, <2>3, <2>4, <2>5, <2>6, LookedUpKeeps DEF CliAdd
  <1>3. ASSUME NEW i \in Tunnels, CliTunnelAdd(h, i, n, x) PROVE IInv'
    <2>1. PICK b \in CliResolveBackend(x) :
            CliAdd(h, "tunnel", i, n, x, [node |-> n, backend |-> b]) /\ crossed' = crossed
      BY <1>3 DEF CliTunnelAdd
    <2>2. PICK row : row = [node |-> n, backend |-> b]
      OBVIOUS
    <2>3. row \in TunnelRow /\ row.backend = b
      BY <1>1, <2>2 DEF TunnelRow
    <2>4. i \in Ids["tunnel"] /\ row \in Rows["tunnel"]
      BY <2>3 DEF Ids, Rows
    <2>5. CliAdd(h, "tunnel", i, n, x, row)
      BY <2>1, <2>2
    <2>6. crossed' \in BOOLEAN
      BY <2>1 DEF IInv, TypeOK
    <2> QED  BY <1>1, <2>1, <2>3, <2>4, <2>5, <2>6, LookedUpKeeps DEF CliAdd
  <1> QED  BY <1>2, <1>3

-----------------------------------------------------------------------------
(* PATCH *)

\* A patch of t that needs no lookup gives a row whatever it is laid over, and one
\* that needs one gives a row once the backend is known.
PatchOf(t, patch, named) ==
    IF named = NoName
    THEN /\ \A base \in Rows[t] : Over(base, patch) \in Rows[t]
         /\ t = "sni" => \A base \in SniRow : Over(base, patch).name = NoName
                                               \/ /\ Over(base, patch).name = base.name
                                                  /\ Over(base, patch).backend = base.backend
    ELSE /\ named \in Names /\ t \in {"mapping", "sni"}
         /\ IsRecord(patch, DOMAIN patch) /\ "backend" \in DOMAIN patch
         /\ \A base \in Rows[t], b \in Backends : Resolved(Over(base, patch), b) \in Rows[t]

\* Get, decode, merge.
LEMMA PatchKeeps ==
    ASSUME IInv, NEW h \in Handlers, NEW t \in {"backend", "mapping", "sni", "foreign"},
           NEW i \in Ids[t], NEW patch, NEW named, PatchOf(t, patch, named),
           Patch(h, t, i, patch, named)
    PROVE  IInv'
  <1>1. PICK r : r = [at |-> IF named = NoName THEN "put" ELSE "resolve", table |-> t, id |-> i,
                      base |-> db[t][i], row |-> Merged(db[t][i], patch), patch |-> patch,
                      named |-> named]
    OBVIOUS
  <1>2. /\ IsRecord(r, RequestFields) /\ r.table = t /\ r.id = i /\ r.base = db[t][i]
        /\ r.row = Over(db[t][i], patch) /\ r.patch = patch /\ r.named = named
        /\ r.at = IF named = NoName THEN "put" ELSE "resolve"
    BY <1>1 DEF Merged, IsRecord, RequestFields
  <1>3. t \in TableNames /\ db \in Tables /\ i \in Existing(t)
    BY DEF TableNames, IInv, TypeOK, Patch
  <1>4. db[t][i] \in Rows[t] /\ db[t][i] # NoRow
    BY <1>3, TablesTyped DEF Existing
  <1>5. Begin(h, r) /\ UNCHANGED <<db, snap, stated, outdated>> /\ crossed' = crossed
        /\ crossed' \in BOOLEAN
    BY <1>1 DEF Patch, history, IInv, TypeOK
  <1>6. CASE named = NoName
    <2>1. r.row \in Rows[t] /\ Given(r) = patch
      BY <1>2, <1>4, <1>6 DEF PatchOf, Given
    <2>2. t = "sni" => Led(r.row)
      <3>1. SUFFICES ASSUME t = "sni" PROVE Led(r.row)
        OBVIOUS
      <3>2. Led(db["sni"][i]) /\ db["sni"][i] \in SniRow
        BY <1>3, <1>4, <3>1 DEF IInv, RoutesLed, Rows
      <3> QED  BY <1>2, <1>6, <3>1, <3>2 DEF PatchOf, Led
    <2>3. t = "sni" => Led(r.row)'
      BY <1>5, <2>2 DEF Led, Existing
    <2>4. Putting(r)'
      BY <1>2, <1>4, <1>6, <2>1, <2>3 DEF Putting
    <2>5. RequestOK(r)'
      BY <1>2, <2>4 DEF RequestOK
    <2> QED  BY <1>5, <2>5, BeginKeeps
  <1>7. CASE named # NoName
    <2>1. /\ named \in Names /\ t \in {"mapping", "sni"}
          /\ IsRecord(patch, DOMAIN patch) /\ "backend" \in DOMAIN patch
          /\ \A b \in Backends : Resolved(r.row, b) \in Rows[t]
      BY <1>2, <1>4, <1>7 DEF PatchOf
    <2>2. Waiting(r)'
      BY <1>2, <1>4, <1>7, <2>1 DEF Waiting
    <2>3. RequestOK(r)'
      BY <1>2, <2>2 DEF RequestOK
    <2> QED  BY <1>5, <2>3, BeginKeeps
  <1> QED  BY <1>6, <1>7

\* Resolving the name and merging commute.
LEMMA ResolvedOver ==
    ASSUME NEW base, NEW patch, IsRecord(patch, DOMAIN patch), "backend" \in DOMAIN patch, NEW b
    PROVE  Resolved(Over(base, patch), b) = Over(base, [patch EXCEPT !.backend = b])
  <1> DEFINE D == DOMAIN base \cup DOMAIN patch
             p == [patch EXCEPT !.backend = b]
  <1>1. Over(base, patch) = [f \in D |-> IF f \in DOMAIN patch THEN patch[f] ELSE base[f]]
    BY DEF Over
  <1>2. /\ DOMAIN p = DOMAIN patch /\ p["backend"] = b
        /\ \A f \in DOMAIN patch : f # "backend" => p[f] = patch[f]
    BY DEF IsRecord
  <1>3. Over(base, p) = [f \in D |-> IF f \in DOMAIN patch THEN p[f] ELSE base[f]]
    BY <1>2 DEF Over
  <1>4. Resolved(Over(base, patch), b) =
            [f \in D |-> IF f = "backend" THEN b ELSE Over(base, patch)[f]]
    BY <1>1 DEF Resolved
  <1> HIDE DEF p
  <1>5. \A f \in D : (IF f = "backend" THEN b ELSE Over(base, patch)[f]) =
                     (IF f \in DOMAIN patch THEN p[f] ELSE base[f])
    BY <1>1, <1>2
  <1> QED  BY <1>3, <1>4, <1>5 DEF p

\* The name is looked up: the backend that has it now.
LEMMA ResolveKeeps ==
    ASSUME IInv, NEW h \in Handlers, Resolve(h)
    PROVE  IInv'
  <1>1. PICK b \in GetBackendByName(req[h].named) :
          Goto(h, [req[h] EXCEPT !.at = IF req[h].base = NoRow THEN "insert" ELSE "put",
                                 !.row = Resolved(req[h].row, b)])
    BY DEF Resolve
  <1>2. PICK o : o = req[h]
    OBVIOUS
  <1>3. PICK r : r = [o EXCEPT !.at = IF o.base = NoRow THEN "insert" ELSE "put",
                               !.row = Resolved(o.row, b)]
    OBVIOUS
  <1>4. o.id \in Ids[o.table] /\ Waiting(o) /\ IsRecord(o, RequestFields)
    BY <1>2 DEF IInv, RequestsOK, RequestOK, Resolve, Inserting, Putting
  <1>5. /\ IsRecord(r, RequestFields) /\ r.table = o.table /\ r.id = o.id /\ r.base = o.base
        /\ r.row = Resolved(o.row, b) /\ r.patch = o.patch /\ r.named = o.named
        /\ r.at = IF o.base = NoRow THEN "insert" ELSE "put"
    BY <1>3, <1>4 DEF IsRecord, RequestFields
  <1>6. b \in Existing("backend") /\ b \in Backends
    BY ExistingBackends DEF GetBackendByName, IInv, TypeOK
  <1>7. r.row \in Rows[r.table] /\ r.table \in {"mapping", "sni"} /\ r.named \in Names
    BY <1>4, <1>5, <1>6 DEF Waiting
  <1>8. r.row.backend = b
    <2>1. r.row \in MappingRow \cup SniRow
      BY <1>7 DEF Rows
    <2>2. "backend" \in DOMAIN r.row
      BY <2>1 DEF MappingRow, SniRow
    <2> QED  BY <1>5, <2>2 DEF Resolved
  <1>9. db' = db /\ Existing("backend")' = Existing("backend")
    BY DEF Resolve, Existing
  <1>10. RequestOK(r)'
    <2>1. CASE o.base = NoRow
      <3>1. r.at = "insert" /\ r.table = "sni"
        BY <1>4, <1>5, <2>1 DEF Waiting
      <3>2. Inserting(r)'
        BY <1>6, <1>7, <1>8, <1>9, <3>1 DEF Inserting
      <3> QED  BY <1>4, <1>5, <3>2 DEF RequestOK
    <2>2. CASE o.base # NoRow
      <3>1. /\ r.at = "put" /\ r.base \in Rows[r.table] /\ o.row = Over(r.base, r.patch)
            /\ IsRecord(r.patch, DOMAIN r.patch) /\ "backend" \in DOMAIN r.patch
        BY <1>4, <1>5, <2>2 DEF Waiting
      <3>2. Given(r) = [r.patch EXCEPT !.backend = b]
        BY <1>7, <1>8, NoneAssumption DEF Given
      <3>3. r.row = Over(r.base, Given(r))
        BY <1>5, <3>1, <3>2, ResolvedOver
      <3>4. Led(r.row)'
        BY <1>6, <1>8, <1>9 DEF Led
      <3>5. Putting(r)'
        BY <1>6, <1>7, <1>8, <1>9, <3>1, <3>3, <3>4 DEF Putting
      <3> QED  BY <1>4, <1>5, <3>5 DEF RequestOK
    <2> QED  BY <2>1, <2>2
  <1>11. /\ req' = [req EXCEPT ![h] = req'[h]] /\ req'[h] = r /\ begun' = begun
    BY <1>1, <1>2, <1>3 DEF Goto, IInv, IsRecord
  <1>12. RequestOK(req[h])'
    BY <1>10, <1>11
  <1>13. UNCHANGED <<db, snap, stated, outdated>> /\ crossed' = crossed
    BY DEF Resolve, history
  <1> QED  BY <1>11, <1>12, <1>13, Asked DEF IInv, TypeOK

\* Forms and partial patches of backends and of foreign nodes.
LEMMA SimplePatches ==
    /\ \A patch \in BackendForm \cup [name: Names] \cup [node: Nodes] :
         PatchOf("backend", patch, NoName)
    /\ \A patch \in ForeignForm \cup ForeignFlags : PatchOf("foreign", patch, NoName)
  <1>1. ASSUME NEW patch \in BackendForm \cup [name: Names] \cup [node: Nodes],
               NEW base \in BackendRow
        PROVE  Over(base, patch) \in BackendRow
    BY DEF Over, BackendForm, BackendRow
  <1>2. ASSUME NEW patch \in ForeignForm \cup ForeignFlags, NEW base \in ForeignRow
        PROVE  Over(base, patch) \in ForeignRow
    BY DEF Over, ForeignForm, ForeignFlags, ForeignRow
  <1> QED  BY <1>1, <1>2 DEF PatchOf, Rows

\* The mapping form, the toggle, a node alone, and a backend by name.
LEMMA MappingPatches ==
    /\ \A patch \in MappingForm \cup MappingToggle \cup [node: Nodes] :
         PatchOf("mapping", patch, NoName)
    /\ \A x \in Names : PatchOf("mapping", [backend |-> NoRow], x)
  <1>1. ASSUME NEW patch \in MappingForm \cup MappingToggle \cup [node: Nodes],
               NEW base \in MappingRow
        PROVE  Over(base, patch) \in MappingRow
    BY DEF Over, MappingForm, MappingToggle, MappingRow
  <1>2. ASSUME NEW base \in MappingRow, NEW b \in Backends
        PROVE  Resolved(Over(base, [backend |-> NoRow]), b) \in MappingRow
    BY DEF Over, MappingRow, Resolved
  <1>3. \A patch \in MappingForm \cup MappingToggle \cup [node: Nodes] :
           PatchOf("mapping", patch, NoName)
    BY <1>1 DEF PatchOf, Rows
  <1>4. \A x \in Names : PatchOf("mapping", [backend |-> NoRow], x)
    BY <1>2, NoneAssumption DEF PatchOf, Rows, IsRecord
  <1> QED  BY <1>3, <1>4

\* A route's node alone, its backend by id, and the form, by name.
LEMMA SniPatches ==
    /\ \A n \in Nodes : PatchOf("sni", [node |-> n], NoName)
    /\ \A b \in Backends : PatchOf("sni", [name |-> NoName, backend |-> b], NoName)
    /\ \A n \in Nodes, x \in Names : PatchOf("sni", SniForm(n, x), x)
  <1>1. ASSUME NEW n \in Nodes PROVE PatchOf("sni", [node |-> n], NoName)
    <2>1. ASSUME NEW base \in SniRow
          PROVE  /\ Over(base, [node |-> n]) \in SniRow
                 /\ Over(base, [node |-> n]).name = base.name
                 /\ Over(base, [node |-> n]).backend = base.backend
      BY DEF Over, SniRow
    <2> QED  BY <2>1 DEF PatchOf, Rows
  <1>2. ASSUME NEW b \in Backends PROVE PatchOf("sni", [name |-> NoName, backend |-> b], NoName)
    <2>1. ASSUME NEW base \in SniRow
          PROVE  /\ Over(base, [name |-> NoName, backend |-> b]) \in SniRow
                 /\ Over(base, [name |-> NoName, backend |-> b]).name = NoName
      BY DEF Over, SniRow
    <2> QED  BY <2>1 DEF PatchOf, Rows
  <1>3. ASSUME NEW n \in Nodes, NEW x \in Names PROVE PatchOf("sni", SniForm(n, x), x)
    <2>1. ASSUME NEW base \in SniRow, NEW b \in Backends
          PROVE  Resolved(Over(base, SniForm(n, x)), b) \in SniRow
      BY DEF Over, SniRow, SniForm, SniByName, Resolved
    <2>2. IsRecord(SniForm(n, x), DOMAIN SniForm(n, x)) /\ "backend" \in DOMAIN SniForm(n, x)
      BY DEF SniForm, SniByName, IsRecord
    <2> QED  BY <2>1, <2>2, NoneAssumption DEF PatchOf, Rows
  <1> QED  BY <1>1, <1>2, <1>3

\* The four PATCH handlers.
LEMMA PatchesKeep ==
    ASSUME IInv, NEW h \in Handlers
    PROVE  /\ \A b \in Backends : PatchBackend(h, b) => IInv'
           /\ \A f \in Foreigns : PatchForeignNode(h, f) => IInv'
           /\ \A m \in Mappings : PatchMapping(h, m) => IInv'
           /\ \A r \in Routes : PatchSni(h, r) => IInv'
  <1>1. /\ Ids["backend"] = Backends /\ Ids["foreign"] = Foreigns /\ Ids["mapping"] = Mappings
        /\ Ids["sni"] = Routes
    BY DEF Ids
  <1>2. ASSUME NEW b \in Backends, PatchBackend(h, b) PROVE IInv'
    BY <1>1, <1>2, SimplePatches, PatchKeeps DEF PatchBackend
  <1>3. ASSUME NEW f \in Foreigns, PatchForeignNode(h, f) PROVE IInv'
    BY <1>1, <1>3, SimplePatches, PatchKeeps DEF PatchForeignNode
  <1>4. ASSUME NEW m \in Mappings, PatchMapping(h, m) PROVE IInv'
    BY <1>1, <1>4, MappingPatches, PatchKeeps DEF PatchMapping
  <1>5. ASSUME NEW r \in Routes, PatchSni(h, r) PROVE IInv'
    <2>1. CASE \E n \in Nodes : Patch(h, "sni", r, [node |-> n], NoName)
      BY <1>1, <2>1, SniPatches, PatchKeeps
    <2>2. CASE \E b \in Backends : Patch(h, "sni", r, [name |-> NoName, backend |-> b], NoName)
      BY <1>1, <2>2, SniPatches, PatchKeeps
    <2>3. CASE \E n \in Nodes, x \in Names : Patch(h, "sni", r, SniForm(n, x), x)
      BY <1>1, <2>3, SniPatches, PatchKeeps
    <2> QED  BY <1>5, <2>1, <2>2, <2>3 DEF PatchSni
  <1> QED  BY <1>2, <1>3, <1>4, <1>5

-----------------------------------------------------------------------------
(* DesiredState *)

\* The queries read what the tables hold.
LEMMA DesiredStateKeeps ==
    ASSUME IInv, DesiredState
    PROVE  IInv'
  <1>1. UNCHANGED <<db, req, begun, stated, outdated, crossed>>
    BY DEF DesiredState, GetNode, ListBackendsByNode, ListTunnelsByNode, ListMappingsByNode,
       ListSniRoutesByNode, Query, EndSnapshot, history
  <1>2. IsRecord(snap, SnapFields)
    BY DEF IInv, SnapOK
  <1>3. \A t, n : ListByNode(t, n)' = ListByNode(t, n)
    BY <1>1 DEF ListByNode, Existing
  <1>4. SnapOK'
    <2>1. ASSUME NEW n \in Nodes, GetNode(n) PROVE SnapOK'
      <3>1. /\ IsRecord(snap', SnapFields) /\ snap'.at = "backends"
        BY <1>2, <2>1 DEF GetNode, IsRecord, SnapFields
      <3> QED  BY <3>1 DEF SnapOK
    <2>2. CASE ListBackendsByNode
      <3>1. /\ IsRecord(snap', SnapFields) /\ snap'.at = "tunnels" /\ snap'.node = snap.node
            /\ snap'.backends = ListByNode("backend", snap.node)
        BY <1>2, <2>2 DEF ListBackendsByNode, Query, IsRecord, SnapFields
      <3> QED  BY <1>3, <3>1 DEF SnapOK
    <2>3. CASE ListTunnelsByNode
      <3>1. /\ IsRecord(snap', SnapFields) /\ snap'.at = "mappings" /\ snap'.node = snap.node
            /\ snap'.backends = snap.backends /\ snap'.overlap = snap.overlap
            /\ snap.at = "tunnels"
        BY <1>2, <2>3 DEF ListTunnelsByNode, Query, IsRecord, SnapFields
      <3> QED  BY <1>3, <3>1 DEF SnapOK, IInv
    <2>4. CASE ListMappingsByNode
      <3>1. /\ IsRecord(snap', SnapFields) /\ snap'.at = "sni" /\ snap'.node = snap.node
            /\ snap'.backends = snap.backends /\ snap'.overlap = snap.overlap
            /\ snap.at = "mappings"
            /\ snap'.mappings = FilterEnabledMappings(ListByNode("mapping", snap.node))
        BY <1>2, <2>4 DEF ListMappingsByNode, Query, IsRecord, SnapFields
      <3> QED  BY <1>3, <3>1 DEF SnapOK, IInv, FilterEnabledMappings
    <2>5. CASE ListSniRoutesByNode
      <3>1. /\ IsRecord(snap', SnapFields) /\ snap'.at = "done" /\ snap'.node = snap.node
            /\ snap'.backends = snap.backends /\ snap'.overlap = snap.overlap
            /\ snap.at = "sni" /\ snap'.mappings = snap.mappings
            /\ snap'.sni = ListByNode("sni", snap.node)
        BY <1>2, <2>5 DEF ListSniRoutesByNode, Query, IsRecord, SnapFields
      <3> QED  BY <1>3, <3>1 DEF SnapOK, IInv, FilterEnabledMappings
    <2>6. CASE EndSnapshot
      BY <2>6 DEF EndSnapshot, NoSnap, SnapOK, IsRecord, SnapFields
    <2> QED  BY <2>1, <2>2, <2>3, <2>4, <2>5, <2>6 DEF DesiredState
  <1>5. RequestsOK'
    <2>1. BackendsStay
      BY <1>1 DEF BackendsStay, Existing, NodeOf
    <2>2. ASSUME NEW k \in Handlers PROVE RequestOK(req[k])'
      <3>1. PICK r : r = req[k]
        OBVIOUS
      <3>2. RequestOK(r)'
        BY <2>1, <3>1, RequestStays DEF IInv, RequestsOK
      <3> QED  BY <1>1, <3>1, <3>2
    <2> QED  BY <2>2 DEF RequestsOK
  <1>6. TypeOK' /\ OmittedFieldsKept' /\ IsRecord(req, Handlers)'
    BY <1>1, <1>4 DEF IInv, TypeOK, SnapOK, OmittedFieldsKept
  <1>7. NamesUnique' /\ RoutesLed' /\ MappingsAimed'
    BY <1>1 DEF IInv, NamesUnique, RoutesLed, Led, MappingsAimed, Aimed, NodeOf, Existing
  <1> QED  BY <1>4, <1>5, <1>6, <1>7 DEF IInv

-----------------------------------------------------------------------------
(* Theorems *)

\* A site in operation satisfies the invariant.
LEMMA InitIInv == Init => IInv
  <1> SUFFICES ASSUME Init PROVE IInv
    OBVIOUS
  <1>1. PICK n \in Nodes, b \in Backends, m \in Mappings, x \in Names, p \in Ports :
          db = [node |-> [k \in Nodes |-> IF k = n THEN "row" ELSE NoRow],
                backend |-> [Empty(Backends) EXCEPT ![b] = [name |-> x, node |-> n]],
                tunnel |-> Empty(Tunnels),
                mapping |-> [Empty(Mappings) EXCEPT ![m] =
                    [node |-> n, backend |-> b, port |-> p, enabled |-> TRUE]],
                sni |-> Empty(Routes),
                foreign |-> Empty(Foreigns)]
    BY DEF Init
  <1>2. PICK brow : brow = [name |-> x, node |-> n]
    OBVIOUS
  <1>3. PICK mrow : mrow = [node |-> n, backend |-> b, port |-> p, enabled |-> TRUE]
    OBVIOUS
  <1>4. brow \in BackendRow /\ brow.node = n /\ brow # NoRow
    <2>1. brow \in BackendRow /\ brow.node = n
      BY <1>2 DEF BackendRow
    <2> QED  BY <2>1, NoneAssumption
  <1>5. mrow \in MappingRow /\ mrow.node = n /\ mrow.backend = b
    BY <1>3 DEF MappingRow
  <1>6. /\ db["backend"] = [k \in Backends |-> IF k = b THEN brow ELSE NoRow]
        /\ db["mapping"] = [k \in Mappings |-> IF k = m THEN mrow ELSE NoRow]
        /\ db["sni"] = [k \in Routes |-> NoRow]
    BY <1>1, <1>2, <1>3 DEF Empty
  <1>7. db \in Tables
    <2>1. /\ db["backend"] \in [Backends -> BackendRow \cup {NoRow}]
          /\ db["mapping"] \in [Mappings -> MappingRow \cup {NoRow}]
      BY <1>4, <1>5, <1>6
    <2>2. /\ [k \in Nodes |-> IF k = n THEN "row" ELSE NoRow] \in [Nodes -> {"row", NoRow}]
          /\ Empty(Tunnels) \in [Tunnels -> TunnelRow \cup {NoRow}]
          /\ Empty(Routes) \in [Routes -> SniRow \cup {NoRow}]
          /\ Empty(Foreigns) \in [Foreigns -> ForeignRow \cup {NoRow}]
      BY DEF Empty
    <2>3. db = [node |-> [k \in Nodes |-> IF k = n THEN "row" ELSE NoRow],
                backend |-> db["backend"], tunnel |-> Empty(Tunnels), mapping |-> db["mapping"],
                sni |-> Empty(Routes), foreign |-> Empty(Foreigns)]
      BY <1>1
    <2> QED  BY <2>1, <2>2, <2>3 DEF Tables
  <1>8. Existing("backend") = {b} /\ Existing("mapping") \subseteq {m} /\ Existing("sni") = {}
    BY <1>4, <1>6 DEF Existing
  <1>9. NamesUnique /\ RoutesLed
    BY <1>8 DEF NamesUnique, RoutesLed
  <1>10. MappingsAimed
    BY <1>4, <1>5, <1>6, <1>8 DEF MappingsAimed, Aimed, NodeOf
  <1>11. IsRecord(req, Handlers) /\ RequestsOK /\ \A h \in Handlers : req[h].at = "free"
    BY FreeRequest DEF Init, IsRecord, RequestsOK, RequestOK
  <1>12. SnapOK
    BY DEF Init, NoSnap, SnapOK, IsRecord, SnapFields
  <1>13. TypeOK
    <2>1. begun \in 0..MaxRequests
      BY InventoryBound DEF Init
    <2> QED  BY <1>7, <1>11, <1>12, <2>1 DEF Init, TypeOK, SnapOK
  <1> QED  BY <1>9, <1>10, <1>11, <1>12, <1>13 DEF Init, IInv, OmittedFieldsKept

\* Every statement of every request keeps the invariant.
LEMMA NextIInv == IInv /\ [Next]_vars => IInv'
  <1> SUFFICES ASSUME IInv, [Next]_vars PROVE IInv'
    OBVIOUS
  <1>1. /\ Ids["node"] = Nodes /\ Ids["backend"] = Backends /\ Ids["tunnel"] = Tunnels
        /\ Ids["mapping"] = Mappings /\ Ids["sni"] = Routes /\ Ids["foreign"] = Foreigns
    BY DEF Ids
  <1>2. /\ Rows["node"] = {"row"} /\ Rows["backend"] = BackendRow /\ Rows["tunnel"] = TunnelRow
        /\ Rows["mapping"] = MappingRow /\ Rows["sni"] = SniRow /\ Rows["foreign"] = ForeignRow
    BY DEF Rows
  <1>3. CASE DesiredState
    BY <1>3, DesiredStateKeeps
  <1>4. CASE UNCHANGED vars
    <2>1. UNCHANGED <<db, req, snap, begun, stated, outdated, crossed>>
      BY <1>4 DEF vars, history
    <2>2. SnapOK' /\ NamesUnique' /\ RoutesLed' /\ MappingsAimed'
      BY <2>1 DEF IInv, SnapOK, NamesUnique, RoutesLed, Led, MappingsAimed, Aimed, NodeOf,
         Existing, ListByNode, FilterEnabledMappings
    <2>3. BackendsStay
      BY <2>1 DEF BackendsStay, Existing, NodeOf
    <2>4. ASSUME NEW k \in Handlers PROVE RequestOK(req[k])'
      <3>1. PICK r : r = req[k]
        OBVIOUS
      <3>2. RequestOK(r)'
        BY <2>3, <3>1, RequestStays DEF IInv, RequestsOK
      <3> QED  BY <2>1, <3>1, <3>2
    <2>5. RequestsOK'
      BY <2>4 DEF RequestsOK
    <2> QED  BY <2>1, <2>2, <2>5 DEF IInv, TypeOK, OmittedFieldsKept
  <1>5. ASSUME NEW h \in Handlers, Resolve(h) \/ Insert(h) \/ Refused(h) PROVE IInv'
    BY <1>5, ResolveKeeps, InsertKeeps, RefusedKeeps
  <1>6. ASSUME NEW h \in Handlers,
               UpdateBackend(h) \/ UpdateMapping(h) \/ UpdateSniRoute(h) \/ UpdateForeignNode(h)
        PROVE  IInv'
    BY <1>6, PutKeeps DEF UpdateBackend, UpdateMapping, UpdateSniRoute, UpdateForeignNode
  <1>7. ASSUME NEW h \in Handlers, NEW n \in Nodes, CreateNode(h, n) PROVE IInv'
    BY <1>1, <1>2, <1>7, CreateKeeps DEF CreateNode, TableNames
  <1>8. ASSUME NEW h \in Handlers, NEW b \in Backends, NEW row \in BackendRow,
               CreateBackend(h, b, row)
        PROVE  IInv'
    BY <1>1, <1>2, <1>8, CreateKeeps DEF CreateBackend, TableNames
  <1>9. ASSUME NEW h \in Handlers, NEW i \in Tunnels, NEW row \in TunnelRow,
               CreateTunnel(h, i, row)
        PROVE  IInv'
    BY <1>1, <1>2, <1>9, CreateKeeps DEF CreateTunnel, TableNames
  <1>10. ASSUME NEW h \in Handlers, NEW f \in Foreigns, NEW row \in ForeignRow,
                CreateForeignNode(h, f, row)
         PROVE  IInv'
    BY <1>1, <1>2, <1>10, CreateKeeps DEF CreateForeignNode, TableNames
  <1>11. ASSUME NEW h \in Handlers, NEW m \in Mappings, NEW row \in MappingRow,
                CreateMapping(h, m, row)
         PROVE  IInv'
    BY <1>1, <1>2, <1>11, CreateKeeps DEF CreateMapping, TableNames
  <1>12. ASSUME NEW h \in Handlers, NEW r \in Routes, NEW row \in SniRow, CreateSni(h, r, row)
         PROVE  IInv'
    BY <1>1, <1>2, <1>12, CreateKeeps DEF CreateSni, TableNames
  <1>13. ASSUME NEW h \in Handlers, NEW r \in Routes, NEW n \in Nodes, NEW x \in Names,
                CreateSniByName(h, r, n, x)
         PROVE  IInv'
    BY <1>13, CreateSniByNameKeeps
  <1>14. ASSUME NEW h \in Handlers, NEW m \in Mappings, NEW x \in Names, NEW p \in Ports,
                \/ CreateMappingByName(h, m, x, p)
                \/ \E n \in Nodes : CliMappingAdd(h, m, n, x, p)
         PROVE  IInv'
    BY <1>14, CreateMappingByNameKeeps, CliAddKeeps
  <1>15. ASSUME NEW h \in Handlers, NEW i \in Tunnels, NEW n \in Nodes, NEW x \in Names,
                CliTunnelAdd(h, i, n, x)
         PROVE  IInv'
    BY <1>15, CliAddKeeps
  <1>16. ASSUME NEW h \in Handlers, NEW m \in Mappings, DeleteMapping(h, m) PROVE IInv'
    BY <1>16, DeleteMappingKeeps
  <1>17. ASSUME NEW h \in Handlers,
                \/ \E b \in Backends : PatchBackend(h, b)
                \/ \E f \in Foreigns : PatchForeignNode(h, f)
                \/ \E m \in Mappings : PatchMapping(h, m)
                \/ \E r \in Routes : PatchSni(h, r)
         PROVE  IInv'
    BY <1>17, PatchesKeep
  <1> QED  BY <1>3, <1>4, <1>5, <1>6, <1>7, <1>8, <1>9, <1>10, <1>11, <1>12, <1>13, <1>14, <1>15,
              <1>16, <1>17, Zenon DEF Next

\* IInv holds throughout: what the tables, the requests under way and a desired
\* state that is being read rely on of each other (api/handlers.go, store).
THEOREM InventoryInvariant == Spec => []IInv
  BY InitIInv, NextIInv, PTL DEF Spec

\* Every row that is written satisfies Validate, whatever patches, lookups and
\* other requests came between reading and writing it (Inventory's TypeOK).
THEOREM InventoryTyped == Spec => []TypeOK
  <1>1. IInv => TypeOK
    BY DEF IInv
  <1> QED  BY <1>1, InventoryInvariant, PTL

\* A PATCH keeps what it omits, for any callers and tables, up to outdated reads
\* (patchBackend, patchMapping, patchSni, patchForeignNode).
THEOREM PatchesKeepTheRest == Spec => []OmittedFieldsKept
  <1>1. IInv => OmittedFieldsKept
    BY DEF IInv
  <1> QED  BY <1>1, InventoryInvariant, PTL

\* SNI rules lead where the operator last sent them, whatever is renamed
\* (resolveSniBackends, haproxy.resolveBackend).
THEOREM RoutesLeadWhereSaved == Spec => []SniLeadsWhereSaved
  <1>1. IInv => SniLeadsWhereSaved
    <2> SUFFICES ASSUME IInv, snap.at = "done", ~snap.overlap, ~outdated,
                        NEW r \in DOMAIN snap.sni,
                        stated["sni"][r].backend \in DOMAIN snap.backends
                 PROVE  ResolveBackend(snap.sni[r], snap.backends) = {stated["sni"][r].backend}
      BY DEF SniLeadsWhereSaved
    <2>1. stated = db /\ snap.sni = ListByNode("sni", snap.node)
      BY DEF IInv, OmittedFieldsKept, SnapOK
    <2>2. snap.sni[r] = db["sni"][r]
      BY <2>1 DEF ListByNode
    <2> QED  BY <2>1, <2>2 DEF ResolveBackend
  <1> QED  BY <1>1, InventoryInvariant, PTL

\* The backend of every mapping an agent is given comes with it, unless a caller
\* asked for another node's or something was changed meanwhile (DesiredState,
\* resolveMappingRefs).
THEOREM MappingsComeWithBackends == Spec => []RulesHaveBackends
  <1>1. IInv => RulesHaveBackends
    <2> SUFFICES ASSUME IInv, snap.at = "done", ~snap.overlap, ~crossed,
                        NEW m \in DOMAIN snap.mappings
                 PROVE  snap.mappings[m].backend \in DOMAIN snap.backends
      BY DEF RulesHaveBackends
    <2>1. /\ snap.backends = ListByNode("backend", snap.node)
          /\ snap.mappings = FilterEnabledMappings(ListByNode("mapping", snap.node))
      BY DEF IInv, SnapOK
    <2>2. /\ m \in Existing("mapping") /\ db["mapping"][m].node = snap.node
          /\ snap.mappings[m] = db["mapping"][m]
      BY <2>1 DEF FilterEnabledMappings, ListByNode
    <2>3. Aimed(db["mapping"][m])
      BY <2>2 DEF IInv, MappingsAimed
    <2> QED  BY <2>1, <2>2, <2>3 DEF Aimed, NodeOf, ListByNode
  <1> QED  BY <1>1, InventoryInvariant, PTL
=============================================================================
