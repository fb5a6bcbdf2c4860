----------------------------- MODULE Inventory ------------------------------
(***************************************************************************)
(* The controller's inventory: the tables that operators change through    *)
(* the API, the CLI and the Web UI, and the desired state that an agent    *)
(* reads from them (api/handlers.go, api/foreign_nodes.go, store).         *)
(*                                                                         *)
(* One SQL statement is one action.  A PATCH reads a row, merges, and      *)
(* writes the whole row back; a backend given by name is looked up in a    *)
(* statement of its own; and a desired state is one query per table.       *)
(* Nothing spans two statements.                                           *)
(*                                                                         *)
(* Nodes and backends are never deleted, so a check that one exists is     *)
(* made where its result is used.  A public port stands for a protocol and *)
(* a number; an SNI route has one rule, which stands for its default or    *)
(* for any other.  A request that its first statement refuses changes      *)
(* nothing and is left out, as are addresses, labels, listeners and audit  *)
(* events.                                                                 *)
(***************************************************************************)
EXTENDS Naturals

CONSTANTS
    Nodes, Backends, Tunnels, Mappings, Routes, Foreigns,   \* ids
    Names,        \* of backends, and of foreign nodes
    Ports,        \* public ports
    Handlers,     \* requests that may be under way at a time
    MaxRequests,  \* bound: requests begun
    NoRow, NoName

ASSUME InventoryBound == MaxRequests \in Nat

VARIABLES
    db,        \* the tables: table -> id -> row or NoRow
    req,       \* per request: its next statement and what it holds
    snap,      \* the desired state being read, or just read
    begun,
    \* History:
    stated,    \* like db: per field, what the last request that gave it said
    outdated,  \* a write rested on an outdated read
    crossed    \* a caller led a mapping to a backend of another node

history == <<stated, outdated, crossed>>
vars == <<db, req, snap, begun, history>>

\* The rows that Normalize and Validate let through.
BackendRow == [name: Names, node: Nodes]
TunnelRow == [node: Nodes, backend: Backends]
MappingRow == [node: Nodes, backend: Backends, port: Ports, enabled: BOOLEAN]
\* SniMatch keeps the name it was given next to the id.
SniRow == [node: Nodes, name: Names \cup {NoName}, backend: Backends \cup {NoRow}]
ForeignRow == [name: Names, country: {"", "NL"}]

ASSUME NoneAssumption ==
    /\ NoName \notin Names /\ NoRow \notin Backends /\ NoRow # "row"
    /\ NoRow \notin BackendRow \cup TunnelRow \cup MappingRow \cup SniRow \cup ForeignRow

Tables == [node: [Nodes -> {"row", NoRow}],
           backend: [Backends -> BackendRow \cup {NoRow}],
           tunnel: [Tunnels -> TunnelRow \cup {NoRow}],
           mapping: [Mappings -> MappingRow \cup {NoRow}],
           sni: [Routes -> SniRow \cup {NoRow}],
           foreign: [Foreigns -> ForeignRow \cup {NoRow}]]

Free == [at |-> "free", table |-> "none", id |-> NoRow, base |-> NoRow, row |-> NoRow,
         patch |-> NoRow, named |-> NoName]

NoSnap == [at |-> "idle", node |-> NoRow, backends |-> <<>>, tunnels |-> <<>>,
           mappings |-> <<>>, sni |-> <<>>, overlap |-> FALSE]

TypeOK ==
    /\ db \in Tables
    /\ \A h \in Handlers : req[h].at \in {"free", "resolve", "insert", "put"}
    /\ snap.at \in {"idle", "backends", "tunnels", "mappings", "sni", "done"}
    /\ begun \in 0..MaxRequests
    /\ outdated \in BOOLEAN /\ crossed \in BOOLEAN

Empty(ids) == [i \in ids |-> NoRow]

\* A site in operation: a backend with a mapping.
Init ==
    /\ \E n \in Nodes, b \in Backends, m \in Mappings, x \in Names, p \in Ports :
         db = [node |-> [k \in Nodes |-> IF k = n THEN "row" ELSE NoRow],
               backend |-> [Empty(Backends) EXCEPT ![b] = [name |-> x, node |-> n]],
               tunnel |-> Empty(Tunnels),
               mapping |-> [Empty(Mappings) EXCEPT ![m] =
                   [node |-> n, backend |-> b, port |-> p, enabled |-> TRUE]],
               sni |-> Empty(Routes),
               foreign |-> Empty(Foreigns)]
    /\ req = [h \in Handlers |-> Free]
    /\ snap = NoSnap
    /\ begun = 0
    /\ stated = db
    /\ outdated = FALSE /\ crossed = FALSE

-----------------------------------------------------------------------------
(* The store *)

Existing(t) == {i \in DOMAIN db[t] : db[t][i] # NoRow}

GetBackendByName(x) == {b \in Existing("backend") : db.backend[b].name = x}

NameTaken(t, i, row) == \E j \in Existing(t) \ {i} : db[t][j].name = row.name

\* UNIQUE(node_id, protocol, public_port)
PortTaken(i, row) ==
    \E j \in Existing("mapping") \ {i} :
        db.mapping[j].node = row.node /\ db.mapping[j].port = row.port

\* UNIQUE and FOREIGN KEY constraints on row i; the backends of an SNI route
\* are under none.
AcceptsBackend(i, row) == row.node \in Existing("node") /\ ~NameTaken("backend", i, row)

AcceptsTunnel(row) == row.node \in Existing("node") /\ row.backend \in Existing("backend")

AcceptsMapping(i, row) == AcceptsTunnel(row) /\ ~PortTaken(i, row)

AcceptsSni(row) == row.node \in Existing("node")

AcceptsForeign(i, row) == ~NameTaken("foreign", i, row)

Accepts(t, i, row) ==
    CASE t = "backend" -> AcceptsBackend(i, row)
      [] t = "tunnel" -> AcceptsTunnel(row)
      [] t = "mapping" -> AcceptsMapping(i, row)
      [] t = "sni" -> AcceptsSni(row)
      [] t = "foreign" -> AcceptsForeign(i, row)
      [] OTHER -> TRUE

ListByNode(t, n) ==
    [i \in {j \in Existing(t) : db[t][j].node = n} |-> db[t][i]]

-----------------------------------------------------------------------------
(* Requests *)

Begin(h, r) ==
    /\ req[h] = Free /\ begun < MaxRequests
    /\ req' = [req EXCEPT ![h] = r]
    /\ begun' = begun + 1

Goto(h, r) == req' = [req EXCEPT ![h] = r] /\ UNCHANGED begun

\* A desired state that is being read no longer shows the present.
Overlap == snap' = IF snap.at = "idle" THEN snap ELSE [snap EXCEPT !.overlap = TRUE]

\* One INSERT, UPDATE or DELETE has changed row i of t; "said" is what the
\* requests have said of it by now.
Change(t, i, row, said) ==
    /\ db' = [db EXCEPT ![t][i] = row]
    /\ stated' = [stated EXCEPT ![t][i] = said]
    /\ Overlap

\* Does a mapping lead to another node's backend?
Crosses(row) == row.node # db.backend[row.backend].node

\* A request whose first statement is the INSERT.
Create(h, t, i, row) ==
    /\ i \notin Existing(t) /\ Accepts(t, i, row)
    /\ Begin(h, Free)
    /\ Change(t, i, row, row)
    /\ crossed' = (crossed \/ (t = "mapping" /\ Crosses(row)))
    /\ UNCHANGED outdated

CreateNode(h, n) == Create(h, "node", n, "row")

CreateBackend(h, b, row) == Create(h, "backend", b, row)

CreateTunnel(h, i, row) == Create(h, "tunnel", i, row)

CreateForeignNode(h, f, row) == Create(h, "foreign", f, row)

\* createMapping with ids; the store enables every new mapping.
CreateMapping(h, m, row) == row.enabled /\ Create(h, "mapping", m, row)

\* createSni with an id, which is stored as it is.
CreateSni(h, r, row) ==
    row.name = NoName /\ row.backend # NoRow /\ Create(h, "sni", r, row)

\* parseSniMatches, and the CLI: a rule is given by a name alone.
SniByName(n, x) == [node |-> n, name |-> x, backend |-> NoRow]

\* createSni with a name: the row is held until the name is resolved.
CreateSniByName(h, r, n, x) ==
    /\ r \notin Existing("sni") /\ n \in Existing("node")
    /\ Begin(h, [Free EXCEPT !.at = "resolve", !.table = "sni", !.id = r, !.named = x,
                             !.row = SniByName(n, x)])
    /\ UNCHANGED <<db, snap, history>>

\* Mutant: the first node there is, when none is given.
NodeOfAny(b) == CHOOSE n \in Existing("node") : TRUE

\* resolveMappingRefs: a mapping without node goes to its backend's.
NodeOf(b) == db.backend[b].node

\* createMapping?backend=x: resolveMappingRefs, ahead of the INSERT.
CreateMappingByName(h, m, x, p) ==
    /\ m \notin Existing("mapping")
    /\ \E b \in GetBackendByName(x) :
         Begin(h, [Free EXCEPT !.at = "insert", !.table = "mapping", !.id = m, !.named = x,
                   !.row = [node |-> NodeOf(b), backend |-> b, port |-> p, enabled |-> TRUE]])
    /\ UNCHANGED <<db, snap, history>>

\* The CLI looks names up in lists of its own and then posts ids.
CliAdd(h, t, i, n, x, row) ==
    /\ i \notin Existing(t) /\ n \in Existing("node")
    /\ Begin(h, [Free EXCEPT !.at = "insert", !.table = t, !.id = i, !.named = x, !.row = row])
    /\ UNCHANGED <<db, snap, stated, outdated>>

\* resolveBackend of the CLI
CliResolveBackend(x) == {b \in Existing("backend") : db.backend[b].name = x}

\* transitforge mapping add
CliMappingAdd(h, m, n, x, p) ==
    \E b \in CliResolveBackend(x) :
        /\ CliAdd(h, "mapping", m, n, x,
                  [node |-> n, backend |-> b, port |-> p, enabled |-> TRUE])
        /\ crossed' = (crossed \/ n # db.backend[b].node)

\* transitforge tunnel add
CliTunnelAdd(h, i, n, x) ==
    \E b \in CliResolveBackend(x) :
        CliAdd(h, "tunnel", i, n, x, [node |-> n, backend |-> b]) /\ UNCHANGED crossed

\* Mutant: the name goes where the id belongs.
ResolvedToName(row, b) == [row EXCEPT !.backend = db.backend[b].name]

Resolved(row, b) == [row EXCEPT !.backend = b]

\* resolveSniBackends, and the name in a MappingPatch.
Resolve(h) ==
    /\ req[h].at = "resolve"
    /\ \E b \in GetBackendByName(req[h].named) :
         Goto(h, [req[h] EXCEPT !.at = IF req[h].base = NoRow THEN "insert" ELSE "put",
                                !.row = Resolved(@, b)])
    /\ UNCHANGED <<db, snap, history>>

\* What the caller said: a name means the backend that has it now.
Said(h, fields) ==
    IF req[h].named = NoName \/ GetBackendByName(req[h].named) = {} THEN fields
    ELSE [fields EXCEPT !.backend = CHOOSE b \in GetBackendByName(req[h].named) : TRUE]

\* The name was given to another backend since it was looked up.
NameMoved(h) ==
    req[h].named # NoName /\ req[h].row.backend \notin GetBackendByName(req[h].named)
                          /\ req[h].row.backend # NoRow

\* The INSERT of a request that looked something up first.
Insert(h) ==
    LET r == req[h] IN
    /\ r.at = "insert" /\ r.id \notin Existing(r.table) /\ Accepts(r.table, r.id, r.row)
    /\ Goto(h, Free)
    /\ Change(r.table, r.id, r.row, Said(h, r.row))
    /\ outdated' = (outdated \/ NameMoved(h))
    /\ UNCHANGED crossed

-----------------------------------------------------------------------------
(* PATCH and DELETE *)

\* The fields of patch, and those of row that it omits.
Over(row, patch) ==
    [f \in DOMAIN row \cup DOMAIN patch |-> IF f \in DOMAIN patch THEN patch[f] ELSE row[f]]

\* Mutant: what a patch omits is taken for false.
MergedWithFalse(row, patch) ==
    LET new == Over(row, patch) IN
    IF "enabled" \in DOMAIN row /\ "enabled" \notin DOMAIN patch
    THEN [new EXCEPT !.enabled = FALSE] ELSE new

\* Omitted fields keep the values just read.
Merged(row, patch) == Over(row, patch)

\* Get, decode, merge: the whole new row is held from here on.
Patch(h, t, i, patch, named) ==
    /\ i \in Existing(t)
    /\ Begin(h, [at |-> IF named = NoName THEN "put" ELSE "resolve", table |-> t, id |-> i,
                 base |-> db[t][i], row |-> Merged(db[t][i], patch), patch |-> patch,
                 named |-> named])
    /\ UNCHANGED <<db, snap, history>>

\* The backend form (backendUpdate) posts all fields, an API caller some.
BackendForm == BackendRow

PatchBackend(h, b) ==
    \E patch \in BackendForm \cup [name: Names] \cup [node: Nodes] :
        Patch(h, "backend", b, patch, NoName)

\* The form (saveForeignNode) posts all but the labels, the CLI what it was given.
ForeignForm == ForeignRow

ForeignFlags == [name: Names] \cup [country: {"", "NL"}]

PatchForeignNode(h, f) ==
    \E patch \in ForeignForm \cup ForeignFlags : Patch(h, "foreign", f, patch, NoName)

\* The form (mappingUpdate) posts every field, the toggle (mappingPatch) one.
MappingForm == MappingRow

MappingToggle == [enabled: BOOLEAN]

\* patchMapping, also with a node only or with a backend by name
PatchMapping(h, m) ==
    \/ \E patch \in MappingForm \cup MappingToggle \cup [node: Nodes] :
         Patch(h, "mapping", m, patch, NoName)
    \/ \E x \in Names : Patch(h, "mapping", m, [backend |-> NoRow], x)

\* The form (sniUpdate) posts a node and a name.
SniForm(n, x) == SniByName(n, x)

\* patchSni, also with a node only or with an id
PatchSni(h, r) ==
    \/ \E n \in Nodes : Patch(h, "sni", r, [node |-> n], NoName)
    \/ \E b \in Backends : Patch(h, "sni", r, [name |-> NoName, backend |-> b], NoName)
    \/ \E n \in Nodes, x \in Names : Patch(h, "sni", r, SniForm(n, x), x)

\* Did a caller, and not a default, lead a mapping across nodes?
AskedToCross(r) ==
    \/ r.table = "mapping" /\ Crosses(r.row)
    \/ r.table = "backend" /\ r.row.node # db.backend[r.id].node

\* An UPDATE of the whole row, if it is still there.
Put(h, t) ==
    LET r == req[h] IN
    /\ r.at = "put" /\ r.table = t /\ r.id \in Existing(t) /\ Accepts(t, r.id, r.row)
    /\ Goto(h, Free)
    /\ Change(t, r.id, r.row, Over(stated[t][r.id], Said(h, r.patch)))
    /\ outdated' = (outdated \/ db[t][r.id] # r.base \/ NameMoved(h))
    /\ crossed' = (crossed \/ AskedToCross(r))

UpdateBackend(h) == Put(h, "backend")

UpdateMapping(h) == Put(h, "mapping")

UpdateSniRoute(h) == Put(h, "sni")

UpdateForeignNode(h) == Put(h, "foreign")

DeleteMapping(h, m) ==
    /\ m \in Existing("mapping")
    /\ Begin(h, Free)
    /\ Change("mapping", m, NoRow, NoRow)
    /\ UNCHANGED <<outdated, crossed>>

\* The statement is refused: the name, or the row, is gone, or a constraint says
\* no.  A request given up at this stage is the same as one never made.
Refused(h) ==
    LET r == req[h] IN
    /\ \/ r.at = "resolve" /\ GetBackendByName(r.named) = {}
       \/ r.at \in {"insert", "put"} /\ ~Accepts(r.table, r.id, r.row)
       \/ r.at = "put" /\ r.id \notin Existing(r.table)
       \/ r.at = "insert" /\ r.id \in Existing(r.table)
    /\ Goto(h, Free)
    /\ UNCHANGED <<db, snap, history>>

-----------------------------------------------------------------------------
(* DesiredState: five queries in this order (and three more of tables that  *)
(* are not modelled here), for an agent, a plan or a dry run.               *)

Query(at, next, field, rows) ==
    /\ snap.at = at
    /\ snap' = [snap EXCEPT !.at = next, ![field] = rows]
    /\ UNCHANGED <<db, req, begun, history>>

GetNode(n) ==
    /\ snap.at = "idle" /\ n \in Existing("node")
    /\ snap' = [snap EXCEPT !.at = "backends", !.node = n]
    /\ UNCHANGED <<db, req, begun, history>>

ListBackendsByNode == Query("backends", "tunnels", "backends", ListByNode("backend", snap.node))

ListTunnelsByNode == Query("tunnels", "mappings", "tunnels", ListByNode("tunnel", snap.node))

FilterEnabledMappings(rows) ==
    [m \in {k \in DOMAIN rows : rows[k].enabled} |-> rows[m]]

ListMappingsByNode ==
    Query("mappings", "sni", "mappings", FilterEnabledMappings(ListByNode("mapping", snap.node)))

ListSniRoutesByNode == Query("sni", "done", "sni", ListByNode("sni", snap.node))

\* The answer is sent.
EndSnapshot ==
    /\ snap.at = "done"
    /\ snap' = NoSnap
    /\ UNCHANGED <<db, req, begun, history>>

DesiredState ==
    \/ \E n \in Nodes : GetNode(n)
    \/ ListBackendsByNode \/ ListTunnelsByNode \/ ListMappingsByNode \/ ListSniRoutesByNode
    \/ EndSnapshot

\* Mutant: the name goes first.
ResolveBackendByName(row, backends) ==
    LET named == {b \in DOMAIN backends : backends[b].name = row.name} IN
    IF named # {} THEN named ELSE {row.backend} \cap DOMAIN backends

\* The agent's haproxy.resolveBackend: by id, else by name, else an error.
ResolveBackend(row, backends) ==
    IF row.backend \in DOMAIN backends THEN {row.backend}
    ELSE {b \in DOMAIN backends : backends[b].name = row.name}

\* sniMatchesText, the name that the edit form shows for a rule: the present name
\* of the backend the id stands for, but for a rule that is not the default one the
\* name stored with it, if there is one.
SniFormText(row, default) ==
    LET present == {db.backend[b].name : b \in {row.backend} \cap Existing("backend")} IN
    IF row.name = NoName \/ (default /\ present # {}) THEN present ELSE {row.name}

-----------------------------------------------------------------------------
Next ==
    \/ DesiredState
    \/ \E h \in Handlers :
         \/ Resolve(h) \/ Insert(h) \/ Refused(h)
         \/ UpdateBackend(h) \/ UpdateMapping(h) \/ UpdateSniRoute(h) \/ UpdateForeignNode(h)
         \/ \E n \in Nodes : CreateNode(h, n)
         \/ \E b \in Backends :
              \/ PatchBackend(h, b)
              \/ \E row \in BackendRow : CreateBackend(h, b, row)
         \/ \E i \in Tunnels :
              \/ \E row \in TunnelRow : CreateTunnel(h, i, row)
              \/ \E n \in Nodes, x \in Names : CliTunnelAdd(h, i, n, x)
         \/ \E f \in Foreigns :
              \/ PatchForeignNode(h, f)
              \/ \E row \in ForeignRow : CreateForeignNode(h, f, row)
         \/ \E m \in Mappings :
              \/ PatchMapping(h, m) \/ DeleteMapping(h, m)
              \/ \E row \in MappingRow : CreateMapping(h, m, row)
              \/ \E x \in Names, p \in Ports :
                   \/ CreateMappingByName(h, m, x, p)
                   \/ \E n \in Nodes : CliMappingAdd(h, m, n, x, p)
         \/ \E r \in Routes :
              \/ PatchSni(h, r)
              \/ \E row \in SniRow : CreateSni(h, r, row)
              \/ \E n \in Nodes, x \in Names : CreateSniByName(h, r, n, x)

Spec == Init /\ [][Next]_vars

-----------------------------------------------------------------------------
(* Properties *)

\* Every row holds, field by field, what the last request that gave the field
\* said, names being meant as they stood when it was written: "Omitted fields
\* keep their stored values", across all callers, up to outdated reads.
OmittedFieldsKept == ~outdated => db = stated

\* The agent's SNI rules lead where the operator last sent them, although
\* backends are renamed and their old names given to others, provided that
\* nothing was changed since the reading began and the backend is on the node
\* (resolveSniBackends stores the id, haproxy.resolveBackend prefers it).
SniLeadsWhereSaved ==
    snap.at = "done" /\ ~snap.overlap /\ ~outdated =>
        \A r \in DOMAIN snap.sni :
            LET b == stated.sni[r].backend IN
            b \in DOMAIN snap.backends => ResolveBackend(snap.sni[r], snap.backends) = {b}

\* Every mapping an agent is given has its backend in the same desired state,
\* or the agent could never apply it ("backend address missing"), provided that
\* nothing was changed since the reading began and no caller asked for another
\* node's backend.
RulesHaveBackends ==
    snap.at = "done" /\ ~snap.overlap /\ ~crossed =>
        \A m \in DOMAIN snap.mappings : snap.mappings[m].backend \in DOMAIN snap.backends

-----------------------------------------------------------------------------
(* What the program says of itself, or one would expect, and does not hold *)

\* "Omitted fields keep their stored values." (MappingPatch, model/model.go:83): the
\* UPDATE of a PATCH changes only fields the PATCH gave.  But it writes the whole
\* row as merged before, and undoes what another PATCH has written since.
StoredValuesKept ==
    [][\A h \in Handlers :
         LET r == req[h] IN
         r.at = "put" /\ r.table = "mapping" /\ r.id \in Existing("mapping") /\ req'[h] = Free =>
             \A f \in DOMAIN db.mapping[r.id] \ DOMAIN r.patch :
                 db'.mapping[r.id][f] = db.mapping[r.id][f]]_vars

\* Saving an SNI route's form as it is shown leaves every rule leading where it
\* led, whatever was renamed since the route was saved.  But only the default rule
\* is shown with its backend's present name (sniMatchesText); the others post the
\* stored one, which resolveSniBackends looks up again.
FormKeepsBackend ==
    \A r \in Existing("sni"), default \in BOOLEAN : \A x \in SniFormText(db.sni[r], default) :
        GetBackendByName(x) \subseteq {db.sni[r].backend}
=============================================================================
