------------------------------ MODULE Schemas ------------------------------
(***************************************************************************)
(* Schemas and global fields.  A schema claims fields; a node has types,   *)
(* which are names of schemas, and values of fields, claimed or orphan.    *)
(* The tools change schemas and fields in a transaction, render the YAML    *)
(* files of the catalog and the files of the nodes concerned, and can be    *)
(* undone.                                                                  *)
(*                                                                          *)
(* A tool call runs to its end without awaiting, so it is one step; its     *)
(* intermediate states are worlds [db, vault, snaps, ok].  A transaction    *)
(* that is rolled back restores db, never vault.                            *)
(***************************************************************************)
EXTENDS Validation

CONSTANTS
  NodeIds,             \* the node ids, in the order of the database's index
  Types,               \* node -> its types, in order
  SchemaNames, FieldNames,
  NoSchema, NoField, NoFile, NoHash, Edited, Nothing, Catalog,
  Start,               \* [fields, claims, rows] the database begins with
  FieldInputs,         \* the definitions given to create- and update-global-field
  ClaimInputs,         \* the claims given to create- and update-schema
  ValueInputs,         \* the values given to update-node
  MaxChanges           \* bound of the model: operations and changes of catalog files together

Nodes == ToSet(NodeIds)
CatalogFiles == SchemaNames \cup {Catalog}      \* Catalog is _fields.yaml

FieldDefs == [type : FieldTypes, item : FieldTypes, enums : Seq(Texts),
              required : BOOLEAN, dflt : Values, open : BOOLEAN]
Claim == [required : SUBSET BOOLEAN, dflt : SUBSET Values, enums : SUBSET Seq(Texts)]
ClaimsOf(S) == [S -> Claim]
Rows == [Nodes -> [FieldNames -> Values]]

\* What the YAML files hold: of a schema that claims S, or of all fields when they are S.
RenderingsOf(S) ==
  [claims : ClaimsOf(S), inlined : [S -> [type : FieldTypes, item : FieldTypes, enums : Seq(Texts)]]]
  \cup [S -> FieldDefs]

ASSUME SchemaConstants ==
  /\ NodeIds \in Seq(Nodes) /\ \A i, j \in DOMAIN NodeIds : NodeIds[i] = NodeIds[j] => i = j
  /\ Types \in [Nodes -> Seq(SchemaNames)] /\ MaxChanges \in Nat
  /\ Catalog \notin SchemaNames
  /\ SchemaNames \cap FieldNames = {} /\ Nodes \cap (SchemaNames \cup FieldNames) = {}
  /\ \A S \in SUBSET FieldNames : NoSchema \notin ClaimsOf(S)
                                /\ \A x \in {NoFile, NoHash, Edited} : x \notin RenderingsOf(S)
  /\ NoFile # NoHash /\ Edited \notin {NoFile, NoHash} /\ NoField \notin FieldDefs
  /\ Nothing \notin [was : [FieldNames -> Values], post : [FieldNames -> Values]]
  /\ FieldInputs \subseteq FieldDefs /\ ValueInputs \subseteq Values
  /\ \A c \in ClaimInputs : \E S \in SUBSET FieldNames : c \in ClaimsOf(S)
  /\ Start.fields \in [FieldNames -> FieldDefs \cup {NoField}] /\ Start.rows \in Rows
  /\ Start.claims = [s \in SchemaNames |-> Start.claims[s]]
  /\ \A s \in SchemaNames : \/ Start.claims[s] = NoSchema
                           \/ \E S \in SUBSET {f \in FieldNames : Start.fields[f] # NoField} :
                                Start.claims[s] \in ClaimsOf(S)

VARIABLES
  db,       \* fields, claims, rows (node -> field -> value), hash (content_hash), marks (schema_file_hashes)
  vault,    \* notes: the files of the nodes; catalog: the YAML files
  log,      \* undo_operations with their snapshots
  edits,    \* counter of the bound
  answer    \* tool and outcome of the last call

vars == <<db, vault, log, edits, answer>>

\* A schema that does not exist claims nothing.
Claims(d) == [s \in SchemaNames |-> IF d.claims[s] = NoSchema THEN <<>> ELSE d.claims[s]]
Fields(d) == [f \in {g \in FieldNames : d.fields[g] # NoField} |-> d.fields[f]]
Context(d) == [fields |-> Fields(d), claims |-> Claims(d)]     \* loadSchemaContext

\* The YAML of a schema: its claims with the definitions of the fields inlined.
RenderedSchema(d, s) ==
  [claims |-> d.claims[s],
   inlined |-> [f \in DOMAIN d.claims[s] |->
      [type |-> d.fields[f].type, item |-> d.fields[f].item, enums |-> d.fields[f].enums]]]

Rendered(d, file) == IF file = Catalog THEN Fields(d) ELSE RenderedSchema(d, file)

Init ==
  /\ db = [fields |-> Start.fields, claims |-> Start.claims, rows |-> Start.rows,
           hash |-> Start.rows,
           marks |-> [file \in CatalogFiles |->
              IF file = Catalog \/ Start.claims[file] # NoSchema THEN Rendered(Start, file) ELSE NoHash]]
  /\ vault = [notes |-> Start.rows,
              catalog |-> [file \in CatalogFiles |->
                 IF db.marks[file] = NoHash THEN NoFile ELSE db.marks[file]]]
  /\ log = <<>> /\ edits = 0
  /\ answer = [tool |-> "none", ok |-> TRUE]

-----------------------------------------------------------------------------
(* Worlds *)

NoSnaps == [n \in Nodes |-> Nothing]
Here == [db |-> db, vault |-> vault, snaps |-> NoSnaps, ok |-> TRUE]
Refused(w) == [w EXCEPT !.ok = FALSE]

\* `old` with the entries of `new`.
Over(new, old) ==
  [x \in DOMAIN new \cup DOMAIN old |-> IF x \in DOMAIN new THEN new[x] ELSE old[x]]

\* Variant of Due for testing EditedCatalogKept: the hash of the file is not looked at.
DueAnyway(w, file) == file = Catalog \/ w.db.claims[file] # NoSchema

\* A catalog entry is rendered unless its file was edited since it was rendered.
Due(w, file) ==
  /\ file = Catalog \/ w.db.claims[file] # NoSchema
  /\ w.db.marks[file] = NoHash \/ w.vault.catalog[file] \in {NoFile, w.db.marks[file]}

\* Variant of RenderFiles for testing CatalogFollows: the schemas are not rendered.
RenderFieldsFile(w, files) ==
  IF ~Due(w, Catalog) THEN w
  ELSE [w EXCEPT !.vault.catalog[Catalog] = Rendered(w.db, Catalog), !.db.marks[Catalog] = Rendered(w.db, Catalog)]

RenderFiles(w, files) ==
  LET new == [file \in {g \in files : Due(w, g)} |-> Rendered(w.db, file)]
  IN [w EXCEPT !.vault.catalog = Over(new, @), !.db.marks = Over(new, @)]

RenderFile(w, file) == RenderFiles(w, {file})

\* Variant of DeleteSchemaFile for testing SchemasTypeOK: the mark stays.
DeleteSchemaFileMarked(w, s) ==
  IF w.db.marks[s] # NoHash /\ w.vault.catalog[s] \notin {NoFile, w.db.marks[s]} THEN w
  ELSE [w EXCEPT !.vault.catalog[s] = NoFile]

DeleteSchemaFile(w, s) ==
  IF w.db.marks[s] # NoHash /\ w.vault.catalog[s] \notin {NoFile, w.db.marks[s]} THEN w
  ELSE [w EXCEPT !.vault.catalog[s] = NoFile, !.db.marks[s] = NoHash]

\* Variant of Refuses for testing ValuesKept: propagation drops what does not fit.
RefusesTools(v, source) ==
  (source # "propagation" /\ v.invalid # {}) \/ (source = "tool" /\ v.missing # {})

\* Only a tool needs the required values.
Refuses(v, source) == v.invalid # {} \/ (source = "tool" /\ v.missing # {})

NoOp(w, n, state) == w.vault.notes[n] = state /\ w.db.hash[n] = state

(* executeMutation of some nodes, each on its own, for one of the sources "tool", *)
(* "propagation" and "undo": only a tool gets defaults, and undo leaves the files  *)
(* for later.  What is stored is what validation makes of the values.              *)
Mutate(w, nodes, values, source) ==
  LET v       == [n \in nodes |-> Validate(Context(w.db), Types[n], values[n], source # "tool")]
      refused == {n \in nodes : Refuses(v[n], source)}
      stored  == {n \in nodes \ refused : ~NoOp(w, n, v[n].state)}
      new     == [n \in stored |-> v[n].state]
  IN [w EXCEPT !.db.rows = Over(new, @), !.db.hash = Over(new, @),
               !.vault.notes = IF source = "undo" THEN @ ELSE Over(new, @),
               !.snaps = Over([n \in stored |-> [was |-> w.db.rows[n], post |-> new[n]]], @),
               !.ok = @ /\ refused = {}]

-----------------------------------------------------------------------------
(* Schemas *)

\* Every claim names a field and overrides only what the field allows.
ValidClaims(d, claims) ==
  \A f \in DOMAIN claims :
    /\ d.fields[f] # NoField
    /\ <<{}, {}, {}>> # <<claims[f].required, claims[f].dflt, claims[f].enums>> => d.fields[f].open
    /\ claims[f].enums # {} => d.fields[f].type = "enum" \/ (d.fields[f].type = "list" /\ d.fields[f].item = "enum")

\* A claim that is stated without its sort_order counts as changed: NULL comes back
\* from the table, and undefined from the caller.
DiffClaims(old, new, stated) ==
  [added   |-> DOMAIN new \ DOMAIN old,
   removed |-> DOMAIN old \ DOMAIN new,
   changed |-> {f \in DOMAIN new \cap DOMAIN old : stated \/ new[f] # old[f]}]

\* Variant of Adopted for testing AcceptedFits: no defaults.
AdoptedNothing(d, n, added) == d.rows[n]

\* The values that a node gets for claims that are new to it.
Adopted(d, n, added) ==
  [f \in FieldNames |->
     IF /\ f \in added /\ d.rows[n][f] = NoValue
        /\ EffectiveRequired(Context(d), Types[n], f)
       THEN EffectiveDefault(Context(d), Types[n], f)
       ELSE d.rows[n][f]]

\* Nodes that fail are collected: the others are written, and then the
\* transaction ends.
PropagateSchemaChange(w, s, diff) ==
  LET affected == IF diff.added \cup diff.removed \cup diff.changed = {} THEN {}
                  ELSE {n \in Nodes : s \in ToSet(Types[n])}
  IN Mutate(w, affected, [n \in Nodes |-> Adopted(w.db, n, diff.added)], "propagation")

UpdateSchemaDefinition(w, s, claims) ==
  IF ValidClaims(w.db, claims) THEN [w EXCEPT !.db.claims[s] = claims] ELSE Refused(w)

\* Values of fields that the schema claims no longer.
WouldOrphan(d, s, removed) ==
  \E n \in Nodes, f \in removed : s \in ToSet(Types[n]) /\ d.rows[n][f] # NoValue

\* Variant of PreviewSchemaChange for testing RejectedChangesNothing: it looks at the claims only.
PreviewClaims(w, s, claims) == UpdateSchemaDefinition(w, s, claims)

PreviewSchemaChange(w, s, claims) ==
  LET changed == UpdateSchemaDefinition(w, s, claims)
  IN IF changed.ok THEN PropagateSchemaChange(changed, s, DiffClaims(w.db.claims[s], claims, FALSE))
     ELSE changed

-----------------------------------------------------------------------------
(* Tool calls.  A call that fails in its transaction ends with the world of   *)
(* before, except for the node files it has written.                          *)

RolledBack(w) == [Here EXCEPT !.vault = w.vault, !.ok = FALSE]

\* The operation of a call keeps what was there; `name` is the schema or field.
Operation(tool, name, from, w) ==
  [tool |-> tool, name |-> name, from |-> from, was |-> db, left |-> w.db, snaps |-> w.snaps, status |-> "active"]

Reply(tool, name, w) ==
  /\ db' = w.db /\ vault' = w.vault
  /\ answer' = [tool |-> tool, ok |-> w.ok, name |-> name]
  /\ UNCHANGED edits

\* A call that committed is in the log, whether what follows the commit fails or not.
Committed(tool, name, from, w) ==
  /\ Len(log) + edits < MaxChanges
  /\ log' = Append(log, Operation(tool, name, from, w))
  /\ Reply(tool, name, w)

Rejected(tool, name, w) == UNCHANGED log /\ Reply(tool, name, RolledBack(w))

CreateSchema(s, claims) ==
  LET w == UpdateSchemaDefinition(Here, s, claims) IN
  /\ db.claims[s] = NoSchema /\ w.ok
  /\ Committed("create-schema", s, s, RenderFile(w, s))

\* With `stated`, field_claims gives all claims anew; otherwise the claims that
\* stay come from the table and are patched.  What would orphan values is refused unless
\* the call confirms it.
UpdateSchema(s, claims) ==
  LET preview == PreviewSchemaChange(Here, s, claims)
  IN /\ db.claims[s] # NoSchema
     /\ \/ ~preview.ok /\ Rejected("update-schema", s, Here)
        \/ /\ preview.ok
           /\ \E stated \in BOOLEAN :
                LET diff == DiffClaims(db.claims[s], claims, stated)
                    w    == PropagateSchemaChange(UpdateSchemaDefinition(Here, s, claims), s, diff)
                IN \/ WouldOrphan(db, s, diff.removed) /\ Rejected("update-schema", s, Here)
                   \/ IF w.ok THEN Committed("update-schema", s, s, RenderFile(w, s))
                      ELSE Rejected("update-schema", s, w)

\* The nodes of the schema keep their values, and their files.
DeleteSchema(s) ==
  /\ db.claims[s] # NoSchema
  /\ Committed("delete-schema", s, s, DeleteSchemaFile([Here EXCEPT !.db.claims[s] = NoSchema], s))

-----------------------------------------------------------------------------
(* Global fields *)

Claiming(d, f) == {s \in SchemaNames : f \in DOMAIN Claims(d)[s]}
Holding(d, f) == {n \in Nodes : d.rows[n][f] # NoValue}

\* rerenderNodesWithField: outside of any transaction, in the order of the ids but
\* with those that are passed in addition last, it stops at the first failure.
RerenderNodes(w, nodes, last) ==
  LET Fails(n) == n \in nodes /\ Validate(Context(w.db), Types[n], w.db.rows[n], TRUE).invalid # {}
      Earlier(i, j) == IF NodeIds[i] \in last <=> NodeIds[j] \in last THEN i < j ELSE NodeIds[j] \in last
      reached  == {n \in nodes : \A i, j \in DOMAIN NodeIds :
                     Earlier(i, j) /\ NodeIds[j] = n => ~Fails(NodeIds[i])}
  IN Mutate(w, reached, w.db.rows, "propagation")

\* The node snapshots of an operation on a field: none.
Unsnapped(w) == [w EXCEPT !.snaps = NoSnaps]

CreateGlobalField(f, def) ==
  /\ db.fields[f] = NoField
  /\ Committed("create-global-field", f, f, RenderFile([Here EXCEPT !.db.fields[f] = def], Catalog))

\* Nothing looks at the values of the nodes; they are rendered again only if the
\* call confirms a change of type that is none.
UpdateDefinition(f, def, confirmed) ==
  LET changed  == RenderFiles([Here EXCEPT !.db.fields[f] = def], {Catalog} \cup Claiming(db, f))
      rendered == IF confirmed THEN RerenderNodes(changed, Holding(db, f), {}) ELSE changed
  IN /\ db.fields[f] # NoField /\ db.fields[f].type = def.type
     /\ Committed("update-global-field", f, f, Unsnapped(rendered))

\* A confirmed change of type converts the values and drops those that it cannot
\* convert, if the caller says so; `required` and the default stay.
ChangeFieldType(f, def, discard) ==
  LET old     == db.fields[f]
      new     == [old EXCEPT !.type = def.type, !.item = def.item, !.enums = def.enums]
      holding == Holding(db, f)
      lost    == {n \in holding : Coerce(db.rows[n][f], new, new.enums) = NoValue}
      applied == [Here EXCEPT !.db.fields[f] = new,
                    !.db.rows = [n \in Nodes |-> IF n \in holding
                       THEN [db.rows[n] EXCEPT ![f] = Coerce(@, new, new.enums)] ELSE db.rows[n]]]
      w == RenderFiles(applied, {Catalog} \cup Claiming(db, f))
  IN /\ old # NoField /\ old.type # def.type
     /\ IF lost # {} /\ ~discard THEN Rejected("update-global-field", f, Here)
        ELSE Committed(IF lost = {} THEN "update-global-field" ELSE "discard", f, f,
                       Unsnapped(RerenderNodes(w, holding, lost)))

\* Primary keys: a field of that name, or a node with values under both names, refuses it.
RenameGlobalField(f, g) ==
  LET Moved(fn) == [h \in (DOMAIN fn \ {f}) \cup {g} |-> fn[IF h = g THEN f ELSE h]]
      renamed == [Here EXCEPT
        !.db.fields = [db.fields EXCEPT ![g] = db.fields[f], ![f] = NoField],
        !.db.claims = [s \in SchemaNames |-> IF s \in Claiming(db, f) THEN Moved(db.claims[s]) ELSE db.claims[s]],
        !.db.rows   = [n \in Nodes |-> IF n \in Holding(db, f)
                         THEN [db.rows[n] EXCEPT ![g] = db.rows[n][f], ![f] = NoValue] ELSE db.rows[n]]]
      w == RenderFiles(renamed, {Catalog} \cup Claiming(db, f))
  IN /\ f # g /\ db.fields[f] # NoField
     /\ IF db.fields[g] # NoField \/ Holding(db, f) \cap Holding(db, g) # {}
          THEN Rejected("rename-global-field", g, Here)
          ELSE Committed("rename-global-field", g, f, Unsnapped(RerenderNodes(w, Holding(renamed.db, g), {})))

DeleteGlobalField(f) ==
  LET claiming == Claiming(db, f)
      deleted == [Here EXCEPT !.db.fields[f] = NoField,
        !.db.claims = [s \in SchemaNames |-> IF s \in claiming
           THEN [h \in DOMAIN db.claims[s] \ {f} |-> db.claims[s][h]] ELSE db.claims[s]]]
  IN /\ db.fields[f] # NoField
     /\ Committed("delete-global-field", f, f, RenderFiles(deleted, {Catalog} \cup claiming))

\* update-node with one field; null takes the value away.
SetField(n, f, value) ==
  LET w == Mutate(Here, {n}, [db.rows EXCEPT ![n][f] = value], "tool")
      required == f \in EffectiveFields(Context(db), Types[n]) /\ EffectiveRequired(Context(db), Types[n], f)
  IN IF ~w.ok \/ (value = NoValue /\ required) THEN Rejected("update-node", n, Here)
     ELSE w.snaps # NoSnaps /\ Committed("update-node", n, n, w)

-----------------------------------------------------------------------------
(* undo-operations, for one operation *)

\* deleteFieldState
Without(d, names) ==
  [d EXCEPT !.fields = [f \in FieldNames |-> IF f \in names THEN NoField ELSE d.fields[f]],
            !.claims = [s \in SchemaNames |-> IF d.claims[s] = NoSchema THEN NoSchema
                          ELSE [f \in DOMAIN d.claims[s] \ names |-> d.claims[s][f]]],
            !.rows = [n \in Nodes |-> [f \in FieldNames |-> IF f \in names THEN NoValue ELSE d.rows[n][f]]]]

\* Variant of RestoreSchema for testing UndoRestores: the claims made since stay.
RestoreSchemaClaims(w, op) ==
  LET s == op.name IN
  IF op.tool = "create-schema" THEN [w EXCEPT !.db.claims[s] = NoSchema, !.db.marks[s] = NoHash]
  ELSE IF \E f \in DOMAIN op.was.claims[s] : w.db.fields[f] = NoField THEN Refused(w)
  ELSE [w EXCEPT !.db.claims[s] = Over(op.was.claims[s], Claims(w.db)[s])]

\* Foreign keys: claims need their fields, and schemas.
RestoreSchema(w, op) ==
  LET s == op.name IN
  IF op.tool = "create-schema" THEN [w EXCEPT !.db.claims[s] = NoSchema, !.db.marks[s] = NoHash]
  ELSE IF \E f \in DOMAIN op.was.claims[s] : w.db.fields[f] = NoField THEN Refused(w)
  ELSE [w EXCEPT !.db.claims[s] = op.was.claims[s]]

RestoreGlobalField(w, op) ==
  LET cleared  == Without(w.db, {op.name, op.from})
      claiming == Claiming(op.was, op.from)
  IN IF op.tool = "create-global-field" THEN [w EXCEPT !.db = Without(w.db, {op.name})]
     ELSE IF \E s \in claiming : w.db.claims[s] = NoSchema THEN Refused(w)
     ELSE [w EXCEPT !.db = [cleared EXCEPT
             !.fields[op.from] = op.was.fields[op.from],
             !.claims = [s \in SchemaNames |-> IF s \in claiming
                           THEN Over([f \in {op.from} |-> op.was.claims[s][f]], cleared.claims[s])
                           ELSE cleared.claims[s]],
             !.rows = [n \in Nodes |-> [cleared.rows[n] EXCEPT ![op.from] = op.was.rows[n][op.from]]]]]

OfSchema(op) == op.name \in SchemaNames
OfField(op) == op.name \in FieldNames

\* Variant of RestoreFiles for testing FilesFollowRows: the nodes are not rendered.
RestoreFilesCatalog(w, op, before, written) ==
  IF op.tool = "create-schema" THEN [w EXCEPT !.vault.catalog[op.name] = NoFile]
  ELSE RenderFiles(w, IF OfSchema(op) THEN {op.name}
                      ELSE {Catalog} \cup Claiming(op.was, op.from) \cup Claiming(before, op.name))

\* The files of nodes: the values that the row holds, less those that do not fit.
RenderRestoredNodes(w, nodes) ==
  [w EXCEPT !.vault.notes =
     Over([n \in nodes |-> Validate(Context(w.db), Types[n], w.db.rows[n], TRUE).state], @)]

\* After the transaction: the catalog, the nodes that held the field, then and now,
\* and the nodes that were put back.
RestoreFiles(w, op, before, written) ==
  LET catalog == CASE op.tool = "create-schema" -> [w EXCEPT !.vault.catalog[op.name] = NoFile]
                   [] op.tool # "create-schema" /\ OfSchema(op) -> RenderFile(w, op.name)
                   [] OfField(op) -> RenderFiles(w, {Catalog} \cup Claiming(op.was, op.from)
                                                            \cup Claiming(before, op.name))
                   [] OTHER -> w
      holding == IF ~OfField(op) THEN {}
                 ELSE Holding(before, op.name) \cup
                      (IF op.tool = "create-global-field" THEN {} ELSE Holding(op.was, op.from))
  IN RenderRestoredNodes(catalog, holding \cup written)

\* A node that was changed since, or has a snapshot in a later operation.
Conflicted(i) ==
  {n \in Nodes : log[i].snaps[n] # Nothing /\
     \/ db.hash[n] # log[i].snaps[n].post
     \/ \E j \in (i + 1)..Len(log) : log[j].status = "active" /\ log[j].snaps[n] # Nothing}

UndoOperation(i, reverted) ==
  LET op    == log[i]
      todo  == {n \in Nodes : op.snaps[n] # Nothing} \ (Conflicted(i) \ reverted)
      outer == CASE OfSchema(op) -> RestoreSchema(Here, op)
                 [] OfField(op)  -> RestoreGlobalField(Here, op)
                 [] OTHER        -> Here
      w     == IF outer.ok THEN Mutate(outer, todo, [n \in todo |-> op.snaps[n].was], "undo") ELSE outer
  IN /\ op.status = "active" /\ reverted \subseteq Conflicted(i)
     /\ IF w.ok THEN /\ log' = [log EXCEPT ![i].status = "undone"]
                     /\ Reply("undo", i, RestoreFiles(w, op, db, todo))
        ELSE Rejected("undo", i, Here)

-----------------------------------------------------------------------------
(* Users and the watcher *)

Quiet(what) == answer' = [tool |-> what, ok |-> TRUE] /\ UNCHANGED log

\* A user edits or erases a file of the catalog, or puts back what was rendered.
EditCatalog(file, content) ==
  /\ vault.catalog[file] # content /\ content # NoHash
  /\ edits' = edits + (IF content = db.marks[file] THEN 0 ELSE 1) /\ Len(log) + edits' <= MaxChanges
  /\ vault' = [vault EXCEPT !.catalog[file] = content]
  /\ Quiet("edit") /\ UNCHANGED db

\* startupSchemaRender: what is missing, what has no mark, and always the fields.
Startup ==
  LET files == {s \in SchemaNames : db.marks[s] = NoHash \/ vault.catalog[s] = NoFile}
      w == RenderFiles(Here, files \cup {Catalog})
  IN /\ db' = w.db /\ vault' = w.vault
     /\ Quiet("none") /\ UNCHANGED edits

\* The watcher reads a file that is not what the row remembers; values that do not
\* fit are kept as they are in the row.
ProcessFileChange(n) ==
  LET v == Validate(Context(db), Types[n], vault.notes[n], FALSE)
  IN /\ vault.notes[n] # db.hash[n]
     /\ db' = [db EXCEPT !.hash[n] = vault.notes[n],
                 !.rows[n] = [f \in FieldNames |->
                    IF f \in v.invalid \cup v.missing THEN @[f] ELSE v.state[f]]]
     /\ Quiet("none") /\ UNCHANGED <<vault, edits>>

Next ==
  \/ \E s \in SchemaNames, c \in ClaimInputs :
       CreateSchema(s, c) \/ UpdateSchema(s, c)
  \/ \E s \in SchemaNames : DeleteSchema(s)
  \/ \E f \in FieldNames, def \in FieldInputs :
       \/ CreateGlobalField(f, def)
       \/ \E confirmed \in BOOLEAN : UpdateDefinition(f, def, confirmed) \/ ChangeFieldType(f, def, confirmed)
  \/ \E f, g \in FieldNames : RenameGlobalField(f, g)
  \/ \E f \in FieldNames : DeleteGlobalField(f)
  \/ \E n \in Nodes, f \in FieldNames, v \in ValueInputs \cup {NoValue} : SetField(n, f, v)
  \/ \E i \in DOMAIN log, reverted \in SUBSET Nodes : UndoOperation(i, reverted)
  \/ \E file \in CatalogFiles : \E content \in {Edited, NoFile, db.marks[file]} : EditCatalog(file, content)
  \/ Startup
  \/ \E n \in Nodes : ProcessFileChange(n)

Spec == Init /\ [][Next]_vars

-----------------------------------------------------------------------------
(* Properties *)

\* Every claim is one of a field that exists, and as long as no user touches the
\* catalog, the schemas that exist are those with a file that has its mark.
SchemasTypeOK ==
  /\ \A s \in SchemaNames : DOMAIN Claims(db)[s] \subseteq DOMAIN Fields(db)
  /\ \A n \in Nodes, f \in FieldNames : db.rows[n][f] \in Values /\ vault.notes[n][f] \in Values
  /\ edits = 0 => \A s \in SchemaNames :
       IF db.claims[s] = NoSchema THEN db.marks[s] = NoHash /\ vault.catalog[s] = NoFile
       ELSE db.marks[s] = vault.catalog[s] /\ db.marks[s] # NoHash

Fits(d, n) == Validate(Context(d), Types[n], d.rows[n], TRUE).invalid = {}

\* The values are what validation makes of them.
Canonical(d, n) == Validate(Context(d), Types[n], d.rows[n], TRUE).state = d.rows[n]

\* A call that is refused has changed nothing, unless it says that it failed after
\* its operation was committed (the operation is in the log), or a node had a value
\* that did not fit its field before the call: then files may have been written.
RejectedChangesNothing ==
  [][~answer'.ok /\ log' = log =>
       db' = db /\ ((\A n \in Nodes : Fits(db, n)) => vault' = vault)]_vars

\* update-schema, whose preview is said to see what the commit will do, writes no
\* file of a node when it is refused.
PreviewHolds == [][answer'.tool = "update-schema" /\ ~answer'.ok => vault' = vault]_vars

\* After an accepted change of its claims, every node of the schema has values
\* that fit their fields, and a value for each newly claimed required field
\* that has a default; but a node whose file has one already may be taken for
\* unchanged, whatever its row says.
AcceptedFits ==
  [][answer'.tool = "update-schema" /\ answer'.ok /\ log' # log =>
       \A n \in Nodes : answer'.name \in ToSet(Types[n]) =>
         LET s == answer'.name
             new == DOMAIN db'.claims[s] \ DOMAIN db.claims[s]
         IN /\ db'.claims[s] # db.claims[s] => Fits(db', n)
            /\ \A f \in new : EffectiveRequired(Context(db'), Types[n], f)
                              /\ EffectiveDefault(Context(db'), Types[n], f) # NoValue
                                 => db'.rows[n][f] # NoValue \/ vault.notes[n][f] # NoValue]_vars

Held(d) == {h \in Nodes \X FieldNames : d.rows[h[1]][h[2]] # NoValue}

\* A value of a node goes away only when a user takes it away or confirms that
\* values be discarded, an operation is taken back, or the file of the node does
\* not say it; a rename carries it along.
ValuesKept ==
  [][answer'.tool \notin {"update-node", "undo", "discard"} =>
       \A h \in Held(db) :
         \/ h \in Held(db')
         \/ answer'.tool = "rename-global-field" /\ <<h[1], answer'.name>> \in Held(db')
         \/ answer'.tool = "none" /\ vault.notes[h[1]][h[2]] = NoValue]_vars

\* In the step that takes back the renaming of a field: its old name.
OldName ==
  IF answer'.tool = "undo" /\ log[answer'.name].tool = "rename-global-field"
    THEN {log[answer'.name].from} ELSE {}

\* A call that succeeds leaves the files of nodes that said what the rows said
\* saying so, for rows that are what validation makes of them: the files that undo
\* renders say the validated values, which it does not put into the rows.  The undo of
\* a rename takes away the values that nodes got under the old name since.
FilesFollowRows ==
  [][answer'.ok /\ answer'.tool # "none" => \A n \in Nodes :
       \/ vault.notes[n] = db.rows[n] /\ Canonical(db', n) => vault'.notes[n] = db'.rows[n]
       \/ \E f \in OldName : db.rows[n][f] # NoValue]_vars

\* A file of the catalog that a user has edited is not overwritten, unless the
\* creation of the schema is taken back.
EditedCatalogKept ==
  [][\A file \in CatalogFiles : vault.catalog[file] = Edited /\ db.marks[file] # NoHash =>
       \/ vault'.catalog[file] = Edited \/ answer'.tool = "edit"
       \/ answer'.tool = "undo" /\ log[answer'.name].tool = "create-schema" /\ log[answer'.name].name = file]_vars

\* What the file of a catalog entry should be.
Wanted(d, file) == IF file # Catalog /\ d.claims[file] = NoSchema THEN NoFile ELSE Rendered(d, file)

\* Every call, done, refused or half done, and every start leaves the files of the catalog that say
\* what the database says saying so; but the undo of a rename removes the field that
\* has got the old name since, and looks at none of the schemas that claim it.
CatalogFollows ==
  [][answer'.tool # "edit" /\ (\A f \in OldName : db.fields[f] = NoField) => \A file \in CatalogFiles :
       vault.catalog[file] = Wanted(db, file) => vault'.catalog[file] = Wanted(db', file)]_vars

\* Taking back an operation that nothing is in conflict with, brings back the schemas,
\* the fields, and the values of before that were what validation makes of them,
\* but for the values that had no field before, under the name the operation gave.
UndoRestores ==
  [][answer'.tool = "undo" /\ answer'.ok /\ log' # log =>
       LET op == log[answer'.name]
           Unowned(n, f) == /\ op.tool \in {"create-global-field", "rename-global-field"}
                            /\ f = op.name /\ f \in Orphans(Context(op.was), Types[n], op.was.rows[n])
           Intact == /\ <<db.fields, db.claims, db.rows>> = <<op.left.fields, op.left.claims, op.left.rows>>
                     /\ Conflicted(answer'.name) = {}
       IN Intact =>
            /\ db'.fields = op.was.fields /\ db'.claims = op.was.claims
            /\ \A n \in Nodes : Canonical(op.was, n) =>
                 \A f \in FieldNames : Unowned(n, f) \/ db'.rows[n][f] = op.was.rows[n][f]]_vars
=============================================================================
