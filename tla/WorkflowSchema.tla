--------------------------- MODULE WorkflowSchema ---------------------------
(***************************************************************************)
(* schemas/workflow.schema.json: what the documents of the repository are  *)
(* checked against, stated without reference to workflow.py.               *)
(***************************************************************************)
EXTENDS DocumentRules

Optional(v, allowed) == v = Absent \/ allowed
PositiveLimit(v) == IsInteger(v) /\ v > 0
Delay(v) == IsInteger(v) /\ v >= 0
InWorkspace(v) == v \in Workspace
Object(v) == v \notin {Absent, Null, Wrong} /\ ~v.extra
Array(v) == v \notin {Absent, Null, Wrong}

SchemaRoute(r) == Object(r) /\ IsText(r.provider) /\ IsText(r.model) /\ Optional(r.effort, IsText(r.effort))

SchemaPrompt(p) ==
  /\ Object(p)
  /\ Cardinality({f \in {"file", "text"} : p[f] # Absent}) = 1
  /\ Optional(p.file, IsText(p.file)) /\ Optional(p.text, IsText(p.text))

SchemaRetry(r) ==
  /\ Object(r)
  /\ Optional(r.maxAttempts, IsCount(r.maxAttempts)) /\ Optional(r.backoffSeconds, Delay(r.backoffSeconds))
  /\ r.on = Absent \/ (Array(r.on) /\ ToSet(r.on) \subseteq Trigger /\ NoDuplicates(r.on))

SchemaEntry(e) ==
  Object(e) /\ IsInteger(e.task) /\ e.artifact \in Artifact /\ Optional(e.maxBytes, IsCount(e.maxBytes))

SchemaTask(t) ==
  /\ Object(t)
  /\ SchemaRoute(t.route) /\ t.mode \in {"read", "write"} /\ SchemaPrompt(t.prompt)
  /\ t.dependsOn = Absent \/ (Array(t.dependsOn) /\ NoDuplicates(t.dependsOn))
  /\ t.contextFrom = Absent \/
       (Array(t.contextFrom) /\ \A i \in DOMAIN t.contextFrom : SchemaEntry(t.contextFrom[i]))
  /\ Optional(t.timeoutSeconds, PositiveLimit(t.timeoutSeconds)) /\ Optional(t.workspace, InWorkspace(t.workspace))
  /\ Optional(t.retry, SchemaRetry(t.retry))
  /\ t.verify = Absent \/
       (Array(t.verify) /\ \A i \in DOMAIN t.verify :
          Array(t.verify[i]) /\ t.verify[i] # <<>> /\ \A k \in DOMAIN t.verify[i] : IsText(t.verify[i][k]))

SchemaDefaults(d) ==
  /\ Object(d)
  /\ Optional(d.maxConcurrency, IsCount(d.maxConcurrency))
  /\ d.providerConcurrency = Absent \/
       (Array(d.providerConcurrency) /\
        \A p \in DOMAIN d.providerConcurrency : IsCount(d.providerConcurrency[p]))
  /\ Optional(d.timeoutSeconds, PositiveLimit(d.timeoutSeconds)) /\ Optional(d.workspace, InWorkspace(d.workspace))
  /\ d.failurePolicy \in FailurePolicy \cup {Absent}

SchemaDocument(doc) ==
  /\ Object(doc) /\ doc.schemaVersion = 1
  /\ IsText(doc.name) /\ doc.name # "overlong"
  /\ Optional(doc.defaults, SchemaDefaults(doc.defaults))
  /\ Array(doc.tasks) /\ doc.tasks # <<>> /\ ~doc.misnamed
  /\ \A i \in DOMAIN doc.tasks : SchemaTask(doc.tasks[i])
=============================================================================
