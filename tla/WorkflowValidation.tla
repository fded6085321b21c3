------------------------ MODULE WorkflowValidation ------------------------
(***************************************************************************)
(* validate_workflow: the head and the defaults of a document, its tasks   *)
(* in sorted order, then the search for a cycle.  The first rule that is   *)
(* broken raises an exception and ends it.                                 *)
(***************************************************************************)
EXTENDS CycleSearch, WorkflowSchema

CONSTANT Documents   \* the documents to validate

\* What json.loads can return, as far as the rules look into it.
Loaded(d) == d \in {Null, Wrong} \/ \E S \in Limited : d \in DocumentForm(S)

ASSUME DocumentsAssumption == \A d \in Documents : Loaded(d)

VARIABLES
  document,   \* as json.loads returns it
  defaults,   \* normalised
  normal,     \* the tasks normalised so far
  warned      \* tasks whose model the provider does not declare

validation == <<defaults, normal, warned>>
validationVars == <<searchVars, document, validation>>

Init ==
  /\ document \in Documents
  /\ phase = "head"
  /\ defaults = BuiltInDefaults /\ normal = <<>> /\ warned = {}
  /\ deps = <<>> /\ StartSearch

Reject == phase' = "rejected"

CheckHead ==
  /\ phase = "head"
  /\ \/ /\ HeadAccepted(document)
        /\ defaults' = NormalDefaults(document.defaults)
        /\ phase' = "tasks"
     \/ ~HeadAccepted(document) /\ Reject /\ UNCHANGED defaults
  /\ UNCHANGED <<document, deps, start, color, path, stack, cycle, normal, warned>>

Considered == Len(normal) + 1

NormalizeTask ==
  /\ phase = "tasks" /\ Considered <= Len(document.tasks)
  /\ LET task == document.tasks[Considered]
     IN \/ /\ TaskAccepted(task, Considered, Len(document.tasks), defaults)
           /\ normal' = Append(normal, NormalTask(task, defaults))
           /\ warned' = IF Known(task.route) THEN warned ELSE warned \cup {Considered}
           /\ UNCHANGED phase
        \/ /\ ~TaskAccepted(task, Considered, Len(document.tasks), defaults)
           /\ Reject
           /\ UNCHANGED <<normal, warned>>
  /\ UNCHANGED <<document, deps, start, color, path, stack, cycle, defaults>>

BeginSearch ==
  /\ phase = "tasks" /\ Considered > Len(document.tasks)
  /\ phase' = "search"
  /\ deps' = [i \in DOMAIN normal |-> normal[i].dependsOn]
  /\ color' = [i \in DOMAIN normal |-> "WHITE"]
  /\ UNCHANGED <<document, validation, start, path, stack, cycle>>

Search == SearchNext /\ UNCHANGED <<document, validation>>

Next == CheckHead \/ NormalizeTask \/ BeginSearch \/ Search

Spec == Init /\ [][Next]_validationVars

-----------------------------------------------------------------------------
Accepted == phase = "acyclic"

Normalised == [document EXCEPT !.schemaVersion = 1, !.defaults = defaults, !.tasks = normal]

HasNotFinite ==
  \/ defaults.timeoutSeconds \in NotFinite
  \/ \E i \in DOMAIN normal :
       {normal[i].timeoutSeconds, normal[i].retry.backoffSeconds} \cap NotFinite # {}

\* workflow.json, the normalised document that is stored and that a resume
\* works from, meets the published schema, whatever nulls and omissions the
\* author's document had; NaN and Infinity, which JSON does not have, apart.
NormalisedMeetsSchema == Accepted /\ ~HasNotFinite => SchemaDocument(Normalised)

\* Normalising is done once: what was accepted is accepted again, without
\* change, so that its digest does not depend on how often it was validated.
NormalisedIsFixpoint ==
  Accepted =>
    /\ HeadAccepted(Normalised) /\ NormalDefaults(defaults) = defaults
    /\ \A i \in DOMAIN normal :
         /\ TaskAccepted(normal[i], i, Len(normal), defaults)
         /\ NormalTask(normal[i], defaults) = normal[i]

\* The rest of what the scheduler takes for granted (WorkflowGraph), and what
\* the prompt of a dependent task needs: the artifacts it quotes are of tasks
\* it waits for.  No task goes to the host's own provider, and no write task
\* works in the shared checkout.
AcceptedIsSchedulable ==
  Accepted =>
    /\ IsCount(defaults.maxConcurrency)
    /\ \A p \in DOMAIN defaults.providerConcurrency : IsCount(defaults.providerConcurrency[p])
    /\ \A i \in DOMAIN normal :
         LET t == normal[i] IN
         /\ t.route.provider \notin Native
         /\ IsCount(t.retry.maxAttempts) /\ ToSet(t.retry.on) \subseteq Trigger
         /\ \A k \in DOMAIN t.contextFrom : t.contextFrom[k].task \in DependsOn(i)
         /\ t.mode = "write" => t.workspace \in {"isolated", "auto"}
         /\ i \in warned <=> t.route.model \notin DOMAIN Models(t.route.provider)

-----------------------------------------------------------------------------
(* What validation keeps true at every step, and rests on.                 *)

Searching == phase \in {"search", "cycle", "acyclic"}

HeadChecked == HeadAccepted(document) /\ defaults = NormalDefaults(document.defaults)

TasksChecked ==
  /\ Len(normal) <= Len(document.tasks)
  /\ \A i \in DOMAIN normal :
       /\ TaskAccepted(document.tasks[i], i, Len(document.tasks), defaults)
       /\ normal[i] = NormalTask(document.tasks[i], defaults)
  /\ warned = {i \in DOMAIN normal : ~Known(document.tasks[i].route)}

\* What is normalised was accepted, and the search goes through all of it.
ValidationInductive ==
  /\ Loaded(document) /\ normal \in Seq(TaskForm)
  /\ phase \in {"head", "tasks", "rejected"} \/ Searching
  /\ phase = "head" => normal = <<>> /\ warned = {}
  /\ phase = "tasks" \/ Searching => HeadChecked /\ TasksChecked
  /\ Searching => /\ Len(normal) = Len(document.tasks)
                  /\ deps = [i \in DOMAIN normal |-> normal[i].dependsOn]
  /\ ~Searching => deps = <<>> /\ StartSearch
  /\ SearchInductive
=============================================================================
