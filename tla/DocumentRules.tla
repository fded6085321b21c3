--------------------------- MODULE DocumentRules ---------------------------
(***************************************************************************)
(* The rules of workflow.py for the parts of a workflow document: which    *)
(* values each part may have, and the explicit form it is normalised to.   *)
(* A text is a member of a small set.  Task names stand for their position *)
(* in sorted order, 1, 2, ...  A part that is not accepted raises: a       *)
(* WorkflowError, or a TypeError where a list or an object is looked up in *)
(* a set of words (mode, artifact, workspace, failurePolicy).              *)
(***************************************************************************)
EXTENDS Integers, FiniteSets, Sequences, SequencesExt

CONSTANTS
  Absent,     \* the key is not there
  Null,       \* JSON null
  Wrong,      \* a value of a type the rule does not take
  NaN,        \* what json.loads makes of NaN
  Infinity,   \* and of Infinity, or of 1e999
  LikeOne,    \* true, or 1.0: equal to 1, and not the integer 1
  Catalog,    \* of each registered provider: unknown, models, efforts
  Native,     \* hosts.<host>.nativeProviders of the declared host
  Folded      \* the lower case of a spelling

Artifact == {"stdout", "stderr", "result", "patch", "diffstat"}
Trigger == {"timeout", "transport-error"}
Workspace == {"shared", "isolated", "auto"}
FailurePolicy == {"fail-fast", "continue"}

IsText(v) == v \notin {Absent, Null, Wrong, ""}
NotFinite == {NaN, Infinity}
IsInteger(v) == v \notin {Absent, Null, Wrong} \cup NotFinite
IsCount(v) == IsInteger(v) /\ v >= 1

\* Comparisons with NaN are false, and Infinity is above every limit, so that
\* neither test refuses them.
PositiveNumber(v) == v \in NotFinite \/ (IsInteger(v) /\ v > 0)
NonNegativeNumber(v) == v \in NotFinite \/ (IsInteger(v) /\ v >= 0)

Get(v, default) == IF v = Absent THEN default ELSE v
OrEmpty(v, empty) == IF v \in {Absent, Null} THEN empty ELSE v

NoDuplicates(s) == \A i, j \in DOMAIN s : s[i] = s[j] => i = j

\* sorted(set): each member of S once, in increasing order.
InOrder(S) ==
  CHOOSE s \in [1 .. Cardinality(S) -> S] :
    \A i, j \in 1 .. Cardinality(S) : i < j => s[i] < s[j]

-----------------------------------------------------------------------------
(* What json.loads may return for each part, as far as the rules look.     *)

\* The words that the rules put in themselves, or compare with, are texts too:
\* TLC knows, and for the provers it has to be said.
String == STRING \cup Workspace \cup FailurePolicy \cup {"inside"}

Marker == {Absent, Null, Wrong}
Number == Int \cup NotFinite \cup Marker
Text   == String \cup Marker
Listed(form) == Seq(form \cup {Null, Wrong})   \* no element of a list is absent

RouteForm == [extra : BOOLEAN, provider : Text, model : Text, effort : Text]
PromptForm == [extra : BOOLEAN, file : Text, text : Text]
RetryForm ==
  [extra : BOOLEAN, maxAttempts : Number, backoffSeconds : Number,
   on : Listed(String) \cup Marker]
EntryForm ==
  [extra : BOOLEAN, task : Int \cup Marker, artifact : Text, maxBytes : Number]
TaskForm ==
  [extra : BOOLEAN, route : RouteForm \cup Marker, mode : Text,
   prompt : PromptForm \cup Marker,
   dependsOn : Listed(Int) \cup Marker,
   contextFrom : Listed(EntryForm) \cup Marker,
   timeoutSeconds : Number, workspace : Text, retry : RetryForm \cup Marker,
   verify : Listed(Listed(String)) \cup Marker]

\* Sets of providers that limits are given for; "nobody" is any name that no
\* provider is registered under.
Limited == SUBSET (DOMAIN Catalog \cup {"nobody"})
DefaultsForm(S) ==
  [extra : BOOLEAN, maxConcurrency : Number,
   providerConcurrency : [S -> Number] \cup Marker, timeoutSeconds : Number,
   workspace : Text, failurePolicy : Text]
DocumentForm(S) ==
  [extra : BOOLEAN, schemaVersion : Number \cup {LikeOne}, name : Text, misnamed : BOOLEAN,
   defaults : DefaultsForm(S) \cup Marker,
   tasks : Listed(TaskForm) \cup Marker]

\* What stands for a missing key, for null, for a value of another type and
\* for a number that is not finite is none of the values that the rules look
\* into.
ASSUME MarkersAssumption ==
  /\ Absent # Null /\ Absent # Wrong /\ Null # Wrong
  /\ NaN \notin Marker /\ Infinity \notin Marker
  /\ LikeOne \notin Marker /\ LikeOne \notin Int
  /\ \A m \in Marker \cup NotFinite :
       /\ m \notin Int /\ m \notin String
       /\ m \notin RouteForm /\ m \notin PromptForm /\ m \notin RetryForm
       /\ m \notin EntryForm /\ m \notin TaskForm
       /\ m \notin Listed(Int) /\ m \notin Listed(String)
       /\ m \notin Listed(EntryForm) /\ m \notin Listed(Listed(String))
       /\ m \notin Listed(TaskForm)
       /\ \A S \in Limited :
            m \notin [S -> Number] /\ m \notin DefaultsForm(S) /\ m \notin DocumentForm(S)

\* load_registry: names of providers and of models, and efforts, are texts.
ASSUME CatalogAssumption ==
  \A p \in DOMAIN Catalog :
    /\ p \in String \ {""}
    /\ DOMAIN Catalog[p].models \subseteq String \ {""}
    /\ Catalog[p].efforts \subseteq String \ {""}

-----------------------------------------------------------------------------
(* _resolve_alias and _normalize_route.                                    *)

Models(provider) == Catalog[provider].models

\* Aliases are compared without regard to case, identifiers are not.
AliasOf(provider, model) ==
  {m \in DOMAIN Models(provider) :
     \E alias \in Models(provider)[m].aliases : Folded[alias] = Folded[model]}

Canonical(provider, model) ==
  IF model \notin DOMAIN Models(provider) /\ AliasOf(provider, model) # {}
  THEN CHOOSE m \in AliasOf(provider, model) : TRUE
  ELSE model

Known(route) == Canonical(route.provider, route.model) \in DOMAIN Models(route.provider)

EffortAllowed(route) ==
  /\ route.effort \in Catalog[route.provider].efforts
  /\ Known(route) =>
       LET own == Models(route.provider)[Canonical(route.provider, route.model)].efforts
       IN own = {} \/ route.effort \in own

\* Variant with a mistake: the host's own providers are not refused.
RouteAcceptedWhereverItGoes(route) ==
  /\ route \notin {Absent, Null, Wrong}
  /\ ~route.extra
  /\ route.provider \in DOMAIN Catalog
  /\ IsText(route.model)
  /\ Known(route) \/ Catalog[route.provider].unknown
  /\ route.effort \in {Absent, Null} \/ EffortAllowed(route)

RouteAccepted(route) ==
  /\ route \notin {Absent, Null, Wrong}
  /\ ~route.extra
  /\ route.provider \in DOMAIN Catalog \ Native
  /\ IsText(route.model)
  /\ Known(route) \/ Catalog[route.provider].unknown
  /\ route.effort \in {Absent, Null} \/ EffortAllowed(route)

\* Variant with a mistake: an effort of null stays in the document.
NormalRouteWithNull(route) ==
  [route EXCEPT !.model = Canonical(route.provider, route.model)]

NormalRoute(route) ==
  [route EXCEPT !.model = Canonical(route.provider, route.model),
                !.effort = OrEmpty(@, Absent)]

-----------------------------------------------------------------------------
(* _validate_prompt: exactly one of text and file, the file a regular one  *)
(* that lies below the directory of the document.                          *)

PromptAccepted(prompt) ==
  /\ prompt \notin {Absent, Null, Wrong}
  /\ ~prompt.extra
  /\ \/ prompt.file = Absent /\ IsText(prompt.text)
     \/ prompt.text = Absent /\ prompt.file = "inside"

(* _normalize_retry.                                                       *)

NormalRetry(retry) ==
  IF retry \in {Absent, Null}
  THEN [extra |-> FALSE, maxAttempts |-> 1, backoffSeconds |-> 0, on |-> <<>>]
  ELSE [retry EXCEPT !.maxAttempts = Get(@, 1), !.backoffSeconds = Get(@, 0),
                     !.on = Get(@, <<>>)]

RetryAccepted(retry) ==
  retry # Wrong /\
  LET r == NormalRetry(retry) IN
  /\ ~r.extra
  /\ IsCount(r.maxAttempts)
  /\ NonNegativeNumber(r.backoffSeconds)
  /\ r.on \notin {Null, Wrong}
  /\ \A i \in DOMAIN r.on : r.on[i] \in Trigger
  /\ NoDuplicates(r.on)

(* _normalize_verify: argument vectors.                                    *)

VerifyAccepted(verify) ==
  /\ verify # Wrong
  /\ LET commands == OrEmpty(verify, <<>>) IN
     \A i \in DOMAIN commands :
       /\ commands[i] \notin {Null, Wrong, <<>>}
       /\ \A k \in DOMAIN commands[i] : IsText(commands[i][k])

(* _normalize_context_from: the artifacts of direct dependencies.          *)

NormalEntry(entry) == [entry EXCEPT !.maxBytes = Get(@, 50000)]

NormalContext(context) ==
  LET entries == OrEmpty(context, <<>>)
  IN [i \in DOMAIN entries |-> NormalEntry(entries[i])]

ContextAccepted(context, deps) ==
  /\ context # Wrong
  /\ LET entries == OrEmpty(context, <<>>) IN
     \A i \in DOMAIN entries :
       /\ entries[i] \notin {Null, Wrong} /\ ~entries[i].extra
       /\ entries[i].task \in deps
       /\ entries[i].artifact \in Artifact
       /\ IsCount(Get(entries[i].maxBytes, 50000))

-----------------------------------------------------------------------------
(* _normalize_task, with the defaults already normalised.                  *)

DependenciesAccepted(deps, self, count) ==
  /\ deps # Wrong
  /\ LET names == OrEmpty(deps, <<>>) IN
     /\ \A i \in DOMAIN names : names[i] \in (1 .. count) \ {self}
     /\ NoDuplicates(names)

\* Variant with a mistake: put in another order every time.
ReversedDependencies(deps) == Reverse(OrEmpty(deps, <<>>))

NormalDependencies(deps) == InOrder(ToSet(OrEmpty(deps, <<>>)))

TaskAccepted(task, self, count, defaults) ==
  /\ task \notin {Null, Wrong} /\ ~task.extra
  /\ task.mode \in {"read", "write"}
  /\ RouteAccepted(task.route)
  /\ PromptAccepted(task.prompt)
  /\ DependenciesAccepted(task.dependsOn, self, count)
  /\ ContextAccepted(task.contextFrom, ToSet(OrEmpty(task.dependsOn, <<>>)))
  /\ PositiveNumber(Get(task.timeoutSeconds, defaults.timeoutSeconds))
  /\ LET workspace == Get(task.workspace, defaults.workspace) IN
     workspace \in Workspace /\ ~(task.mode = "write" /\ workspace = "shared")
  /\ RetryAccepted(task.retry)
  /\ VerifyAccepted(task.verify)

NormalTask(task, defaults) ==
  [task EXCEPT
     !.route = NormalRoute(@),
     !.dependsOn = NormalDependencies(@),
     !.contextFrom = NormalContext(@),
     !.timeoutSeconds = Get(@, defaults.timeoutSeconds),
     !.workspace = Get(@, defaults.workspace),
     !.retry = NormalRetry(@),
     !.verify = OrEmpty(@, <<>>)]

-----------------------------------------------------------------------------
(* _normalize_defaults, and the head of the document.                      *)

BuiltInDefaults ==
  [extra |-> FALSE, maxConcurrency |-> 2, providerConcurrency |-> [p \in {} |-> 1],
   timeoutSeconds |-> 1140, workspace |-> "auto", failurePolicy |-> "fail-fast"]

NormalDefaults(raw) ==
  IF raw \in {Absent, Null} THEN BuiltInDefaults
  ELSE [f \in DOMAIN raw |->
          IF f = "providerConcurrency" THEN OrEmpty(raw[f], BuiltInDefaults[f])
                                       ELSE Get(raw[f], BuiltInDefaults[f])]

DefaultsAccepted(raw) ==
  raw # Wrong /\
  LET d == NormalDefaults(raw) IN
  /\ ~d.extra
  /\ IsCount(d.maxConcurrency)
  /\ d.providerConcurrency # Wrong
  /\ \A p \in DOMAIN d.providerConcurrency :
       p \in DOMAIN Catalog /\ IsCount(d.providerConcurrency[p])
  /\ PositiveNumber(d.timeoutSeconds)
  /\ d.workspace \in Workspace
  /\ d.failurePolicy \in FailurePolicy

HeadAccepted(document) ==
  /\ document \notin {Null, Wrong}
  /\ document.schemaVersion \in {1, LikeOne} /\ ~document.extra
  /\ IsText(document.name) /\ document.name # "overlong"
  /\ DefaultsAccepted(document.defaults)
  /\ document.tasks \notin {Absent, Null, Wrong, <<>>}
  /\ ~document.misnamed
=============================================================================
