---------------------------- MODULE MCValidation ----------------------------
(***************************************************************************)
(* Documents for TLC: every graph of four tasks, any two dependencies in   *)
(* any order for two or three tasks, and documents of two tasks in which   *)
(* one or two parts are replaced by what the rules tell apart.             *)
(***************************************************************************)
EXTENDS WorkflowValidation, TLC

\* Two declared models, one with an alias and its own efforts, a provider
\* without declared models, and the host's own.
Providers ==
  ("codex" :> [unknown |-> FALSE, efforts |-> {"low", "high", "max"},
               models |-> ("sol" :> [aliases |-> {"s"}, efforts |-> {"low", "high"}])
                          @@ ("luna" :> [aliases |-> {}, efforts |-> {}])])
  @@ ("open" :> [unknown |-> TRUE, efforts |-> {}, models |-> [m \in {} |-> 1]])
  @@ ("home" :> [unknown |-> TRUE, efforts |-> {}, models |-> [m \in {} |-> 1]])
Host == {"home"}
Lower == [m \in {"sol", "luna", "s", "S", "other"} |-> IF m = "S" THEN "s" ELSE m]

Route(provider, model, effort) ==
  [extra |-> FALSE, provider |-> provider, model |-> model, effort |-> effort]
Prompt(file, text) == [extra |-> FALSE, file |-> file, text |-> text]
Retry(max, backoff, on) ==
  [extra |-> FALSE, maxAttempts |-> max, backoffSeconds |-> backoff, on |-> on]
Entry(task, artifact, bytes) ==
  [extra |-> FALSE, task |-> task, artifact |-> artifact, maxBytes |-> bytes]
With(r) == [r EXCEPT !.extra = TRUE]

Plain ==
  [extra |-> FALSE, route |-> Route("codex", "sol", Absent), mode |-> "read",
   prompt |-> Prompt(Absent, "text"), dependsOn |-> Absent, contextFrom |-> Absent,
   timeoutSeconds |-> Absent, workspace |-> Absent, retry |-> Absent, verify |-> Absent]

Document(raw, tasks) ==
  [extra |-> FALSE, schemaVersion |-> 1, name |-> "named", misnamed |-> FALSE,
   defaults |-> raw, tasks |-> tasks]

Odd == {Null, Wrong}
Numbers == Odd \cup {NaN, Infinity, -1, 0, 1}

RawDefaults == [BuiltInDefaults EXCEPT !.maxConcurrency = Absent]
DefaultsChoices ==
  Odd \cup {Absent, With(RawDefaults)}
  \cup {[RawDefaults EXCEPT !.maxConcurrency = v] : v \in Numbers}
  \cup {[RawDefaults EXCEPT !.timeoutSeconds = v] : v \in Numbers \cup {Absent}}
  \cup {[RawDefaults EXCEPT !.workspace = v] : v \in Odd \cup Workspace}
  \cup {[RawDefaults EXCEPT !.failurePolicy = v] : v \in Odd \cup FailurePolicy}
  \cup {[RawDefaults EXCEPT !.providerConcurrency = v] :
          v \in Odd \cup {Absent, "open" :> 1, "open" :> 0, "open" :> NaN, "nobody" :> 1}}

Efforts == Odd \cup {Absent, "low", "max", "none"}
Routes ==
  Odd \cup {Absent, With(Plain.route)}
  \cup {Route("codex", m, f) : m \in {"sol", "luna", "S", "other"}, f \in Efforts}
  \cup {Route(v, m, Absent) : v \in Odd \cup {Absent, "open", "home", "nobody"},
                              m \in {"other", "", Absent, Wrong}}
Prompts ==
  Odd \cup {Absent, With(Plain.prompt)}
  \cup {Prompt(f, t) : f \in Odd \cup {Absent, "", "inside", "absolute", "parent", "escapes", "missing"},
                       t \in Odd \cup {Absent, "", "text"}}
Retries ==
  Odd \cup {With(Retry(1, 0, <<>>))}
  \cup {Retry(v, Absent, Absent) : v \in Numbers} \cup {Retry(Absent, v, Absent) : v \in Numbers}
  \cup {Retry(2, 1, v) : v \in Odd \cup {<<"timeout", "transport-error">>, <<"timeout", "timeout">>,
                                          <<Wrong>>, <<"failed">>}}
Verifies == Odd \cup {<<>>, << <<>> >>, <<Wrong>>, << <<"make">> >>, << <<"make", "">> >>, << <<Wrong>> >>}
Contexts ==
  Odd \cup {<<>>, <<Wrong>>, <<With(Entry(1, "patch", 1))>>}
  \cup {<<Entry(n, a, b)>> : n \in {1, 2, Wrong}, a \in {"patch", "other", Absent}, b \in Numbers \cup {Absent}}
Dependencies == Odd \cup {<<>>, <<1>>, <<2>>, <<3>>, <<1, 1>>, <<Wrong>>}

\* The second task, whose contexts need a dependency on the first.
Tasks ==
  Odd \cup {With(Plain)}
  \cup {[Plain EXCEPT !.route = v] : v \in Routes}
  \cup {[Plain EXCEPT !.prompt = v] : v \in Prompts}
  \cup {[Plain EXCEPT !.mode = v] : v \in Odd \cup {Absent}}
  \cup {[Plain EXCEPT !.mode = m, !.workspace = v] :
          m \in {"read", "write"}, v \in Odd \cup Workspace \cup {Absent}}
  \cup {[Plain EXCEPT !.timeoutSeconds = v] : v \in Numbers}
  \cup {[Plain EXCEPT !.retry = v] : v \in Retries}
  \cup {[Plain EXCEPT !.verify = v] : v \in Verifies}
  \cup {[Plain EXCEPT !.dependsOn = d, !.contextFrom = v] :
          d \in Dependencies, v \in Contexts \cup {Absent}}

Heads ==
  {Wrong} \cup {[Document(Absent, <<Plain>>) EXCEPT !.schemaVersion = v] : v \in {2, LikeOne, Wrong}}
  \cup {[d EXCEPT !.extra = TRUE] : d \in {Document(Absent, <<Plain>>)}}
  \cup {[d EXCEPT !.misnamed = TRUE] : d \in {Document(Absent, <<Plain>>)}}
  \cup {[Document(Absent, <<Plain>>) EXCEPT !.name = v] : v \in Odd \cup {Absent, "", "overlong"}}
  \cup {Document(Absent, v) : v \in Odd \cup {Absent, <<>>}}

Shaped(g) == Document(Absent, [i \in DOMAIN g |-> [Plain EXCEPT !.dependsOn = g[i]]])

\* Any dependencies in any order, refused ones too; and every legal graph.
Lists(n) == UNION {[1 .. k -> 1 .. n] : k \in 0 .. 2}
Legal(n) == {g \in [1 .. n -> SUBSET (1 .. n)] : \A i \in 1 .. n : i \notin g[i]}
Graphs ==
  {Shaped(g) : g \in UNION {[1 .. n -> Lists(n)] : n \in {2, 3}}}
  \cup {Shaped([i \in 1 .. 4 |-> SetToSortSeq(g[i], <)]) : g \in Legal(4)}

Wanted ==
  Heads \cup Graphs
  \cup {Document(d, <<Plain, t>>) : d \in DefaultsChoices,
          t \in {Plain, [Plain EXCEPT !.mode = "write"], [Plain EXCEPT !.workspace = Null]}}
  \cup {Document(Absent, <<Plain, t>>) : t \in Tasks}
=============================================================================
