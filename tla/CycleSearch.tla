---------------------------- MODULE CycleSearch ----------------------------
(***************************************************************************)
(* _find_cycle of workflow.py: a depth-first search over the dependencies  *)
(* of a document, with a stack of iterators and a path beside it.  A task  *)
(* is known by its position in sorted order.                               *)
(***************************************************************************)
EXTENDS Naturals, Sequences

VARIABLES
  deps,     \* of each task, its dependencies, sorted
  phase,    \* "search", and how it ended: "acyclic" or "cycle"
  start,    \* next task of the outer loop
  color,    \* WHITE, GRAY or BLACK
  path,     \* the tasks between the start and the one looked at
  stack,    \* the same tasks, each with the child its iterator is at
  cycle     \* what is returned, <<>> for None

found == <<phase, cycle>>
searchVars == <<deps, found, start, color, path, stack>>

Names == DOMAIN deps
Count == Len(deps)
Color == {"WHITE", "GRAY", "BLACK"}
Frame == [node : Names, next : Nat \ {0}]

StartSearch ==
  /\ start = 1
  /\ color = [t \in Names |-> "WHITE"]
  /\ path = <<>> /\ stack = <<>> /\ cycle = <<>>

Graph == deps \in Seq(Seq(1 .. Len(deps)))

SearchInit == Graph /\ phase = "search" /\ StartSearch

Running == phase = "search" /\ UNCHANGED deps

Top == stack[Len(stack)]
Child == deps[Top.node][Top.next]
HasChild == stack # <<>> /\ Top.next <= Len(deps[Top.node])

Advanced == [stack EXCEPT ![Len(stack)].next = @ + 1]
Entered(t) == [node |-> t, next |-> 1]

\* The outer loop comes to a task no search has reached, or passes one by.
Root ==
  /\ Running /\ stack = <<>> /\ start <= Count
  /\ color[start] = "WHITE"
  /\ path' = <<start>>
  /\ color' = [color EXCEPT ![start] = "GRAY"]
  /\ stack' = <<Entered(start)>>
  /\ start' = start + 1
  /\ UNCHANGED found

PassBy ==
  /\ Running /\ stack = <<>> /\ start <= Count
  /\ color[start] # "WHITE"
  /\ start' = start + 1
  /\ UNCHANGED <<found, color, path, stack>>

Descend ==
  /\ Running /\ HasChild
  /\ color[Child] = "WHITE"
  /\ color' = [color EXCEPT ![Child] = "GRAY"]
  /\ path' = Append(path, Child)
  /\ stack' = Append(Advanced, Entered(Child))
  /\ UNCHANGED <<found, start>>

\* Variant with a mistake: a task on the path is passed by like a finished one.
SkipGray ==
  /\ Running /\ HasChild
  /\ color[Child] # "WHITE"
  /\ stack' = Advanced
  /\ UNCHANGED <<found, start, color, path>>

Skip ==
  /\ Running /\ HasChild
  /\ color[Child] = "BLACK"
  /\ stack' = Advanced
  /\ UNCHANGED <<found, start, color, path>>

OnPath == {i \in DOMAIN path : path[i] = Child}
\* Variant with a mistake: the whole path is reported.
StartOfPath == 1

FirstOnPath == CHOOSE i \in OnPath : \A j \in OnPath : i <= j

Close ==
  /\ Running /\ HasChild
  /\ color[Child] = "GRAY"
  /\ phase' = "cycle"
  /\ cycle' = IF OnPath # {}
              THEN Append(SubSeq(path, FirstOnPath, Len(path)), Child)
              ELSE <<Child, Top.node, Child>>
  /\ UNCHANGED <<start, color, path, stack>>

Leave ==
  /\ Running /\ stack # <<>> /\ ~HasChild
  /\ color' = [color EXCEPT ![Top.node] = "BLACK"]
  /\ path' = SubSeq(path, 1, Len(path) - 1)
  /\ stack' = SubSeq(stack, 1, Len(stack) - 1)
  /\ UNCHANGED <<found, start>>

Finish ==
  /\ Running /\ stack = <<>> /\ start > Count
  /\ phase' = "acyclic"
  /\ UNCHANGED <<cycle, start, color, path, stack>>

SearchNext == Root \/ PassBy \/ Descend \/ Skip \/ Close \/ Leave \/ Finish

SearchSpec == SearchInit /\ [][SearchNext]_searchVars

-----------------------------------------------------------------------------
DependsOn(t) == {deps[t][i] : i \in DOMAIN deps[t]}

\* What the scheduler takes for granted of a document (AcyclicAssumption of
\* WorkflowGraph): every set of tasks has one that waits for none of them.
AcyclicGraph ==
  \A S \in SUBSET Names : S # {} => \E t \in S : DependsOn(t) \cap S = {}

\* A search that finds nothing has seen a graph without a cycle, whatever
\* part of it earlier searches had already coloured.
AcceptedIsAcyclic == phase = "acyclic" => AcyclicGraph

\* What is reported is a cycle: each task of it depends on the next, and it
\* ends where it begins.
ReportedCycleIsReal ==
  phase = "cycle" =>
    /\ Len(cycle) >= 2
    /\ cycle[1] = cycle[Len(cycle)]
    /\ \A i \in 1 .. Len(cycle) - 1 : cycle[i + 1] \in DependsOn(cycle[i])

\* The path and the stack, kept side by side, name the same tasks, which are
\* the gray ones: a gray child is on the path, and the answer for one that is
\* not is never given.
GrayIsPath ==
  /\ Len(path) = Len(stack)
  /\ \A k \in DOMAIN path : path[k] = stack[k].node
  /\ \A t \in Names : color[t] = "GRAY" <=> \E k \in DOMAIN path : path[k] = t

-----------------------------------------------------------------------------
(* What the search keeps true at every step, and rests on.                 *)

SearchTyped ==
  /\ Graph
  /\ start \in 1 .. Count + 1
  /\ color \in [Names -> Color]
  /\ path \in Seq(Names)
  /\ stack \in Seq(Frame)
  /\ cycle \in Seq(Names)

Visited(k) == 1 .. stack[k].next - 1

\* Each task of the path has the next one for its current child, and is there
\* once; what else its iterator has passed is black.
PathIsChain ==
  /\ \A j, k \in 1 .. Len(path) : path[j] = path[k] => j = k
  /\ \A k \in 1 .. Len(path) :
       /\ stack[k].next <= Len(deps[path[k]]) + 1
       /\ k < Len(path) =>
            stack[k].next > 1 /\ deps[path[k]][stack[k].next - 1] = path[k + 1]
       /\ \A j \in Visited(k) :
            color[deps[path[k]][j]] = "BLACK" \/ (k < Len(path) /\ j = stack[k].next - 1)

Black == {t \in Names : color[t] = "BLACK"}

\* The black tasks depend on black tasks only, and not in a circle.
BlackIsSettled ==
  /\ \A t \in Black : DependsOn(t) \subseteq Black
  /\ \A S \in SUBSET Black : S # {} => \E t \in S : DependsOn(t) \cap S = {}

NothingPassedIsWhite ==
  /\ \A t \in 1 .. start - 1 : color[t] # "WHITE"
  /\ phase = "acyclic" => stack = <<>> /\ start = Count + 1

\* The strengthening of the three properties above that every step preserves.
SearchInductive ==
  /\ SearchTyped /\ GrayIsPath /\ PathIsChain /\ BlackIsSettled
  /\ NothingPassedIsWhite /\ ReportedCycleIsReal
=============================================================================
