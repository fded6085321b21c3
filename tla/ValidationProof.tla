------------------------- MODULE ValidationProof --------------------------
(***************************************************************************)
(* The cycle finder is right for every dependency graph: what it accepts   *)
(* is acyclic and what it reports is a cycle.  With it, what               *)
(* validate_workflow accepts is an acyclic graph of tasks that the         *)
(* scheduler can run; its normalised form meets the published schema and   *)
(* is normalised for good.                                                 *)
(***************************************************************************)
EXTENDS WorkflowValidation, FiniteSetTheorems, SequenceTheorems, TLAPS

-----------------------------------------------------------------------------
(* The cycle finder.                                                      *)

\* A search starts with nothing visited.
LEMMA SearchStarts ==
  ASSUME Graph, StartSearch, phase \notin {"acyclic", "cycle"}
  PROVE  SearchInductive
<1>1. SearchTyped
  <2>1. Len(deps) \in Nat /\ DOMAIN deps = 1 .. Len(deps)
    BY LenProperties DEF Graph
  <2>2. <<>> \in Seq(Names) /\ <<>> \in Seq(Frame)
    BY EmptySeq
  <2> QED
    BY <2>1, <2>2 DEF StartSearch, SearchTyped, Graph, Count, Names, Color
<1>2. GrayIsPath /\ PathIsChain
  <2>1. Len(path) = 0 /\ Len(stack) = 0 /\ DOMAIN path = {}
    BY DEF StartSearch
  <2> QED
    BY <2>1 DEF StartSearch, GrayIsPath, PathIsChain
<1>3. Black = {}
  BY DEF StartSearch, Black
<1> QED
  BY <1>1, <1>2, <1>3 DEF StartSearch, SearchInductive, BlackIsSettled,
     NothingPassedIsWhite, ReportedCycleIsReal

\* What a step works on: the graph is one of tasks, and the task on top of
\* the stack is the last of the path.
LEMMA OnTop ==
  ASSUME SearchInductive, stack # <<>>
  PROVE  /\ Len(stack) \in Nat \ {0} /\ Len(path) = Len(stack)
         /\ Top \in Frame
         /\ Top.node = path[Len(path)] /\ Top.node \in Names
         /\ Top.next \in Nat \ {0}
         /\ deps[Top.node] \in Seq(Names)
         /\ Top.next <= Len(deps[Top.node]) + 1
         /\ color[Top.node] = "GRAY"
         /\ HasChild => Child \in Names /\ Child \in DependsOn(Top.node)
<1>1. Len(stack) \in Nat \ {0} /\ Len(path) = Len(stack)
  BY EmptySeq DEF SearchInductive, SearchTyped, GrayIsPath
<1>2. Top \in Frame
  BY <1>1, ElementOfSeq DEF SearchInductive, SearchTyped, Top
<1>3. Top.node \in Names /\ Top.next \in Nat \ {0}
  BY <1>2 DEF Frame
<1>4. Top.node = path[Len(path)]
  BY <1>1, LenProperties DEF SearchInductive, SearchTyped, GrayIsPath, Top
<1>5. deps[Top.node] \in Seq(Names)
  <2>1. Names = 1 .. Len(deps)
    BY LenProperties DEF SearchInductive, SearchTyped, Graph, Names
  <2> QED
    BY <1>3, <2>1, ElementOfSeq DEF SearchInductive, SearchTyped, Graph
<1>6. Top.next <= Len(deps[Top.node]) + 1
  BY <1>1, <1>4 DEF SearchInductive, PathIsChain, Top
<1>7. color[Top.node] = "GRAY"
  BY <1>1, <1>3, <1>4, LenProperties DEF SearchInductive, SearchTyped, GrayIsPath
<1>8. HasChild => Child \in Names /\ Child \in DependsOn(Top.node)
  <2>1. DOMAIN deps[Top.node] = 1 .. Len(deps[Top.node])
    BY <1>5, LenProperties
  <2> SUFFICES ASSUME HasChild
               PROVE  Child \in Names /\ Child \in DependsOn(Top.node)
      OBVIOUS
  <2>2. Top.next \in 1 .. Len(deps[Top.node])
    BY <1>3, <1>5, LenProperties DEF HasChild
  <2> QED
    BY <1>5, <2>1, <2>2, ElementOfSeq DEF Child, DependsOn
<1> QED
  BY <1>1, <1>2, <1>3, <1>4, <1>5, <1>6, <1>7, <1>8

\* The iterator on top of the stack goes on by one; the rest stays.
LEMMA AdvancedOnTop ==
  ASSUME SearchInductive, HasChild
  PROVE  /\ Advanced \in Seq(Frame)
         /\ Len(Advanced) = Len(stack)
         /\ \A k \in 1 .. Len(stack) - 1 : Advanced[k] = stack[k]
         /\ Advanced[Len(stack)].node = Top.node
         /\ Advanced[Len(stack)].next = Top.next + 1
<1>1. stack \in Seq(Frame) /\ Len(stack) \in Nat \ {0} /\ Len(stack) \in 1 .. Len(stack)
  BY OnTop DEF SearchInductive, SearchTyped, HasChild
<1>2. Top \in Frame
  BY OnTop DEF HasChild
<1> DEFINE new == [Top EXCEPT !.next = Top.next + 1]
<1>3. new \in Frame /\ new.node = Top.node /\ new.next = Top.next + 1
  BY <1>2 DEF Frame
<1>4. Advanced = [stack EXCEPT ![Len(stack)] = new]
  BY DEF Advanced, Top
<1> HIDE DEF new
<1>5. /\ Advanced \in Seq(Frame) /\ Len(Advanced) = Len(stack)
      /\ \A k \in 1 .. Len(stack) : Advanced[k] = IF k = Len(stack) THEN new ELSE stack[k]
  BY <1>1, <1>3, <1>4, ExceptSeq
<1> QED
  BY <1>1, <1>3, <1>5

\* The sizes and ranges of what the search keeps.
LEMMA Sizes ==
  ASSUME SearchInductive
  PROVE  /\ Count \in Nat /\ Names = 1 .. Count
         /\ Len(path) \in Nat /\ Len(stack) = Len(path) /\ DOMAIN path = 1 .. Len(path)
         /\ \A k \in 1 .. Len(path) :
              /\ path[k] \in Names /\ stack[k] \in Frame
              /\ path[k] = stack[k].node /\ stack[k].next \in Nat \ {0}
              /\ color[path[k]] = "GRAY"
         /\ \A t \in Names :
              /\ deps[t] \in Seq(Names) /\ Len(deps[t]) \in Nat
              /\ DOMAIN deps[t] = 1 .. Len(deps[t])
              /\ DependsOn(t) = {deps[t][i] : i \in 1 .. Len(deps[t])}
              /\ \A i \in 1 .. Len(deps[t]) : deps[t][i] \in Names
<1>1. Count \in Nat /\ Names = 1 .. Count
  BY LenProperties DEF SearchInductive, SearchTyped, Graph, Names, Count
<1>2. /\ Len(path) \in Nat /\ Len(stack) = Len(path) /\ DOMAIN path = 1 .. Len(path)
      /\ path \in Seq(Names) /\ stack \in Seq(Frame)
  BY LenProperties DEF SearchInductive, SearchTyped, GrayIsPath
<1>3. ASSUME NEW k \in 1 .. Len(path)
      PROVE  /\ path[k] \in Names /\ stack[k] \in Frame
             /\ path[k] = stack[k].node /\ stack[k].next \in Nat \ {0}
             /\ color[path[k]] = "GRAY"
  <2>1. path[k] \in Names /\ stack[k] \in Frame
    BY <1>2, <1>3, ElementOfSeq
  <2>2. path[k] = stack[k].node /\ color[path[k]] = "GRAY"
    BY <1>2, <1>3, <2>1 DEF SearchInductive, GrayIsPath
  <2>3. stack[k].next \in Nat \ {0}
    BY <2>1 DEF Frame
  <2> QED
    BY <2>1, <2>2, <2>3
<1>4. ASSUME NEW t \in Names
      PROVE  /\ deps[t] \in Seq(Names) /\ Len(deps[t]) \in Nat
             /\ DOMAIN deps[t] = 1 .. Len(deps[t])
             /\ DependsOn(t) = {deps[t][i] : i \in 1 .. Len(deps[t])}
             /\ \A i \in 1 .. Len(deps[t]) : deps[t][i] \in Names
  <2>1. deps[t] \in Seq(Names)
    BY <1>1, <1>4, ElementOfSeq DEF SearchInductive, SearchTyped, Graph, Count
  <2>2. Len(deps[t]) \in Nat /\ DOMAIN deps[t] = 1 .. Len(deps[t])
    BY <2>1, LenProperties
  <2>3. \A i \in 1 .. Len(deps[t]) : deps[t][i] \in Names
    BY <2>1, ElementOfSeq
  <2> QED
    BY <2>1, <2>2, <2>3 DEF DependsOn
<1> QED
  BY <1>1, <1>2, <1>3, <1>4

\* A step that blackens no task leaves the black ones settled.
LEMMA BlackKept ==
  ASSUME SearchInductive, deps' = deps, Black' = Black
  PROVE  BlackIsSettled'
<1>1. \A t : DependsOn(t)' = DependsOn(t)
  BY DEF DependsOn
<1> QED
  BY <1>1 DEF SearchInductive, BlackIsSettled

\* The search begins at a task not yet visited.
LEMMA RootKeeps ==
  ASSUME SearchInductive, Root
  PROVE  SearchInductive'
<1> USE DEF Root, Running, found
<1>1. /\ deps' = deps /\ Names' = Names /\ Count' = Count
      /\ start \in Names /\ start \in Nat /\ Len(path) = 0 /\ Len(stack) = 0
  BY Sizes DEF SearchInductive, SearchTyped, Names, Count
<1>2. /\ path' = <<start>> /\ stack' = <<[node |-> start, next |-> 1]>>
      /\ Len(path') = 1 /\ Len(stack') = 1 /\ DOMAIN path' = {1}
      /\ path'[1] = start /\ stack'[1] = [node |-> start, next |-> 1]
  BY DEF Entered
<1>3. color \in [Names -> Color] /\ color' = [color EXCEPT ![start] = "GRAY"] /\ color[start] = "WHITE"
  BY DEF SearchInductive, SearchTyped
<1>4. SearchTyped'
  <2>1. path' \in Seq(Names) /\ stack' \in Seq(Frame)
    BY <1>1, <1>2 DEF Frame
  <2>2. color' \in [Names -> Color]
    BY <1>1, <1>3 DEF Color
  <2>3. Graph' /\ cycle' \in Seq(Names) /\ start' \in 1 .. Count + 1 /\ Frame' = Frame
    BY <1>1, Sizes DEF SearchInductive, SearchTyped, Graph, Frame
  <2> QED
    BY <1>1, <2>1, <2>2, <2>3 DEF SearchTyped
<1>5. GrayIsPath'
  <2>1. \A t \in Names : color[t] # "GRAY"
    BY <1>1, Sizes DEF SearchInductive, GrayIsPath
  <2>2. \A t \in Names : color'[t] = "GRAY" <=> t = start
    BY <1>1, <1>3, <2>1
  <2> QED
    BY <1>1, <1>2, <2>2 DEF GrayIsPath
<1>6. PathIsChain'
  <2>1. deps'[start] \in Seq(Names) /\ Len(deps'[start]) \in Nat
    BY <1>1, Sizes
  <2> QED
    BY <1>2, <2>1 DEF PathIsChain, Visited
<1>7. BlackIsSettled'
  <2>1. Black' = Black
    BY <1>1, <1>3 DEF Black
  <2> QED
    BY <1>1, <2>1, BlackKept
<1>8. NothingPassedIsWhite'
  <2>1. \A t \in 1 .. start' - 1 : color'[t] # "WHITE"
    BY <1>1, <1>3, Sizes DEF SearchInductive, NothingPassedIsWhite
  <2> QED
    BY <2>1 DEF NothingPassedIsWhite
<1>9. ReportedCycleIsReal'
  BY DEF ReportedCycleIsReal
<1> QED
  BY <1>4, <1>5, <1>6, <1>7, <1>8, <1>9 DEF SearchInductive

\* The outer loop passes by a task that an earlier search has visited.
LEMMA PassByKeeps ==
  ASSUME SearchInductive, PassBy
  PROVE  SearchInductive'
<1> USE DEF PassBy, Running, found
<1>1. /\ deps' = deps /\ Names' = Names /\ Count' = Count /\ Frame' = Frame
      /\ start \in Nat /\ start' = start + 1
  BY Sizes DEF SearchInductive, SearchTyped, Names, Count, Frame
<1>2. SearchTyped'
  BY <1>1, Sizes DEF SearchInductive, SearchTyped, Graph
<1>3. GrayIsPath' /\ PathIsChain' /\ ReportedCycleIsReal'
  BY <1>1 DEF SearchInductive, GrayIsPath, PathIsChain, Visited, ReportedCycleIsReal
<1>4. BlackIsSettled'
  BY <1>1, BlackKept DEF Black
<1>5. NothingPassedIsWhite'
  BY <1>1 DEF SearchInductive, NothingPassedIsWhite
<1> QED
  BY <1>2, <1>3, <1>4, <1>5 DEF SearchInductive

\* The iterator passes by a black child.
LEMMA SkipKeeps ==
  ASSUME SearchInductive, Skip
  PROVE  SearchInductive'
<1> USE DEF Skip, Running, found
<1> DEFINE n == Len(stack)
<1>1. /\ deps' = deps /\ Names' = Names /\ Count' = Count /\ Frame' = Frame
      /\ path' = path /\ color' = color /\ stack' = Advanced /\ n \in Nat \ {0} /\ Len(path) = n
  BY OnTop DEF HasChild, Names, Count, Frame
<1>2. SearchTyped'
  BY <1>1, AdvancedOnTop DEF SearchInductive, SearchTyped, Graph
<1>3. /\ Len(stack') = n
      /\ \A k \in 1 .. n : stack'[k].node = stack[k].node
      /\ \A k \in 1 .. n : stack'[k].next = IF k = n THEN stack[k].next + 1 ELSE stack[k].next
  BY <1>1, AdvancedOnTop DEF Top
<1>4. GrayIsPath'
  BY <1>1, <1>3, Sizes DEF SearchInductive, GrayIsPath
<1>5. PathIsChain'
  <2>1. \A j, k \in 1 .. Len(path') : path'[j] = path'[k] => j = k
    BY <1>1 DEF SearchInductive, PathIsChain
  <2>2. ASSUME NEW k \in 1 .. n, k # n
        PROVE  /\ stack'[k].next <= Len(deps'[path'[k]]) + 1
               /\ k < n => stack'[k].next > 1 /\ deps'[path'[k]][stack'[k].next - 1] = path'[k + 1]
               /\ \A j \in Visited(k)' :
                    color'[deps'[path'[k]][j]] = "BLACK" \/ (k < n /\ j = stack'[k].next - 1)
    BY <1>1, <1>3, <2>2 DEF SearchInductive, PathIsChain, Visited
  <2>3. /\ stack'[n].next <= Len(deps'[path'[n]]) + 1
        /\ \A j \in Visited(n)' : color'[deps'[path'[n]][j]] = "BLACK"
    <3>1. /\ stack[n].next \in Nat \ {0} /\ stack[n].next <= Len(deps[path[n]])
          /\ Len(deps[path[n]]) \in Nat /\ color[deps[path[n]][stack[n].next]] = "BLACK"
      BY <1>1, OnTop, Sizes DEF HasChild, Child, Top
    <3>2. \A j \in Visited(n) : color[deps[path[n]][j]] = "BLACK"
      BY <1>1 DEF SearchInductive, PathIsChain
    <3> QED
      BY <1>1, <1>3, <3>1, <3>2 DEF Visited
  <2> QED
    BY <1>1, <1>3, <2>1, <2>2, <2>3 DEF PathIsChain
<1>6. BlackIsSettled'
  BY <1>1, BlackKept DEF Black
<1>7. NothingPassedIsWhite' /\ ReportedCycleIsReal'
  BY <1>1 DEF SearchInductive, NothingPassedIsWhite, ReportedCycleIsReal
<1> QED
  BY <1>2, <1>4, <1>5, <1>6, <1>7 DEF SearchInductive

\* The search goes down to a child not yet visited.
LEMMA DescendKeeps ==
  ASSUME SearchInductive, Descend
  PROVE  SearchInductive'
<1> DEFINE n == Len(stack)
<1>1. /\ deps' = deps /\ start' = start /\ cycle' = cycle /\ phase' = phase /\ phase = "search"
      /\ Names' = Names /\ Count' = Count /\ Frame' = Frame /\ HasChild
      /\ n \in Nat \ {0} /\ Len(path) = n /\ Child \in Names /\ color[Child] = "WHITE"
  BY OnTop DEF Descend, Running, found, HasChild, Names, Count, Frame
<1>2. color \in [Names -> Color] /\ color' = [color EXCEPT ![Child] = "GRAY"]
  BY DEF Descend, SearchInductive, SearchTyped
<1>3. /\ path' \in Seq(Names) /\ Len(path') = n + 1 /\ DOMAIN path' = 1 .. n + 1
      /\ path'[n + 1] = Child /\ \A k \in 1 .. n : path'[k] = path[k]
  BY <1>1, AppendProperties, LenProperties DEF Descend, SearchInductive, SearchTyped
<1>4. Entered(Child) \in Frame /\ Entered(Child).node = Child /\ Entered(Child).next = 1
  BY <1>1 DEF Frame, Entered
<1>5. /\ stack' \in Seq(Frame) /\ Len(stack') = n + 1 /\ stack'[n + 1] = Entered(Child)
      /\ \A k \in 1 .. n : stack'[k] = Advanced[k]
  BY <1>1, <1>4, AdvancedOnTop, AppendProperties DEF Descend
<1>6. /\ \A k \in 1 .. n : stack'[k].node = stack[k].node
      /\ \A k \in 1 .. n - 1 : stack'[k].next = stack[k].next
      /\ stack'[n].next = stack[n].next + 1
  <2>1. \A k \in 1 .. n : Advanced[k].node = stack[k].node
    BY <1>1, AdvancedOnTop DEF Top
  <2>2. \A k \in 1 .. n - 1 : Advanced[k].next = stack[k].next
    BY <1>1, AdvancedOnTop
  <2>3. Advanced[n].next = stack[n].next + 1
    BY <1>1, AdvancedOnTop DEF Top
  <2> QED
    BY <1>1, <1>5, <2>1, <2>2, <2>3
<1> HIDE DEF n
<1>7. SearchTyped'
  <2>1. color' \in [Names -> Color]
    BY <1>1, <1>2 DEF Color
  <2> QED
    BY <1>1, <1>3, <1>5, <2>1 DEF SearchInductive, SearchTyped, Graph
<1>8. GrayIsPath'
  <2>1. \A t \in Names : color'[t] = "GRAY" <=> color[t] = "GRAY" \/ t = Child
    BY <1>1, <1>2
  <2>2. \A t \in Names : color[t] = "GRAY" <=> \E k \in 1 .. n : path[k] = t
    BY <1>1, Sizes DEF SearchInductive, GrayIsPath
  <2>3. \A t \in Names : color'[t] = "GRAY" <=> \E k \in 1 .. n + 1 : path'[k] = t
    BY <1>1, <1>3, <2>1, <2>2
  <2>4. \A k \in 1 .. n : path'[k] = stack'[k].node
    BY <1>1, <1>3, <1>6, Sizes
  <2>5. \A k \in 1 .. n + 1 : path'[k] = stack'[k].node
    BY <1>1, <1>3, <1>4, <1>5, <2>4
  <2> QED
    BY <1>1, <1>3, <1>5, <2>3, <2>5 DEF GrayIsPath
<1>9. PathIsChain'
  <2>1. \A k \in 1 .. n : path[k] # Child
    BY <1>1, Sizes
  <2>2. \A j, k \in 1 .. n + 1 : path'[j] = path'[k] => j = k
    BY <1>1, <1>3, <2>1 DEF SearchInductive, PathIsChain
  <2>3. \A t \in Names : color[t] = "BLACK" => color'[t] = "BLACK"
    BY <1>1, <1>2
  <2>4. \A k \in 1 .. n :
          /\ stack[k].next \in Nat \ {0} /\ stack[k].next <= Len(deps[path[k]]) + 1
          /\ Len(deps[path[k]]) \in Nat
          /\ \A j \in 1 .. stack[k].next - 1 : deps[path[k]][j] \in Names
    <3> TAKE k \in 1 .. n
    <3>1. path[k] \in Names /\ stack[k].next \in Nat \ {0}
      BY <1>1, Sizes
    <3>2. Len(deps[path[k]]) \in Nat /\ \A i \in 1 .. Len(deps[path[k]]) : deps[path[k]][i] \in Names
      BY <3>1, Sizes
    <3>3. stack[k].next <= Len(deps[path[k]]) + 1
      BY <1>1 DEF SearchInductive, PathIsChain
    <3> QED
      BY <3>1, <3>2, <3>3
  <2>5. \A k \in 1 .. n :
          \A j \in 1 .. stack[k].next - 1 :
            color[deps[path[k]][j]] = "BLACK" \/ (k < n /\ j = stack[k].next - 1)
    BY <1>1 DEF SearchInductive, PathIsChain, Visited
  <2>6. \A k \in 1 .. n :
          k < n => stack[k].next > 1 /\ deps[path[k]][stack[k].next - 1] = path[k + 1]
    BY <1>1 DEF SearchInductive, PathIsChain
  <2>7. ASSUME NEW k \in 1 .. n + 1
        PROVE  /\ stack'[k].next <= Len(deps'[path'[k]]) + 1
               /\ k < n + 1 => stack'[k].next > 1 /\ deps'[path'[k]][stack'[k].next - 1] = path'[k + 1]
               /\ \A j \in 1 .. stack'[k].next - 1 :
                    color'[deps'[path'[k]][j]] = "BLACK" \/ (k < n + 1 /\ j = stack'[k].next - 1)
    <3>1. CASE k < n
      <4>1. k \in 1 .. n /\ k \in 1 .. n - 1 /\ k + 1 \in 1 .. n
        BY <1>1, <3>1
      <4>2. /\ stack'[k].next = stack[k].next /\ deps' = deps
            /\ path'[k] = path[k] /\ path'[k + 1] = path[k + 1]
        BY <1>1, <1>3, <1>6, <4>1
      <4>3. /\ stack[k].next <= Len(deps[path[k]]) + 1
            /\ stack[k].next > 1 /\ deps[path[k]][stack[k].next - 1] = path[k + 1]
        BY <2>4, <2>6, <3>1, <4>1
      <4>4. \A j \in 1 .. stack[k].next - 1 :
              color'[deps[path[k]][j]] = "BLACK" \/ j = stack[k].next - 1
        BY <2>3, <2>4, <2>5, <4>1
      <4> QED
        BY <1>1, <3>1, <4>2, <4>3, <4>4
    <3>2. CASE k = n
      <4>1. Top = stack[n] /\ Top.node = path[n]
        BY <1>1, OnTop DEF HasChild, Top, n
      <4>2. stack[n].next <= Len(deps[path[n]]) /\ deps[path[n]][stack[n].next] = Child
        BY <1>1, <4>1 DEF HasChild, Child
      <4>3. /\ stack'[n].next = stack[n].next + 1 /\ deps' = deps
            /\ path'[n] = path[n] /\ path'[n + 1] = Child
        BY <1>1, <1>3, <1>6
      <4>4. /\ stack[n].next \in Nat \ {0} /\ Len(deps[path[n]]) \in Nat
            /\ \A j \in 1 .. stack[n].next - 1 : color'[deps[path[n]][j]] = "BLACK"
        <5>1. n \in 1 .. n
          BY <1>1
        <5>2. \A j \in 1 .. stack[n].next - 1 : color[deps[path[n]][j]] = "BLACK"
          BY <1>1, <2>5, <5>1
        <5> QED
          BY <2>3, <2>4, <5>1, <5>2
      <4>5. stack'[n].next - 1 = stack[n].next /\ stack'[n].next > 1
        BY <4>3, <4>4
      <4>6. \A j \in 1 .. stack'[n].next - 1 :
              color'[deps[path[n]][j]] = "BLACK" \/ j = stack'[n].next - 1
        BY <4>4, <4>5
      <4>7. stack'[n].next <= Len(deps[path[n]]) + 1
        BY <4>2, <4>3, <4>4
      <4> QED
        BY <1>1, <3>2, <4>2, <4>3, <4>5, <4>6, <4>7
    <3>3. CASE k = n + 1
      BY <1>1, <1>3, <1>4, <1>5, <3>3, Sizes
    <3> QED
      BY <1>1, <3>1, <3>2, <3>3
  <2> QED
    BY <1>3, <2>2, <2>7 DEF PathIsChain, Visited
<1>10. BlackIsSettled'
  <2>1. Black' = Black
    BY <1>1, <1>2 DEF Black
  <2> QED
    BY <1>1, <2>1, BlackKept
<1>11. NothingPassedIsWhite'
  <2>1. \A t \in 1 .. start - 1 : t \in Names
    BY Sizes DEF SearchInductive, SearchTyped
  <2> QED
    BY <1>1, <1>2, <2>1 DEF SearchInductive, NothingPassedIsWhite
<1>12. ReportedCycleIsReal'
  BY <1>1 DEF ReportedCycleIsReal
<1> QED
  BY <1>7, <1>8, <1>9, <1>10, <1>11, <1>12 DEF SearchInductive

\* A gray child is on the path, and the path from it on is a cycle.
LEMMA CloseKeeps ==
  ASSUME SearchInductive, Close
  PROVE  SearchInductive'
<1> DEFINE n == Len(path)
           f == FirstOnPath
           part == SubSeq(path, f, n)
<1>1. /\ deps' = deps /\ start' = start /\ color' = color /\ path' = path /\ stack' = stack
      /\ phase' = "cycle" /\ Names' = Names /\ Count' = Count /\ Frame' = Frame /\ HasChild
      /\ n \in Nat \ {0} /\ Child \in Names /\ color[Child] = "GRAY" /\ path \in Seq(Names)
      /\ Top.node = path[n] /\ Child \in DependsOn(path[n])
  BY OnTop DEF Close, Running, HasChild, Names, Count, Frame, SearchInductive, SearchTyped
<1>2. OnPath # {} /\ OnPath \subseteq 1 .. n
  BY <1>1, Sizes DEF SearchInductive, GrayIsPath, OnPath
<1>3. f \in 1 .. n /\ path[f] = Child
  <2>1. \E i \in OnPath : \A j \in OnPath : i <= j
    <3>1. \A i, j \in OnPath : path[i] = path[j]
      BY DEF OnPath
    <3>2. \A i, j \in OnPath : i = j
      BY <1>1, <1>2, <3>1 DEF SearchInductive, PathIsChain
    <3>3. PICK i \in OnPath : TRUE
      BY <1>2
    <3>4. i \in 1 .. Len(path) /\ Len(path) \in Nat
      BY <1>1, <1>2
    <3>5. \A j \in OnPath : i <= j
      BY <3>2, <3>4
    <3> QED
      BY <3>3, <3>5
  <2>2. f \in OnPath
    BY <2>1 DEF FirstOnPath
  <2> QED
    BY <1>2, <2>2 DEF OnPath
<1> HIDE DEF f
<1>4. /\ part \in Seq(Names) /\ Len(part) = n - f + 1
      /\ \A i \in 1 .. n - f + 1 : part[i] = path[f + i - 1]
  <2>1. f \in Int /\ n \in Int /\ f <= n /\ \A i \in f .. n : path[i] \in Names
    BY <1>1, <1>3, Sizes
  <2>2. /\ part \in Seq(Names) /\ Len(part) = IF f <= n THEN n - f + 1 ELSE 0
        /\ \A i \in 1 .. n - f + 1 : part[i] = path[f + i - 1]
    <3> HIDE DEF n
    <3> QED
      BY <2>1, SubSeqProperties
  <2> QED
    BY <2>1, <2>2
<1>5. cycle' = Append(part, Child)
  BY <1>2 DEF Close, f
<1>6. /\ cycle' \in Seq(Names) /\ Len(cycle') = n - f + 2 /\ cycle'[n - f + 2] = Child
      /\ \A i \in 1 .. n - f + 1 : cycle'[i] = path[f + i - 1]
  <2>1. n - f + 1 + 1 = n - f + 2
    BY <1>1, <1>3
  <2> HIDE DEF part
  <2> QED
    BY <1>1, <1>4, <1>5, <2>1, AppendProperties
<1>7. \A k \in 1 .. n - 1 : path[k + 1] \in DependsOn(path[k])
  <2> TAKE k \in 1 .. n - 1
  <2>1. /\ k \in 1 .. Len(path) /\ k < Len(path)
        /\ stack[k].next > 1 /\ stack[k].next <= Len(deps[path[k]]) + 1
        /\ deps[path[k]][stack[k].next - 1] = path[k + 1]
    BY <1>1 DEF SearchInductive, PathIsChain
  <2>2. path[k] \in Names /\ stack[k].next \in Nat
    BY <2>1, Sizes
  <2>3. Len(deps[path[k]]) \in Nat /\ DependsOn(path[k]) = {deps[path[k]][i] : i \in 1 .. Len(deps[path[k]])}
    BY <2>2, Sizes
  <2>4. stack[k].next - 1 \in 1 .. Len(deps[path[k]])
    BY <2>1, <2>2, <2>3
  <2> QED
    BY <2>1, <2>3, <2>4
<1>8. ReportedCycleIsReal'
  <2>1. Len(cycle') >= 2 /\ cycle'[1] = cycle'[Len(cycle')]
    BY <1>1, <1>3, <1>6
  <2>2. ASSUME NEW i \in 1 .. Len(cycle') - 1
        PROVE  cycle'[i + 1] \in DependsOn(cycle'[i])
    <3>1. i \in 1 .. n - f + 1 /\ cycle'[i] = path[f + i - 1]
      <4>1. Len(cycle') = n - f + 2
        BY <1>6
      <4>2. n \in Nat /\ f \in Nat
        BY <1>1, <1>3
      <4>3. i \in 1 .. n - f + 1
        BY <4>1, <4>2
      <4> QED
        BY <1>6, <4>3
    <3>2. CASE i = n - f + 1
      BY <1>1, <1>3, <1>6, <3>1, <3>2
    <3>3. CASE i # n - f + 1
      <4>1. f + i - 1 \in 1 .. n - 1 /\ i + 1 \in 1 .. n - f + 1 /\ f + (i + 1) - 1 = f + i - 1 + 1
        BY <1>1, <1>3, <3>1, <3>3
      <4> QED
        BY <1>6, <1>7, <3>1, <4>1
    <3> QED
      BY <3>2, <3>3
  <2>3. \A t : DependsOn(t)' = DependsOn(t)
    BY <1>1 DEF DependsOn
  <2> QED
    BY <2>1, <2>2, <2>3 DEF ReportedCycleIsReal
<1>9. SearchTyped' /\ GrayIsPath' /\ PathIsChain'
  BY <1>1, <1>6 DEF SearchInductive, SearchTyped, Graph, GrayIsPath, PathIsChain, Visited
<1>10. BlackIsSettled'
  BY <1>1, BlackKept DEF Black
<1>11. NothingPassedIsWhite'
  BY <1>1 DEF SearchInductive, NothingPassedIsWhite
<1> QED
  BY <1>8, <1>9, <1>10, <1>11 DEF SearchInductive

\* A task is left when all it depends on is black, and is black then.
LEMMA LeaveKeeps ==
  ASSUME SearchInductive, Leave
  PROVE  SearchInductive'
<1> DEFINE n == Len(path)
           last == path[n]
<1>1. /\ deps' = deps /\ start' = start /\ cycle' = cycle /\ phase' = phase /\ phase = "search"
      /\ Names' = Names /\ Count' = Count /\ Frame' = Frame
      /\ n \in Nat \ {0} /\ Len(stack) = n /\ last \in Names /\ Top = stack[n] /\ Top.node = last
  BY OnTop DEF Leave, Running, found, Names, Count, Frame, Top
<1>2. color \in [Names -> Color] /\ color' = [color EXCEPT ![last] = "BLACK"] /\ color[last] = "GRAY"
  BY <1>1, OnTop DEF Leave, SearchInductive, SearchTyped
<1>3. /\ path' \in Seq(Names) /\ Len(path') = n - 1 /\ DOMAIN path' = 1 .. n - 1
      /\ \A k \in 1 .. n - 1 : path'[k] = path[k]
  <2>1. path' = SubSeq(path, 1, n - 1) /\ n - 1 \in Int /\ \A i \in 1 .. n - 1 : path[i] \in Names
    BY <1>1, Sizes DEF Leave
  <2> HIDE DEF n
  <2>2. /\ SubSeq(path, 1, n - 1) \in Seq(Names)
        /\ Len(SubSeq(path, 1, n - 1)) = IF 1 <= n - 1 THEN n - 1 - 1 + 1 ELSE 0
        /\ \A i \in 1 .. n - 1 - 1 + 1 : SubSeq(path, 1, n - 1)[i] = path[1 + i - 1]
    BY <2>1, SubSeqProperties
  <2> QED
    BY <1>1, <2>1, <2>2, LenProperties
<1>4. /\ stack' \in Seq(Frame) /\ Len(stack') = n - 1
      /\ \A k \in 1 .. n - 1 : stack'[k] = stack[k]
  <2>1. stack' = SubSeq(stack, 1, n - 1) /\ n - 1 \in Int /\ \A i \in 1 .. n - 1 : stack[i] \in Frame
    BY <1>1, Sizes DEF Leave
  <2> HIDE DEF n
  <2>2. /\ SubSeq(stack, 1, n - 1) \in Seq(Frame)
        /\ Len(SubSeq(stack, 1, n - 1)) = IF 1 <= n - 1 THEN n - 1 - 1 + 1 ELSE 0
        /\ \A i \in 1 .. n - 1 - 1 + 1 : SubSeq(stack, 1, n - 1)[i] = stack[1 + i - 1]
    BY <2>1, SubSeqProperties
  <2> QED
    BY <1>1, <2>1, <2>2
<1>5. \A k \in 1 .. n - 1 : path[k] # last
  BY <1>1 DEF SearchInductive, PathIsChain
<1>6. DependsOn(last) \subseteq Black
  <2>1. stack[n].next = Len(deps[last]) + 1 /\ Len(deps[last]) \in Nat
    BY <1>1, OnTop, Sizes DEF Leave, HasChild
  <2>2. n \in 1 .. Len(path) /\ ~(n < Len(path))
    BY <1>1
  <2>3. \A j \in 1 .. stack[n].next - 1 : color[deps[last][j]] = "BLACK"
    BY <2>2 DEF SearchInductive, PathIsChain, Visited
  <2>4. \A j \in 1 .. Len(deps[last]) : color[deps[last][j]] = "BLACK" /\ deps[last][j] \in Names
    BY <1>1, <2>1, <2>3, Sizes
  <2>5. DependsOn(last) = {deps[last][i] : i \in 1 .. Len(deps[last])}
    BY <1>1, Sizes
  <2> QED
    BY <2>4, <2>5 DEF Black
<1> HIDE DEF n, last
<1>7. Black' = Black \cup {last} /\ last \notin Black
  BY <1>1, <1>2 DEF Black
<1>8. SearchTyped'
  <2>1. color' \in [Names -> Color]
    BY <1>1, <1>2 DEF Color
  <2> QED
    BY <1>1, <1>3, <1>4, <2>1 DEF SearchInductive, SearchTyped, Graph
<1>9. GrayIsPath'
  <2>1. \A t \in Names : color'[t] = "GRAY" <=> color[t] = "GRAY" /\ t # last
    BY <1>1, <1>2
  <2>2. \A t \in Names : color[t] = "GRAY" <=> \E k \in 1 .. n : path[k] = t
    BY Sizes DEF SearchInductive, GrayIsPath, n
  <2>3. \A k \in 1 .. n : k # n => k \in 1 .. n - 1
    BY <1>1
  <2>4. \A t \in Names : color'[t] = "GRAY" <=> \E k \in 1 .. n - 1 : path[k] = t
    <3>1. \A k \in 1 .. n - 1 : k \in 1 .. n
      BY <1>1
    <3> QED
      BY <1>5, <2>1, <2>2, <2>3, <3>1 DEF last
  <2>5. \A k \in 1 .. n - 1 : path[k] = stack[k].node
    BY <1>1, Sizes DEF n
  <2> QED
    BY <1>1, <1>3, <1>4, <2>4, <2>5 DEF GrayIsPath
<1>10. PathIsChain'
  <2>1. \A j, k \in 1 .. n - 1 : path'[j] = path'[k] => j = k
    BY <1>1, <1>3 DEF SearchInductive, PathIsChain, n
  <2>2. ASSUME NEW k \in 1 .. n - 1
        PROVE  /\ stack'[k].next <= Len(deps'[path'[k]]) + 1
               /\ k < n - 1 => stack'[k].next > 1 /\ deps'[path'[k]][stack'[k].next - 1] = path'[k + 1]
               /\ \A j \in 1 .. stack'[k].next - 1 :
                    color'[deps'[path'[k]][j]] = "BLACK" \/ (k < n - 1 /\ j = stack'[k].next - 1)
    <3>1. k \in 1 .. n /\ k < n /\ n \in Nat /\ k \in Nat
      BY <1>1
    <3>2. stack'[k] = stack[k] /\ path'[k] = path[k] /\ deps' = deps
      BY <1>1, <1>3, <1>4
    <3>3. /\ stack[k].next <= Len(deps[path[k]]) + 1
          /\ stack[k].next > 1 /\ deps[path[k]][stack[k].next - 1] = path[k + 1]
      BY <3>1 DEF SearchInductive, PathIsChain, n
    <3>4. \A j \in 1 .. stack[k].next - 1 :
            color[deps[path[k]][j]] = "BLACK" \/ j = stack[k].next - 1
      BY <3>1 DEF SearchInductive, PathIsChain, Visited, n
    <3>5. path[k] \in Names /\ stack[k].next \in Nat
      BY <3>1, Sizes DEF n
    <3>6. Len(deps[path[k]]) \in Nat /\ \A j \in 1 .. Len(deps[path[k]]) : deps[path[k]][j] \in Names
      BY <3>5, Sizes
    <3>7. \A j \in 1 .. stack[k].next - 1 : deps[path[k]][j] \in Names
      BY <3>3, <3>5, <3>6
    <3>8. \A t \in Names : color[t] = "BLACK" => color'[t] = "BLACK"
      BY <1>1, <1>2
    <3>9. color'[last] = "BLACK"
      BY <1>1, <1>2
    <3>10. \A j \in 1 .. stack[k].next - 1 :
             color'[deps[path[k]][j]] = "BLACK" \/ j = stack[k].next - 1
      BY <3>4, <3>7, <3>8
    <3>11. CASE k = n - 1
      <4>1. path[k + 1] = last
        BY <3>1, <3>11 DEF last
      <4>2. \A j \in 1 .. stack[k].next - 1 : color'[deps[path[k]][j]] = "BLACK"
        BY <3>3, <3>9, <3>10, <4>1
      <4> QED
        BY <3>1, <3>2, <3>3, <3>11, <4>2
    <3>12. CASE k < n - 1
      <4>1. path'[k + 1] = path[k + 1]
        BY <1>3, <3>1, <3>12
      <4> QED
        BY <3>2, <3>3, <3>10, <3>12, <4>1
    <3> QED
      BY <3>1, <3>11, <3>12
  <2> QED
    BY <1>3, <2>1, <2>2 DEF PathIsChain, Visited
<1>11. BlackIsSettled'
  <2>1. \A t : DependsOn(t)' = DependsOn(t)
    BY <1>1 DEF DependsOn
  <2>2. \A t \in Black : DependsOn(t) \subseteq Black
    BY DEF SearchInductive, BlackIsSettled
  <2>3. ASSUME NEW S \in SUBSET (Black \cup {last}), S # {}
        PROVE  \E t \in S : DependsOn(t) \cap S = {}
    <3>1. CASE S \cap Black = {}
      BY <1>6, <2>3, <3>1
    <3>2. CASE S \cap Black # {}
      <4>1. PICK t \in S \cap Black : DependsOn(t) \cap (S \cap Black) = {}
        <5>1. S \cap Black \in SUBSET Black
          OBVIOUS
        <5> QED
          BY <3>2, <5>1 DEF SearchInductive, BlackIsSettled
      <4> QED
        BY <2>2, <4>1
    <3> QED
      BY <3>1, <3>2
  <2>4. \A t \in Black \cup {last} : DependsOn(t) \subseteq Black \cup {last}
    BY <1>6, <2>2
  <2> QED
    BY <1>7, <2>1, <2>3, <2>4 DEF BlackIsSettled
<1>12. NothingPassedIsWhite'
  <2>1. \A t \in 1 .. start - 1 : t \in Names
    BY Sizes DEF SearchInductive, SearchTyped
  <2> QED
    BY <1>1, <1>2, <2>1 DEF SearchInductive, NothingPassedIsWhite
<1>13. ReportedCycleIsReal'
  BY <1>1 DEF ReportedCycleIsReal
<1> QED
  BY <1>8, <1>9, <1>10, <1>11, <1>12, <1>13 DEF SearchInductive

\* The outer loop ends with nothing on the path.
LEMMA FinishKeeps ==
  ASSUME SearchInductive, Finish
  PROVE  SearchInductive'
<1>1. /\ deps' = deps /\ start' = start /\ color' = color /\ path' = path /\ stack' = stack
      /\ cycle' = cycle /\ phase' = "acyclic" /\ Names' = Names /\ Count' = Count /\ Frame' = Frame
      /\ stack = <<>> /\ start > Count
  BY DEF Finish, Running, Names, Count, Frame
<1>2. start = Count + 1
  BY <1>1, Sizes DEF SearchInductive, SearchTyped
<1>3. SearchTyped' /\ GrayIsPath' /\ PathIsChain' /\ ReportedCycleIsReal'
  BY <1>1 DEF SearchInductive, SearchTyped, Graph, GrayIsPath, PathIsChain, Visited, ReportedCycleIsReal
<1>4. BlackIsSettled'
  BY <1>1, BlackKept DEF Black
<1>5. NothingPassedIsWhite'
  BY <1>1, <1>2 DEF SearchInductive, NothingPassedIsWhite
<1> QED
  BY <1>3, <1>4, <1>5 DEF SearchInductive

-----------------------------------------------------------------------------
\* No step of the search breaks what it rests on.
LEMMA SearchKept == SearchInductive /\ [SearchNext]_searchVars => SearchInductive'
<1> SUFFICES ASSUME SearchInductive, [SearchNext]_searchVars
             PROVE  SearchInductive'
    OBVIOUS
<1>1. CASE Root
  BY <1>1, RootKeeps
<1>2. CASE PassBy
  BY <1>2, PassByKeeps
<1>3. CASE Descend
  BY <1>3, DescendKeeps
<1>4. CASE Skip
  BY <1>4, SkipKeeps
<1>5. CASE Close
  BY <1>5, CloseKeeps
<1>6. CASE Leave
  BY <1>6, LeaveKeeps
<1>7. CASE Finish
  BY <1>7, FinishKeeps
<1>8. CASE UNCHANGED searchVars
  <2>1. SearchTyped' /\ GrayIsPath' /\ PathIsChain'
    BY <1>8 DEF searchVars, found, SearchInductive, SearchTyped, Graph, GrayIsPath, PathIsChain,
       Visited, Names, Count, Frame
  <2>2. BlackIsSettled'
    BY <1>8, BlackKept DEF searchVars, Black, Names
  <2>3. NothingPassedIsWhite' /\ ReportedCycleIsReal'
    BY <1>8 DEF searchVars, found, SearchInductive, NothingPassedIsWhite, ReportedCycleIsReal,
       Count, DependsOn
  <2> QED
    BY <2>1, <2>2, <2>3 DEF SearchInductive
<1> QED
  BY <1>1, <1>2, <1>3, <1>4, <1>5, <1>6, <1>7, <1>8 DEF SearchNext

\* Every state of a search satisfies the inductive invariant: the path, the
\* stack of iterators and the colours of _find_cycle stay in step, and what
\* is black is settled for good.
THEOREM SearchInvariant == SearchSpec => []SearchInductive
<1>1. SearchInit => SearchInductive
  BY SearchStarts DEF SearchInit
<1> QED
  BY <1>1, SearchKept, PTL DEF SearchSpec

\* When the search ends with None every task is black, and so settled.
LEMMA AcyclicFollows == SearchInductive => AcceptedIsAcyclic
<1> SUFFICES ASSUME SearchInductive, phase = "acyclic" PROVE AcyclicGraph
    BY DEF AcceptedIsAcyclic
<1>1. start = Count + 1 /\ Len(path) = 0
  <2>1. start = Count + 1 /\ stack = <<>>
    BY DEF SearchInductive, NothingPassedIsWhite
  <2> QED
    BY <2>1, Sizes
<1>2. Count \in Nat /\ Names = 1 .. Count /\ color \in [Names -> Color]
  BY Sizes DEF SearchInductive, SearchTyped
<1>3. \A t \in Names : color[t] # "WHITE"
  <2>1. start - 1 = Count
    BY <1>1, <1>2
  <2> QED
    BY <1>2, <2>1 DEF SearchInductive, NothingPassedIsWhite
<1>4. \A t \in Names : color[t] # "GRAY"
  BY <1>1, Sizes DEF SearchInductive, GrayIsPath
<1>5. Black = Names
  BY <1>2, <1>3, <1>4 DEF Black, Color
<1> QED
  BY <1>5 DEF SearchInductive, BlackIsSettled, AcyclicGraph

\* A document whose cycle search ends with None has an acyclic graph, however
\* many tasks and dependencies it has.
THEOREM AcceptedGraphsAreAcyclic == SearchSpec => []AcceptedIsAcyclic
  BY AcyclicFollows, SearchInvariant, PTL

\* What _find_cycle reports is a cycle of the document, named in order.
THEOREM ReportedCyclesAreReal == SearchSpec => []ReportedCycleIsReal
<1>1. SearchInductive => ReportedCycleIsReal
  BY DEF SearchInductive
<1> QED
  BY <1>1, SearchInvariant, PTL

\* The gray tasks are those of the path, so that the fallback of _find_cycle
\* for a gray child that is not on the path is never taken.
THEOREM GrayTasksAreOnThePath == SearchSpec => []GrayIsPath
<1>1. SearchInductive => GrayIsPath
  BY DEF SearchInductive
<1> QED
  BY <1>1, SearchInvariant, PTL

-----------------------------------------------------------------------------
(* Sequences and sets.                                                     *)

\* The members of a sequence are finitely many.
LEMMA Members ==
  ASSUME NEW X, NEW s \in Seq(X)
  PROVE  /\ IsFiniteSet(ToSet(s)) /\ ToSet(s) \subseteq X
         /\ ToSet(s) = {s[i] : i \in 1 .. Len(s)}
  <1>1. /\ Len(s) \in Nat /\ s \in [1 .. Len(s) -> X]
        /\ DOMAIN s = 1 .. Len(s)
    BY LenProperties
  <1>2. ToSet(s) = {s[i] : i \in 1 .. Len(s)}
    BY <1>1 DEF ToSet
  <1>3. s \in Surjection(1 .. Len(s), ToSet(s))
    BY <1>1, <1>2 DEF Surjection
  <1>4. IsFiniteSet(1 .. Len(s))
    BY <1>1, FS_Interval
  <1>5. IsFiniteSet(ToSet(s))
    BY <1>3, <1>4, FS_Surjection
  <1> QED
    BY <1>1, <1>2, <1>5

\* A finite set of numbers can be put in order: the place of a member is the
\* number of members up to it.
LEMMA Ordering ==
  ASSUME NEW S \in SUBSET Int, IsFiniteSet(S)
  PROVE  \E s \in [1 .. Cardinality(S) -> S] :
           \A i, j \in 1 .. Cardinality(S) : i < j => s[i] < s[j]
  <1> DEFINE n == Cardinality(S)
             UpTo(x) == {y \in S : y <= x}
             place == [x \in S |-> Cardinality(UpTo(x))]
  <1>0. \A x \in S : x \in Int
    OBVIOUS
  <1>1. n \in Nat /\ IsFiniteSet(1 .. n) /\ Cardinality(1 .. n) = n
    BY FS_CardinalityType, FS_Interval
  <1>u. \A x : \A y : y \in UpTo(x) <=> y \in S /\ y <= x
    OBVIOUS
  <1>2. ASSUME NEW x \in S
        PROVE  /\ IsFiniteSet(UpTo(x)) /\ Cardinality(UpTo(x)) \in Nat
               /\ Cardinality(UpTo(x)) <= n /\ Cardinality(UpTo(x)) >= 1
    <2>1. UpTo(x) \in SUBSET S /\ UpTo(x) # {}
      OBVIOUS
    <2>2. IsFiniteSet(UpTo(x)) /\ Cardinality(UpTo(x)) <= n
      BY <2>1, FS_Subset
    <2>3. Cardinality(UpTo(x)) \in Nat /\ Cardinality(UpTo(x)) # 0
      BY <2>1, <2>2, FS_CardinalityType, FS_EmptySet
    <2> QED
      BY <1>1, <2>2, <2>3
  <1>3. ASSUME NEW x \in S, NEW y \in S, x < y
        PROVE  Cardinality(UpTo(x)) < Cardinality(UpTo(y))
    <2>i. x \in Int /\ y \in Int /\ x < y
      BY <1>0, <1>3
    <2>s. \A z \in S : z <= x => z <= y
      BY <1>0, <2>i
    <2>1. UpTo(x) \in SUBSET UpTo(y) /\ y \in UpTo(y) /\ y \notin UpTo(x)
      <3> HIDE DEF UpTo
      <3>1. y <= y /\ ~(y <= x)
        BY <2>i
      <3> QED
        BY <1>u, <2>s, <3>1
    <2>2. /\ Cardinality(UpTo(x)) <= Cardinality(UpTo(y))
          /\ Cardinality(UpTo(x)) # Cardinality(UpTo(y))
      BY <2>1, <1>2, FS_Subset
    <2> QED
      BY <2>2, <1>2
  <1>4. place \in Injection(S, 1 .. n)
    <2>1. place \in [S -> 1 .. n]
      BY <1>1, <1>2
    <2>2. \A x, y \in S : place[x] = place[y] => x = y
      <3> SUFFICES ASSUME NEW x \in S, NEW y \in S, x # y
                   PROVE  place[x] # place[y]
        OBVIOUS
      <3>1. x < y \/ y < x
        OBVIOUS
      <3> QED
        BY <3>1, <1>2, <1>3
    <2> QED
      BY <2>1, <2>2 DEF Injection, IsInjective
  <1>5. place \in Surjection(S, 1 .. n)
    BY <1>1, <1>4, FS_Injection
  <1> DEFINE at == [k \in 1 .. n |-> CHOOSE x \in S : place[x] = k]
  <1>6. \A k \in 1 .. n : at[k] \in S /\ place[at[k]] = k
    BY <1>5 DEF Surjection
  <1>p. \A x, y \in S : x < y => place[x] < place[y]
    BY <1>3
  <1> HIDE DEF at, place, UpTo, n
  <1>7. ASSUME NEW i \in 1 .. n, NEW j \in 1 .. n, i < j PROVE at[i] < at[j]
    <2>1. at[i] \in S /\ at[j] \in S /\ place[at[i]] = i /\ place[at[j]] = j
      BY <1>6
    <2>i. at[i] \in Int /\ at[j] \in Int /\ i \in Int /\ j \in Int
      <3>1. at[i] \in Int /\ at[j] \in Int
        BY <1>0, <2>1
      <3>2. i \in Int /\ j \in Int
        BY <1>1
      <3> QED
        BY <3>1, <3>2
    <2>2. at[j] # at[i]
      BY <2>1, <1>7, <2>i
    <2>3. ~(at[j] < at[i])
      <3>1. SUFFICES ASSUME at[j] < at[i] PROVE FALSE
        OBVIOUS
      <3>2. place[at[j]] < place[at[i]]
        BY <2>1, <3>1, <1>p
      <3> QED
        BY <2>1, <3>2, <2>i, <1>7
    <2> QED
      BY <2>i, <2>2, <2>3
  <1>8. at \in [1 .. n -> S]
    BY <1>6 DEF at
  <1> QED
    BY <1>7, <1>8 DEF n

\* Sorting keeps the members, each once.
LEMMA Sorted ==
  ASSUME NEW S \in SUBSET Int, IsFiniteSet(S)
  PROVE  /\ InOrder(S) \in Seq(S) /\ ToSet(InOrder(S)) = S
         /\ NoDuplicates(InOrder(S))
  <1> DEFINE n == Cardinality(S)
             s == InOrder(S)
  <1>1. n \in Nat /\ IsFiniteSet(1 .. n) /\ Cardinality(1 .. n) = n
    BY FS_CardinalityType, FS_Interval
  <1>2. s \in [1 .. n -> S] /\ \A i, j \in 1 .. n : i < j => s[i] < s[j]
    BY Ordering DEF InOrder
  <1> HIDE DEF s
  <1>3. \A i, j \in 1 .. n : s[i] = s[j] => i = j
    <2> SUFFICES ASSUME NEW i \in 1 .. n, NEW j \in 1 .. n, i # j
                 PROVE  s[i] # s[j]
      OBVIOUS
    <2>1. i < j \/ j < i
      OBVIOUS
    <2>2. s[i] \in Int /\ s[j] \in Int
      BY <1>2
    <2> QED
      BY <2>1, <2>2, <1>2
  <1>4. s \in Injection(1 .. n, S)
    BY <1>2, <1>3 DEF Injection, IsInjective
  <1>5. s \in Surjection(1 .. n, S)
    BY <1>1, <1>4, FS_Injection
  <1>6. DOMAIN s = 1 .. n /\ s \in Seq(S)
    BY <1>1, <1>2
  <1>7. ToSet(s) = S
    BY <1>2, <1>5, <1>6 DEF ToSet, Surjection
  <1>8. NoDuplicates(s)
    BY <1>3, <1>6 DEF NoDuplicates
  <1> QED
    BY <1>6, <1>7, <1>8 DEF s

-----------------------------------------------------------------------------
(* The parts of a document: what is accepted is accepted again when it is  *)
(* normalised, without change, and meets the schema.                       *)

\* A value that is there is not taken for one that is missing.
LEMMA Values ==
  /\ \A v \in Int : v \notin Marker /\ v \notin NotFinite
  /\ \A v \in String : v \notin Marker /\ v \notin NotFinite
  /\ Absent # Null /\ Absent # Wrong /\ Null # Wrong
  /\ \A v \in NotFinite : v \notin Marker
  <1>1. \A m \in Marker \cup NotFinite : m \notin Int /\ m \notin String
    BY MarkersAssumption
  <1>2. \A v \in NotFinite : v \notin Marker
    BY MarkersAssumption DEF NotFinite
  <1> QED
    BY <1>1, <1>2, MarkersAssumption

\* The model that is stored is the registered one, if there is one.
LEMMA CanonicalModels ==
  ASSUME NEW p, NEW m
  PROVE  LET c == Canonical(p, m)
         IN  /\ c \in DOMAIN Models(p) \/ c = m
             /\ Canonical(p, c) = c
  <1> DEFINE c == Canonical(p, m)
  <1>1. CASE m \notin DOMAIN Models(p) /\ AliasOf(p, m) # {}
    <2>1. c \in AliasOf(p, m)
      BY <1>1 DEF Canonical
    <2>2. c \in DOMAIN Models(p)
      BY <2>1 DEF AliasOf
    <2> QED
      BY <2>2 DEF Canonical
  <1>2. CASE ~(m \notin DOMAIN Models(p) /\ AliasOf(p, m) # {})
    BY <1>2 DEF Canonical
  <1> QED
    BY <1>1, <1>2

\* _normalize_route: aliases and null efforts are resolved once.
LEMMA NormalRoutes ==
  ASSUME NEW r \in RouteForm \cup Marker, RouteAccepted(r)
  PROVE  LET n == NormalRoute(r)
         IN  /\ n \in RouteForm /\ RouteAccepted(n) /\ NormalRoute(n) = n
             /\ SchemaRoute(n)
             /\ Known(n) <=> Known(r)
             /\ Known(n) <=> n.model \in DOMAIN Models(n.provider)
  <1> DEFINE n == NormalRoute(r)
             p == r.provider
             c == Canonical(p, r.model)
             e == OrEmpty(r.effort, Absent)
  <1>1. r \in RouteForm /\ p \in DOMAIN Catalog \ Native /\ IsText(r.model)
        /\ r.extra = FALSE
    BY DEF RouteAccepted, Marker, RouteForm
  <1>2. n = [extra |-> FALSE, provider |-> p, model |-> c, effort |-> e]
    <2>1. n = [r EXCEPT !.model = c, !.effort = e]
      BY DEF NormalRoute
    <2> HIDE DEF n, p, c, e
    <2> QED
      BY <1>1, <2>1 DEF RouteForm, p
  <1>3. /\ c \in DOMAIN Models(p) \/ c = r.model
        /\ Canonical(p, c) = c
    BY CanonicalModels
  <1>4. p \in String \ {""} /\ c \in String \ {""}
    <2>1. p \in String \ {""} /\ DOMAIN Models(p) \subseteq String \ {""}
      BY <1>1, CatalogAssumption DEF Models
    <2>2. r.model \in String \ {""}
      BY <1>1 DEF RouteForm, Text, Marker, IsText
    <2> QED
      BY <1>3, <2>1, <2>2
  <1>5. IsText(p) /\ IsText(c)
    BY <1>4, Values DEF IsText, Marker
  <1>6. e = Absent \/ (e = r.effort /\ EffortAllowed(r))
    BY DEF OrEmpty, RouteAccepted
  <1>7. e \in Text /\ e # Null /\ OrEmpty(e, Absent) = e
    <2>1. r.effort \in Text
      BY <1>1 DEF RouteForm
    <2> QED
      BY <2>1, Values DEF OrEmpty, Text, Marker
  <1>8. e # Absent => e \in String \ {""}
    BY <1>1, <1>6, CatalogAssumption DEF EffortAllowed
  <1> HIDE DEF n, p, c, e
  <1>9. n \in RouteForm
    BY <1>2, <1>4, <1>7 DEF RouteForm, Text
  <1>10. NormalRoute(n) = n
    <2>1. NormalRoute(n) = [n EXCEPT !.model = c, !.effort = e]
      BY <1>2, <1>3, <1>7 DEF NormalRoute
    <2> QED
      BY <1>2, <2>1
  <1>11. /\ Known(n) <=> c \in DOMAIN Models(p)
         /\ Known(r) <=> c \in DOMAIN Models(p)
    BY <1>2, <1>3 DEF Known, c, p
  <1>12. RouteAccepted(n)
    <2>1. n \notin {Absent, Null, Wrong}
      BY <1>9, MarkersAssumption DEF Marker
    <2>2. Known(n) \/ Catalog[n.provider].unknown
      BY <1>2, <1>11 DEF RouteAccepted, p
    <2>3. e \notin {Absent, Null} => EffortAllowed(n)
      BY <1>2, <1>3, <1>6, <1>11 DEF EffortAllowed, p, c
    <2>4. n.effort = e /\ n.provider = p /\ n.model = c /\ n.extra = FALSE
      BY <1>2
    <2> QED
      BY <1>1, <1>5, <2>1, <2>2, <2>3, <2>4 DEF RouteAccepted
  <1>13. SchemaRoute(n)
    <2>1. Object(n)
      BY <1>2, <1>9, MarkersAssumption DEF Object, Marker
    <2>2. Optional(e, IsText(e))
      BY <1>8, Values DEF Optional, IsText, Marker
    <2> QED
      BY <1>2, <1>5, <2>1, <2>2 DEF SchemaRoute
  <1> QED
    BY <1>2, <1>9, <1>10, <1>11, <1>12, <1>13 DEF n

\* What a document holds is none of the markers.
LEMMA Things ==
  /\ \A x \in RouteForm \cup PromptForm \cup RetryForm \cup EntryForm \cup TaskForm :
       x \notin {Absent, Null, Wrong}
  /\ \A x \in Listed(Int) \cup Listed(String) \cup Listed(EntryForm)
                \cup Listed(Listed(String)) \cup Listed(TaskForm) :
       x \notin {Absent, Null, Wrong}
  BY MarkersAssumption DEF Marker

\* The empty list is a list of anything.
LEMMA EmptyList ==
  ASSUME NEW X
  PROVE  <<>> \in Listed(X) /\ DOMAIN <<>> = {}
  BY EmptySeq DEF Listed

\* _normalize_retry: the number of attempts is a count, and what is retried is
\* a timeout or a transport error.
LEMMA NormalRetries ==
  ASSUME NEW r \in RetryForm \cup Marker, RetryAccepted(r)
  PROVE  LET n == NormalRetry(r)
         IN  /\ n \in RetryForm /\ RetryAccepted(n) /\ NormalRetry(n) = n
             /\ n.backoffSeconds \notin NotFinite => SchemaRetry(n)
             /\ IsCount(n.maxAttempts) /\ ToSet(n.on) \subseteq Trigger
  <1> DEFINE n == NormalRetry(r)
             a == n.maxAttempts
             b == n.backoffSeconds
             o == n.on
  <1>1. r # Wrong /\ ~n.extra /\ IsCount(a) /\ NonNegativeNumber(b)
        /\ o \notin {Null, Wrong} /\ (\A i \in DOMAIN o : o[i] \in Trigger)
        /\ NoDuplicates(o)
    BY DEF RetryAccepted
  <1>2. /\ n = [extra |-> FALSE, maxAttempts |-> a, backoffSeconds |-> b, on |-> o]
        /\ a \in Number /\ b \in Number /\ o \in Listed(String)
    <2>1. CASE r \in {Absent, Null}
      <3>1. n = [extra |-> FALSE, maxAttempts |-> 1, backoffSeconds |-> 0, on |-> <<>>]
        BY <2>1 DEF NormalRetry
      <3> HIDE DEF n
      <3> QED
        BY <3>1, EmptyList DEF Number
    <2>2. CASE r \in RetryForm /\ r \notin {Absent, Null}
      <3> DEFINE ra == Get(r.maxAttempts, 1)
                 rb == Get(r.backoffSeconds, 0)
                 ro == Get(r.on, <<>>)
      <3>1. n = [r EXCEPT !.maxAttempts = ra, !.backoffSeconds = rb, !.on = ro]
        BY <2>2 DEF NormalRetry
      <3>2. ra \in Number /\ rb \in Number
        BY <2>2 DEF RetryForm, Get, Number
      <3>3. ro \in Listed(String) \cup {Null, Wrong}
        BY <2>2, EmptyList DEF RetryForm, Get, Marker
      <3> HIDE DEF n, ra, rb, ro
      <3>4. n = [extra |-> r.extra, maxAttempts |-> ra, backoffSeconds |-> rb, on |-> ro]
        BY <2>2, <3>1 DEF RetryForm
      <3>5. r.extra \in BOOLEAN
        BY <2>2 DEF RetryForm
      <3> QED
        BY <1>1, <3>2, <3>3, <3>4, <3>5
    <2> QED
      BY <1>1, <2>1, <2>2 DEF Marker
  <1> HIDE DEF n, a, b, o
  <1>3. /\ n.extra = FALSE /\ n.maxAttempts = a /\ n.backoffSeconds = b /\ n.on = o
        /\ n \in RetryForm
    BY <1>2 DEF RetryForm
  <1>4. a \notin Marker /\ b \notin Marker /\ o \notin {Absent, Null, Wrong}
        /\ n \notin {Absent, Null, Wrong}
    <2>1. a \notin Marker
      BY <1>1, <1>2, Values DEF IsCount, IsInteger, Number, Marker
    <2>2. b \notin Marker
      BY <1>1, <1>2, Values DEF NonNegativeNumber, IsInteger, Number, Marker
    <2> QED
      BY <1>2, <1>3, <2>1, <2>2, Things
  <1>5. NormalRetry(n) = n
    <2>1. NormalRetry(n)
            = [n EXCEPT !.maxAttempts = a, !.backoffSeconds = b, !.on = o]
      BY <1>3, <1>4 DEF NormalRetry, Get, Marker
    <2> QED
      BY <1>2, <2>1
  <1>6. RetryAccepted(n)
    BY <1>1, <1>3, <1>4, <1>5 DEF RetryAccepted
  <1>7. ToSet(o) \subseteq Trigger
    BY <1>1 DEF ToSet
  <1>8. b \notin NotFinite => SchemaRetry(n)
    <2> SUFFICES ASSUME b \notin NotFinite PROVE SchemaRetry(n)
      OBVIOUS
    <2>1. Object(n) /\ Array(o)
      BY <1>3, <1>4 DEF Object, Array
    <2>2. Optional(a, IsCount(a)) /\ Optional(b, Delay(b))
      BY <1>1 DEF Optional, Delay, NonNegativeNumber
    <2> QED
      BY <1>1, <1>3, <1>7, <2>1, <2>2 DEF SchemaRetry
  <1> QED
    BY <1>1, <1>3, <1>5, <1>6, <1>7, <1>8 DEF n

\* _normalize_verify: every command is one, and has no empty part.
LEMMA NormalVerifies ==
  ASSUME NEW v \in Listed(Listed(String)) \cup Marker, VerifyAccepted(v)
  PROVE  LET n == OrEmpty(v, <<>>)
         IN  /\ n \in Listed(Listed(String)) /\ VerifyAccepted(n)
             /\ OrEmpty(n, <<>>) = n
             /\ Array(n)
             /\ \A i \in DOMAIN n :
                  /\ Array(n[i]) /\ n[i] # <<>>
                  /\ \A k \in DOMAIN n[i] : IsText(n[i][k])
  <1> DEFINE n == OrEmpty(v, <<>>)
  <1>1. n \in Listed(Listed(String))
    BY EmptyList DEF OrEmpty, VerifyAccepted, Marker
  <1>2. OrEmpty(n, <<>>) = n
    BY DEF OrEmpty
  <1>3. \A i \in DOMAIN n :
          /\ n[i] \notin {Null, Wrong, <<>>}
          /\ \A k \in DOMAIN n[i] : IsText(n[i][k])
    BY DEF VerifyAccepted
  <1> HIDE DEF n
  <1>4. n \notin {Absent, Null, Wrong}
    BY <1>1, Things
  <1>5. \A i \in DOMAIN n : n[i] \in Listed(String)
    <2>1. \A i \in DOMAIN n : n[i] \in Listed(String) \cup {Null, Wrong}
      <3> DEFINE X == Listed(String) \cup {Null, Wrong}
      <3>1. n \in Seq(X)
        BY <1>1 DEF Listed
      <3> HIDE DEF X
      <3>2. \A i \in DOMAIN n : n[i] \in X
        BY <3>1
      <3> QED
        BY <3>2 DEF X
    <2> QED
      BY <1>3, <2>1
  <1>6. \A i \in DOMAIN n : Array(n[i])
    BY <1>5, Things DEF Array
  <1> QED
    BY <1>1, <1>2, <1>3, <1>4, <1>6 DEF VerifyAccepted, Array, n

\* _normalize_context_from: what a task quotes is an artifact of a dependency.
LEMMA NormalContexts ==
  ASSUME NEW D \in SUBSET Int,
         NEW c \in Listed(EntryForm) \cup Marker, ContextAccepted(c, D)
  PROVE  LET n == NormalContext(c)
         IN  /\ n \in Listed(EntryForm) /\ ContextAccepted(n, D)
             /\ NormalContext(n) = n
             /\ Array(n)
             /\ \A i \in DOMAIN n : SchemaEntry(n[i]) /\ n[i].task \in D
  <1> DEFINE entries == OrEmpty(c, <<>>)
             n == NormalContext(c)
  <1>1. entries \in Listed(EntryForm)
    BY EmptyList DEF OrEmpty, ContextAccepted, Marker
  <1>2. /\ n = [i \in DOMAIN entries |-> NormalEntry(entries[i])]
        /\ \A i \in DOMAIN entries :
             /\ entries[i] \notin {Null, Wrong} /\ ~entries[i].extra
             /\ entries[i].task \in D /\ entries[i].artifact \in Artifact
             /\ IsCount(Get(entries[i].maxBytes, 50000))
    BY DEF ContextAccepted, NormalContext
  <1> HIDE DEF entries, n
  <1>3. DOMAIN entries = 1 .. Len(entries) /\ Len(entries) \in Nat
    BY <1>1, LenProperties DEF Listed
  <1>4. ASSUME NEW i \in DOMAIN entries
        PROVE  /\ n[i] \in EntryForm /\ n[i] \notin {Absent, Null, Wrong} /\ ~n[i].extra
               /\ n[i].task \in D /\ n[i].artifact \in Artifact
               /\ IsCount(n[i].maxBytes) /\ n[i].maxBytes # Absent
               /\ NormalEntry(n[i]) = n[i]
    <2> DEFINE e == entries[i]
               m == NormalEntry(e)
               b == Get(e.maxBytes, 50000)
    <2>1. e \in EntryForm \cup {Null, Wrong}
      <3> DEFINE X == EntryForm \cup {Null, Wrong}
      <3>1. entries \in Seq(X)
        BY <1>1 DEF Listed
      <3> HIDE DEF X
      <3>2. entries[i] \in X
        BY <3>1
      <3> QED
        BY <3>2 DEF X
    <2>2. e \in EntryForm /\ ~e.extra /\ e.task \in D /\ e.artifact \in Artifact /\ IsCount(b)
      BY <1>2, <2>1
    <2>3. b \in Number /\ b # Absent
      BY <2>2, Values DEF EntryForm, Get, Number, Marker
    <2>4. m = [e EXCEPT !.maxBytes = b]
      BY DEF NormalEntry
    <2>5. n[i] = m
      BY <1>2
    <2> HIDE DEF e, b, m
    <2>6. m = [extra |-> e.extra, task |-> e.task, artifact |-> e.artifact, maxBytes |-> b]
      BY <2>2, <2>4 DEF EntryForm
    <2>7. m \in EntryForm
      BY <2>2, <2>3, <2>6 DEF EntryForm
    <2>8. NormalEntry(m) = m
      <3>1. Get(m.maxBytes, 50000) = b
        BY <2>3, <2>6 DEF Get
      <3>2. NormalEntry(m) = [m EXCEPT !.maxBytes = b]
        BY <3>1 DEF NormalEntry
      <3> QED
        BY <2>6, <3>2
    <2>9. m \notin {Absent, Null, Wrong}
      BY <2>7, Things
    <2> QED
      BY <2>2, <2>3, <2>5, <2>6, <2>7, <2>8, <2>9
  <1>5. n \in Listed(EntryForm) /\ DOMAIN n = DOMAIN entries
    <2>1. DOMAIN n = 1 .. Len(entries)
      BY <1>2, <1>3
    <2>2. n \in [1 .. Len(entries) -> EntryForm \cup {Null, Wrong}]
      BY <1>2, <1>3, <1>4, <2>1
    <2> QED
      BY <1>3, <2>1, <2>2 DEF Listed
  <1>6. n \notin {Absent, Null, Wrong}
    BY <1>5, Things
  <1>7. OrEmpty(n, <<>>) = n
    BY <1>6 DEF OrEmpty
  <1>8. NormalContext(n) = n
    BY <1>2, <1>4, <1>5, <1>7 DEF NormalContext
  <1>9. ContextAccepted(n, D)
    <2>1. \A i \in DOMAIN n : Get(n[i].maxBytes, 50000) = n[i].maxBytes
      BY <1>4, <1>5 DEF Get
    <2> QED
      BY <1>4, <1>5, <1>6, <1>7, <2>1 DEF ContextAccepted
  <1>10. \A i \in DOMAIN n : SchemaEntry(n[i])
    <2> SUFFICES ASSUME NEW i \in DOMAIN n PROVE SchemaEntry(n[i])
      OBVIOUS
    <2>1. IsInteger(n[i].task)
      <3>1. n[i].task \in Int
        BY <1>4, <1>5
      <3> QED
        BY <3>1, Values DEF IsInteger, Marker
    <2>2. Object(n[i])
      BY <1>4, <1>5 DEF Object
    <2> QED
      BY <1>4, <1>5, <2>1, <2>2 DEF SchemaEntry, Optional
  <1> QED
    BY <1>4, <1>5, <1>6, <1>8, <1>9, <1>10 DEF Array, n

\* The dependencies are put in order once: they stay the same set, of other
\* tasks of the document.
LEMMA NormalDeps ==
  ASSUME NEW count \in Nat, NEW self,
         NEW d \in Listed(Int) \cup Marker, DependenciesAccepted(d, self, count)
  PROVE  LET n == NormalDependencies(d)
         IN  /\ n \in Seq(1 .. count) /\ n \in Listed(Int)
             /\ DependenciesAccepted(n, self, count)
             /\ NormalDependencies(n) = n
             /\ ToSet(n) = ToSet(OrEmpty(d, <<>>)) /\ OrEmpty(n, <<>>) = n
             /\ Array(n) /\ NoDuplicates(n)
  <1> DEFINE names == OrEmpty(d, <<>>)
             n == NormalDependencies(d)
             S == ToSet(names)
  <1>1. names \in Listed(Int)
    BY EmptyList DEF OrEmpty, DependenciesAccepted, Marker
  <1>2. (\A i \in DOMAIN names : names[i] \in (1 .. count) \ {self}) /\ n = InOrder(S)
    BY DEF DependenciesAccepted, NormalDependencies
  <1> HIDE DEF names, n
  <1>3. names \in Seq((1 .. count) \ {self})
    <2>1. DOMAIN names = 1 .. Len(names) /\ Len(names) \in Nat
      BY <1>1, LenProperties DEF Listed
    <2>2. names \in [1 .. Len(names) -> Int \cup {Null, Wrong}]
      BY <1>1, LenProperties DEF Listed
    <2>3. names = [i \in 1 .. Len(names) |-> names[i]]
      BY <2>2
    <2>4. names \in [1 .. Len(names) -> (1 .. count) \ {self}]
      BY <1>2, <2>1, <2>3
    <2> QED
      BY <2>1, <2>4
  <1>4. IsFiniteSet(S) /\ S \subseteq (1 .. count) \ {self}
    BY <1>3, Members
  <1> HIDE DEF S
  <1>5. n \in Seq(S) /\ ToSet(n) = S /\ NoDuplicates(n)
    BY <1>2, <1>4, Sorted
  <1>6. n \in Seq((1 .. count) \ {self}) /\ n \in Seq(1 .. count) /\ n \in Listed(Int)
    <2>1. S \subseteq 1 .. count /\ S \subseteq Int \cup {Null, Wrong}
      BY <1>4
    <2>2. /\ Len(n) \in Nat /\ n \in [1 .. Len(n) -> S]
      BY <1>5, LenProperties
    <2>3. \A X : S \subseteq X => n \in [1 .. Len(n) -> X]
      BY <2>2
    <2>4. \A X : S \subseteq X => n \in Seq(X)
      BY <2>2, <2>3
    <2> QED
      BY <1>4, <2>1, <2>4 DEF Listed
  <1>7. n \notin {Absent, Null, Wrong} /\ OrEmpty(n, <<>>) = n
    BY <1>6, Things DEF OrEmpty
  <1>8. NormalDependencies(n) = n
    BY <1>2, <1>5, <1>7 DEF NormalDependencies
  <1>9. DependenciesAccepted(n, self, count)
    <2>1. \A i \in DOMAIN n : n[i] \in (1 .. count) \ {self}
      BY <1>6
    <2> QED
      BY <1>5, <1>7, <2>1 DEF DependenciesAccepted
  <1> QED
    BY <1>5, <1>6, <1>7, <1>8, <1>9 DEF Array, n, names, S

\* _validate_prompt: a prompt has one source.
LEMMA Prompts ==
  ASSUME NEW p \in PromptForm \cup Marker, PromptAccepted(p)
  PROVE  p \in PromptForm /\ SchemaPrompt(p)
  <1> DEFINE given == {f \in {"file", "text"} : p[f] # Absent}
  <1>1. p \in PromptForm /\ ~p.extra
    BY DEF PromptAccepted, Marker
  <1>2. Object(p)
    BY <1>1, Things DEF Object
  <1>3. CASE p.file = Absent /\ IsText(p.text)
    <2>1. given = {"text"}
      BY <1>3 DEF IsText
    <2>2. Cardinality(given) = 1
      BY <2>1, FS_Singleton
    <2> QED
      BY <1>1, <1>2, <1>3, <2>2 DEF SchemaPrompt, Optional
  <1>4. CASE p.text = Absent /\ p.file = "inside"
    <2>1. IsText(p.file)
      <3>1. p.file \in String /\ p.file # ""
        BY <1>4 DEF String
      <3> QED
        BY <3>1, Values DEF IsText, Marker
    <2>2. given = {"file"}
      BY <1>4, <2>1 DEF IsText
    <2>3. Cardinality(given) = 1
      BY <2>2, FS_Singleton
    <2> QED
      BY <1>1, <1>2, <1>4, <2>1, <2>3 DEF SchemaPrompt, Optional
  <1> QED
    BY <1>3, <1>4 DEF PromptAccepted

\* _normalize_defaults: what is missing is filled in once, and every limit is
\* a count.
LEMMA NormalDefaultsHold ==
  ASSUME NEW S \in Limited,
         NEW raw \in DefaultsForm(S) \cup Marker, DefaultsAccepted(raw)
  PROVE  LET n == NormalDefaults(raw)
         IN  /\ \E T \in Limited : n \in DefaultsForm(T)
             /\ DefaultsAccepted(n) /\ NormalDefaults(n) = n
             /\ n.timeoutSeconds \notin NotFinite => SchemaDefaults(n)
             /\ n.timeoutSeconds \in Number /\ n.workspace \in Text
             /\ IsCount(n.maxConcurrency)
             /\ \A p \in DOMAIN n.providerConcurrency : IsCount(n.providerConcurrency[p])
             /\ n \notin Marker
  <1> DEFINE n == NormalDefaults(raw)
             Fields == {"extra", "maxConcurrency", "providerConcurrency",
                        "timeoutSeconds", "workspace", "failurePolicy"}
  <1>1. /\ ~n.extra /\ IsCount(n.maxConcurrency)
        /\ n.providerConcurrency # Wrong
        /\ \A p \in DOMAIN n.providerConcurrency :
             p \in DOMAIN Catalog /\ IsCount(n.providerConcurrency[p])
        /\ PositiveNumber(n.timeoutSeconds)
        /\ n.workspace \in Workspace /\ n.failurePolicy \in FailurePolicy
    BY DEF DefaultsAccepted
  <1>2. /\ n.extra \in BOOLEAN /\ n.maxConcurrency \in Number /\ n.timeoutSeconds \in Number
        /\ \E T \in Limited : n.providerConcurrency \in [T -> Number]
        /\ DOMAIN n = Fields /\ n = [f \in Fields |-> n[f]]
    <2>1. CASE raw \in {Absent, Null}
      <3>1. n = BuiltInDefaults
        BY <2>1 DEF NormalDefaults
      <3> HIDE DEF n
      <3>2. {} \in Limited /\ [p \in {} |-> 1] \in [{} -> Number]
        BY DEF Limited
      <3> QED
        BY <3>1, <3>2 DEF BuiltInDefaults, Number
    <2>2. CASE raw \in DefaultsForm(S) /\ raw \notin {Absent, Null}
      <3>1. n = [f \in DOMAIN raw |->
                   IF f = "providerConcurrency" THEN OrEmpty(raw[f], BuiltInDefaults[f])
                                                ELSE Get(raw[f], BuiltInDefaults[f])]
        BY <2>2 DEF NormalDefaults
      <3>2. DOMAIN raw = Fields
        BY <2>2 DEF DefaultsForm
      <3> HIDE DEF n
      <3>3. /\ n.extra = Get(raw.extra, FALSE)
            /\ n.maxConcurrency = Get(raw.maxConcurrency, 2)
            /\ n.providerConcurrency = OrEmpty(raw.providerConcurrency, [p \in {} |-> 1])
            /\ n.timeoutSeconds = Get(raw.timeoutSeconds, 1140)
        BY <3>1, <3>2 DEF BuiltInDefaults
      <3>4. n.extra \in BOOLEAN /\ n.maxConcurrency \in Number /\ n.timeoutSeconds \in Number
        <4>1. /\ raw.extra \in BOOLEAN /\ raw.maxConcurrency \in Number
              /\ raw.timeoutSeconds \in Number
          BY <2>2 DEF DefaultsForm
        <4>2. 2 \in Number /\ 1140 \in Number /\ FALSE \in BOOLEAN
          BY DEF Number
        <4>3. n.extra \in BOOLEAN
          BY <3>3, <4>1, <4>2 DEF Get
        <4>4. \A v, b \in Number : Get(v, b) \in Number
          BY DEF Get
        <4>5. n.maxConcurrency \in Number /\ n.timeoutSeconds \in Number
          BY <3>3, <4>1, <4>2, <4>4
        <4> QED
          BY <4>3, <4>5
      <3>5. \E T \in Limited : n.providerConcurrency \in [T -> Number]
        <4>1. {} \in Limited /\ [p \in {} |-> 1] \in [{} -> Number]
          BY DEF Limited, Number
        <4>2. raw.providerConcurrency \in [S -> Number] \cup Marker
          BY <2>2 DEF DefaultsForm
        <4> QED
          BY <1>1, <3>3, <4>1, <4>2 DEF OrEmpty, Marker
      <3> QED
        BY <3>1, <3>2, <3>4, <3>5
    <2> QED
      BY <2>1, <2>2 DEF DefaultsAccepted, Marker
  <1> HIDE DEF n
  <1> DEFINE x == n.maxConcurrency
             q == n.providerConcurrency
             t == n.timeoutSeconds
             w == n.workspace
             f0 == n.failurePolicy
  <1>3. PICK T \in Limited : q \in [T -> Number]
    BY <1>2
  <1>4. w \in String /\ f0 \in String
    BY <1>1 DEF String
  <1>5. /\ x \notin Marker /\ t \notin Marker /\ w \notin Marker /\ f0 \notin Marker
        /\ q \notin Marker
    <2>1. x \notin Marker /\ t \notin Marker
      BY <1>1, Values DEF IsCount, IsInteger, PositiveNumber, Marker
    <2>2. \A m \in Marker : m \notin [T -> Number]
      BY MarkersAssumption
    <2> QED
      BY <1>3, <1>4, <2>1, <2>2, Values
  <1>6. n \in DefaultsForm(T)
    <2>1. n = [extra |-> n.extra, maxConcurrency |-> x, providerConcurrency |-> q,
               timeoutSeconds |-> t, workspace |-> w, failurePolicy |-> f0]
      BY <1>2
    <2> HIDE DEF x, q, t, w, f0
    <2>2. x \in Number /\ t \in Number /\ n.extra \in BOOLEAN
      BY <1>2 DEF x, t
    <2>3. w \in Text /\ f0 \in Text
      BY <1>4 DEF Text
    <2> QED
      BY <1>3, <2>1, <2>2, <2>3 DEF DefaultsForm
  <1>7. n \notin Marker
    BY <1>6, MarkersAssumption
  <1>8. NormalDefaults(n) = n
    <2>1. n.extra = FALSE
      BY <1>1, <1>2
    <2>2. \A f \in Fields :
            (IF f = "providerConcurrency" THEN OrEmpty(n[f], BuiltInDefaults[f])
                                          ELSE Get(n[f], BuiltInDefaults[f])) = n[f]
      <3>1. \A m \in {x, t, w, f0} : \A v : Get(m, v) = m
        BY <1>5 DEF Get, Marker
      <3>2. \A v : OrEmpty(q, v) = q
        BY <1>5 DEF OrEmpty, Marker
      <3>3. Get(n.extra, BuiltInDefaults["extra"]) = n.extra
        BY <2>1 DEF Get, BuiltInDefaults
      <3> QED
        BY <3>1, <3>2, <3>3
    <2>3. NormalDefaults(n) =
            [f \in Fields |->
               IF f = "providerConcurrency" THEN OrEmpty(n[f], BuiltInDefaults[f])
                                            ELSE Get(n[f], BuiltInDefaults[f])]
      BY <1>2, <1>7 DEF NormalDefaults, Marker
    <2> HIDE DEF Fields
    <2>4. NormalDefaults(n) = [f \in Fields |-> n[f]]
      BY <2>2, <2>3
    <2> QED
      BY <1>2, <2>4
  <1>9. DefaultsAccepted(n)
    BY <1>1, <1>7, <1>8 DEF DefaultsAccepted, Marker
  <1>10. t \notin NotFinite => SchemaDefaults(n)
    <2>1. Object(n) /\ Array(q)
      BY <1>1, <1>5, <1>7 DEF Object, Array, Marker
    <2>2. t \notin NotFinite => PositiveLimit(t)
      BY <1>1 DEF PositiveNumber, PositiveLimit
    <2> QED
      BY <1>1, <2>1, <2>2 DEF SchemaDefaults, Optional, InWorkspace
  <1> QED
    BY <1>1, <1>2, <1>4, <1>6, <1>7, <1>8, <1>9, <1>10 DEF n, Text

\* What the scheduler needs of a normalised task, and what makes it quotable.
Runnable(n) ==
  /\ n.route.provider \notin Native
  /\ IsCount(n.retry.maxAttempts) /\ ToSet(n.retry.on) \subseteq Trigger
  /\ \A k \in DOMAIN n.contextFrom : n.contextFrom[k].task \in ToSet(n.dependsOn)
  /\ n.mode = "write" => n.workspace \in {"isolated", "auto"}

\* _normalize_task: a task is normalised for good, and can be run.
LEMMA NormalTasks ==
  ASSUME NEW count \in Nat, NEW self, NEW d,
         d.timeoutSeconds \in Number, d.workspace \in Text,
         NEW t \in TaskForm \cup {Null, Wrong}, TaskAccepted(t, self, count, d)
  PROVE  LET n == NormalTask(t, d)
         IN  /\ n \in TaskForm /\ n.dependsOn \in Seq(1 .. count)
             /\ TaskAccepted(n, self, count, d) /\ NormalTask(n, d) = n
             /\ {n.timeoutSeconds, n.retry.backoffSeconds} \cap NotFinite = {} => SchemaTask(n)
             /\ Runnable(n)
             /\ Known(t.route) <=> n.route.model \in DOMAIN Models(n.route.provider)
  <1> DEFINE n == NormalTask(t, d)
             route == NormalRoute(t.route)
             needs == NormalDependencies(t.dependsOn)
             quotes == NormalContext(t.contextFrom)
             limit == Get(t.timeoutSeconds, d.timeoutSeconds)
             place == Get(t.workspace, d.workspace)
             retry == NormalRetry(t.retry)
             checks == OrEmpty(t.verify, <<>>)
             D == ToSet(OrEmpty(t.dependsOn, <<>>))
  <1>1. /\ t \in TaskForm /\ ~t.extra /\ t.mode \in {"read", "write"}
        /\ RouteAccepted(t.route) /\ PromptAccepted(t.prompt)
        /\ DependenciesAccepted(t.dependsOn, self, count)
        /\ ContextAccepted(t.contextFrom, D) /\ PositiveNumber(limit)
        /\ place \in Workspace /\ ~(t.mode = "write" /\ place = "shared")
        /\ RetryAccepted(t.retry) /\ VerifyAccepted(t.verify)
    BY DEF TaskAccepted
  <1>2. /\ t.extra \in BOOLEAN /\ t.mode \in Text
        /\ t.route \in RouteForm \cup Marker /\ t.prompt \in PromptForm \cup Marker
        /\ t.dependsOn \in Listed(Int) \cup Marker
        /\ t.contextFrom \in Listed(EntryForm) \cup Marker
        /\ t.timeoutSeconds \in Number /\ t.workspace \in Text
        /\ t.retry \in RetryForm \cup Marker
        /\ t.verify \in Listed(Listed(String)) \cup Marker
    BY <1>1 DEF TaskForm
  <1>3. n = [extra |-> t.extra, route |-> route, mode |-> t.mode, prompt |-> t.prompt,
             dependsOn |-> needs, contextFrom |-> quotes, timeoutSeconds |-> limit,
             workspace |-> place, retry |-> retry, verify |-> checks]
    <2>1. n = [t EXCEPT !.route = route, !.dependsOn = needs, !.contextFrom = quotes,
                        !.timeoutSeconds = limit, !.workspace = place,
                        !.retry = retry, !.verify = checks]
      BY DEF NormalTask
    <2> HIDE DEF n, route, needs, quotes, limit, place, retry, checks
    <2> QED
      BY <1>1, <2>1 DEF TaskForm
  <1>4. /\ route \in RouteForm /\ RouteAccepted(route) /\ NormalRoute(route) = route
        /\ SchemaRoute(route)
        /\ Known(t.route) <=> route.model \in DOMAIN Models(route.provider)
    BY <1>1, <1>2, NormalRoutes
  <1>5. t.prompt \in PromptForm /\ SchemaPrompt(t.prompt)
    BY <1>1, <1>2, Prompts
  <1>6. /\ needs \in Seq(1 .. count) /\ needs \in Listed(Int)
        /\ DependenciesAccepted(needs, self, count) /\ NormalDependencies(needs) = needs
        /\ ToSet(needs) = D /\ OrEmpty(needs, <<>>) = needs
        /\ Array(needs) /\ NoDuplicates(needs)
    BY <1>1, <1>2, NormalDeps
  <1>7. /\ quotes \in Listed(EntryForm) /\ ContextAccepted(quotes, D)
        /\ NormalContext(quotes) = quotes /\ Array(quotes)
        /\ \A i \in DOMAIN quotes : SchemaEntry(quotes[i]) /\ quotes[i].task \in D
    <2>1. D \in SUBSET Int
      <3>1. ToSet(needs) \subseteq 1 .. count
        BY <1>6, Members
      <3> QED
        BY <1>6, <3>1
    <2> HIDE DEF D, quotes
    <2> QED
      BY <1>1, <1>2, <2>1, NormalContexts DEF quotes
  <1>8. /\ retry \in RetryForm /\ RetryAccepted(retry) /\ NormalRetry(retry) = retry
        /\ retry.backoffSeconds \notin NotFinite => SchemaRetry(retry)
        /\ IsCount(retry.maxAttempts) /\ ToSet(retry.on) \subseteq Trigger
    BY <1>1, <1>2, NormalRetries
  <1>9. /\ checks \in Listed(Listed(String)) /\ VerifyAccepted(checks)
        /\ OrEmpty(checks, <<>>) = checks /\ Array(checks)
        /\ \A i \in DOMAIN checks :
             /\ Array(checks[i]) /\ checks[i] # <<>>
             /\ \A k \in DOMAIN checks[i] : IsText(checks[i][k])
    BY <1>1, <1>2, NormalVerifies
  <1>10. /\ limit \in Number /\ limit \notin Marker
         /\ place \in Text /\ place \notin Marker
    <2>1. limit \in Number /\ place \in Text
      BY <1>2 DEF Get
    <2>2. limit \notin Marker
      BY <1>1, Values DEF PositiveNumber, IsInteger, Marker
    <2>3. place \in String
      BY <1>1 DEF String
    <2> QED
      BY <2>1, <2>2, <2>3, Values
  <1> HIDE DEF n, route, needs, quotes, limit, place, retry, checks, D
  <1>11. /\ n.extra = t.extra /\ n.route = route /\ n.mode = t.mode /\ n.prompt = t.prompt
         /\ n.dependsOn = needs /\ n.contextFrom = quotes /\ n.timeoutSeconds = limit
         /\ n.workspace = place /\ n.retry = retry /\ n.verify = checks
    BY <1>3
  <1>12. n \in TaskForm
    BY <1>2, <1>3, <1>4, <1>6, <1>7, <1>8, <1>9, <1>10 DEF TaskForm
  <1>13. n \notin {Absent, Null, Wrong}
    BY <1>12, Things
  <1>14. \A v : Get(limit, v) = limit /\ Get(place, v) = place
    BY <1>10 DEF Get, Marker
  <1>15. NormalTask(n, d) = n
    <2>1. NormalTask(n, d)
            = [n EXCEPT !.route = route, !.dependsOn = needs, !.contextFrom = quotes,
                        !.timeoutSeconds = limit, !.workspace = place,
                        !.retry = retry, !.verify = checks]
      BY <1>4, <1>6, <1>7, <1>8, <1>9, <1>11, <1>14 DEF NormalTask
    <2> QED
      BY <1>3, <2>1
  <1>16. TaskAccepted(n, self, count, d)
    <2>1. ToSet(OrEmpty(n.dependsOn, <<>>)) = D
      BY <1>6, <1>11
    <2>2. Get(n.timeoutSeconds, d.timeoutSeconds) = limit /\ Get(n.workspace, d.workspace) = place
      BY <1>11, <1>14
    <2> QED
      BY <1>1, <1>4, <1>6, <1>7, <1>8, <1>9, <1>11, <1>13, <2>1, <2>2 DEF TaskAccepted
  <1>17. {n.timeoutSeconds, n.retry.backoffSeconds} \cap NotFinite = {} => SchemaTask(n)
    <2> SUFFICES ASSUME limit \notin NotFinite, retry.backoffSeconds \notin NotFinite PROVE SchemaTask(n)
      BY <1>11
    <2>1. Object(n)
      BY <1>1, <1>11, <1>13 DEF Object
    <2>2. PositiveLimit(limit) /\ InWorkspace(place)
      BY <1>1 DEF PositiveNumber, PositiveLimit, InWorkspace
    <2> QED
      BY <1>1, <1>4, <1>5, <1>6, <1>7, <1>8, <1>9, <1>11, <2>1, <2>2
         DEF SchemaTask, Optional
  <1>18. Runnable(n)
    <2>1. route.provider \notin Native
      BY <1>4 DEF RouteAccepted
    <2>2. n.mode = "write" => place \in {"isolated", "auto"}
      BY <1>1, <1>11 DEF Workspace
    <2> QED
      BY <1>6, <1>7, <1>8, <1>11, <2>1, <2>2 DEF Runnable
  <1> QED
    BY <1>4, <1>6, <1>11, <1>12, <1>15, <1>16, <1>17, <1>18 DEF n

-----------------------------------------------------------------------------
(* The validation of a document.                                           *)

\* The head that was accepted: its defaults are filled in, and its tasks are a
\* list.
LEMMA Heads ==
  ASSUME Loaded(document), HeadChecked
  PROVE  /\ \E S \in Limited : document \in DocumentForm(S)
         /\ document.tasks \in Listed(TaskForm) /\ document.tasks # <<>>
         /\ Len(document.tasks) \in Nat
         /\ DOMAIN document.tasks = 1 .. Len(document.tasks)
         /\ \A i \in DOMAIN document.tasks :
              document.tasks[i] \in TaskForm \cup {Null, Wrong}
         /\ \E T \in Limited : defaults \in DefaultsForm(T)
         /\ DefaultsAccepted(defaults) /\ NormalDefaults(defaults) = defaults
         /\ defaults.timeoutSeconds \notin NotFinite => SchemaDefaults(defaults)
         /\ defaults.timeoutSeconds \in Number /\ defaults.workspace \in Text
         /\ IsCount(defaults.maxConcurrency)
         /\ \A p \in DOMAIN defaults.providerConcurrency :
              IsCount(defaults.providerConcurrency[p])
         /\ defaults \notin Marker
  <1>1. PICK S \in Limited : document \in DocumentForm(S)
    BY DEF Loaded, HeadChecked, HeadAccepted
  <1>2. /\ document.defaults \in DefaultsForm(S) \cup Marker
        /\ document.tasks \in Listed(TaskForm) \cup Marker
    BY <1>1 DEF DocumentForm
  <1>3. /\ DefaultsAccepted(document.defaults) /\ defaults = NormalDefaults(document.defaults)
        /\ document.tasks \in Listed(TaskForm) /\ document.tasks # <<>>
    BY <1>2 DEF HeadChecked, HeadAccepted, Marker
  <1> DEFINE X == TaskForm \cup {Null, Wrong}
             tasks == document.tasks
  <1>4. tasks \in Seq(X)
    BY <1>3 DEF Listed
  <1> HIDE DEF X, tasks
  <1>5. Len(tasks) \in Nat /\ DOMAIN tasks = 1 .. Len(tasks) /\ \A i \in DOMAIN tasks : tasks[i] \in X
    BY <1>4, LenProperties
  <1>6. /\ \E T \in Limited : defaults \in DefaultsForm(T)
        /\ DefaultsAccepted(defaults) /\ NormalDefaults(defaults) = defaults
        /\ defaults.timeoutSeconds \notin NotFinite => SchemaDefaults(defaults)
        /\ defaults.timeoutSeconds \in Number /\ defaults.workspace \in Text
        /\ IsCount(defaults.maxConcurrency)
        /\ \A p \in DOMAIN defaults.providerConcurrency :
             IsCount(defaults.providerConcurrency[p])
        /\ defaults \notin Marker
    BY <1>2, <1>3, NormalDefaultsHold
  <1> QED
    BY <1>1, <1>3, <1>5, <1>6 DEF X, tasks

\* What is stored of a task of the document.
LEMMA Stored ==
  ASSUME Loaded(document), HeadChecked,
         NEW i \in DOMAIN document.tasks,
         TaskAccepted(document.tasks[i], i, Len(document.tasks), defaults)
  PROVE  LET n == NormalTask(document.tasks[i], defaults)
             count == Len(document.tasks)
         IN  /\ n \in TaskForm /\ n.dependsOn \in Seq(1 .. count)
             /\ TaskAccepted(n, i, count, defaults) /\ NormalTask(n, defaults) = n
             /\ {n.timeoutSeconds, n.retry.backoffSeconds} \cap NotFinite = {} => SchemaTask(n)
             /\ Runnable(n)
             /\ Known(document.tasks[i].route)
                  <=> n.route.model \in DOMAIN Models(n.route.provider)
  <1> DEFINE t == document.tasks[i]
             count == Len(document.tasks)
  <1>1. /\ count \in Nat /\ t \in TaskForm \cup {Null, Wrong}
        /\ defaults.timeoutSeconds \in Number /\ defaults.workspace \in Text
    BY Heads
  <1>2. TaskAccepted(t, i, count, defaults)
    OBVIOUS
  <1> HIDE DEF t, count
  <1>3. LET n == NormalTask(t, defaults)
        IN  /\ n \in TaskForm /\ n.dependsOn \in Seq(1 .. count)
            /\ TaskAccepted(n, i, count, defaults) /\ NormalTask(n, defaults) = n
            /\ {n.timeoutSeconds, n.retry.backoffSeconds} \cap NotFinite = {} => SchemaTask(n)
            /\ Runnable(n)
            /\ Known(t.route) <=> n.route.model \in DOMAIN Models(n.route.provider)
    BY <1>1, <1>2, NormalTasks
  <1> QED
    BY <1>3 DEF t, count

\* Before the search there is nothing to search, and nothing searched.
LEMMA NotSearching ==
  deps = <<>> /\ StartSearch /\ phase \notin {"acyclic", "cycle"} => SearchInductive
  <1> SUFFICES ASSUME deps = <<>>, StartSearch, phase \notin {"acyclic", "cycle"}
               PROVE  SearchInductive
    OBVIOUS
  <1>1. Graph
    BY EmptySeq DEF Graph
  <1> QED
    BY <1>1, SearchStarts

\* A search begins with the graph of the document.
LEMMA Beginning ==
  Graph /\ StartSearch /\ phase \notin {"acyclic", "cycle"} => SearchInductive
  BY SearchStarts

\* The same, after a step.
LEMMA NotSearchingNext ==
  ASSUME deps' = <<>>, StartSearch', phase' \notin {"acyclic", "cycle"}
  PROVE  SearchInductive'
  <1>1. (deps = <<>> /\ StartSearch /\ phase \notin {"acyclic", "cycle"})'
    OBVIOUS
  <1> QED
    BY <1>1, NotSearching, PTL

\* The search begins with a step from the tasks to it.
LEMMA BeginningNext ==
  ASSUME Graph', StartSearch', phase' \notin {"acyclic", "cycle"}
  PROVE  SearchInductive'
  <1>1. (Graph /\ StartSearch /\ phase \notin {"acyclic", "cycle"})'
    OBVIOUS
  <1> QED
    BY <1>1, Beginning, PTL

\* A validation begins with a document that json.loads can return.
LEMMA ValidationStarts == Init => ValidationInductive
  <1> SUFFICES ASSUME Init PROVE ValidationInductive
    OBVIOUS
  <1>1. SearchInductive
    BY NotSearching DEF Init
  <1>2. Loaded(document) /\ normal \in Seq(TaskForm)
    BY DocumentsAssumption, EmptySeq DEF Init
  <1> QED
    BY <1>1, <1>2 DEF Init, ValidationInductive, Searching

\* The head is checked once.
LEMMA CheckHeadKeeps ==
  ASSUME ValidationInductive, CheckHead
  PROVE  ValidationInductive'
  <1>1. /\ deps' = <<>> /\ StartSearch' /\ phase' \in {"tasks", "rejected"}
        /\ ~Searching' /\ normal' = <<>> /\ warned' = {} /\ document' = document
    BY DEF CheckHead, Reject, ValidationInductive, Searching, StartSearch, Names
  <1>2. SearchInductive'
    BY <1>1, NotSearchingNext
  <1>3. phase' = "tasks" => HeadChecked'
    BY <1>1 DEF CheckHead, Reject, HeadChecked
  <1>4. phase' = "tasks" => TasksChecked'
    <2> SUFFICES ASSUME phase' = "tasks" PROVE TasksChecked'
      OBVIOUS
    <2>1. HeadAccepted(document) /\ defaults' = NormalDefaults(document.defaults)
      BY DEF CheckHead, Reject
    <2>2. Loaded(document)' /\ HeadChecked'
      BY <1>1, <1>3 DEF ValidationInductive, Loaded
    <2>3. Len(document.tasks) \in Nat
      <3>1. PICK S \in Limited : document \in DocumentForm(S)
        BY <2>1 DEF Loaded, ValidationInductive, HeadAccepted
      <3>2. document.tasks \in Listed(TaskForm)
        BY <2>1, <3>1 DEF DocumentForm, HeadAccepted, Marker
      <3> QED
        BY <3>2, LenProperties DEF Listed
    <2>4. Len(normal') = 0 /\ DOMAIN normal' = {}
      BY <1>1
    <2> QED
      BY <1>1, <2>3, <2>4 DEF TasksChecked
  <1>5. Loaded(document') /\ normal' \in Seq(TaskForm)
    BY <1>1, EmptySeq DEF ValidationInductive
  <1> QED
    BY <1>1, <1>2, <1>3, <1>4, <1>5 DEF ValidationInductive, Searching

\* A task is normalised after those before it, or refused.
LEMMA NormalizeTaskKeeps ==
  ASSUME ValidationInductive, NormalizeTask
  PROVE  ValidationInductive'
  <1> DEFINE i == Considered
             count == Len(document.tasks)
             task == document.tasks[i]
  <1>1. /\ Loaded(document) /\ HeadChecked /\ TasksChecked /\ normal \in Seq(TaskForm)
        /\ deps = <<>> /\ StartSearch /\ phase = "tasks" /\ i <= count
        /\ UNCHANGED <<document, deps, start, color, path, stack, cycle, defaults>>
    BY DEF NormalizeTask, ValidationInductive, Searching
  <1>2. /\ deps' = <<>> /\ StartSearch' /\ phase' \in {"tasks", "rejected"} /\ ~Searching'
        /\ Loaded(document')
    BY <1>1 DEF NormalizeTask, Reject, Searching, StartSearch, Names
  <1>3. SearchInductive'
    BY <1>2, NotSearchingNext
  <1>4. count \in Nat /\ Len(normal) \in Nat /\ i = Len(normal) + 1
        /\ DOMAIN document.tasks = 1 .. count
    BY <1>1, Heads, LenProperties DEF Considered
  <1>5. CASE /\ TaskAccepted(task, i, count, defaults)
             /\ normal' = Append(normal, NormalTask(task, defaults))
             /\ warned' = IF Known(task.route) THEN warned ELSE warned \cup {i}
             /\ UNCHANGED phase
    <2> DEFINE n == NormalTask(task, defaults)
    <2>1. i \in DOMAIN document.tasks
      BY <1>1, <1>4
    <2>2. n \in TaskForm
      BY <1>1, <1>5, <2>1, Stored
    <2> HIDE DEF n
    <2>3. /\ normal' \in Seq(TaskForm) /\ Len(normal') = i /\ normal'[i] = n
          /\ DOMAIN normal = 1 .. Len(normal) /\ DOMAIN normal' = 1 .. i
          /\ \A j \in 1 .. Len(normal) : normal'[j] = normal[j]
      BY <1>1, <1>4, <1>5, <2>2, AppendProperties, LenProperties DEF n
    <2>4. HeadChecked'
      BY <1>1 DEF HeadChecked
    <2>5. TasksChecked'
      <3>1. \A j \in DOMAIN normal' : j \in DOMAIN normal \/ j = i
        BY <1>4, <2>3
      <3>2. \A j \in DOMAIN normal' :
              /\ TaskAccepted(document.tasks[j], j, count, defaults)
              /\ normal'[j] = NormalTask(document.tasks[j], defaults)
        BY <1>1, <1>5, <2>3, <3>1 DEF TasksChecked, n
      <3>3. warned' = {j \in DOMAIN normal' : ~Known(document.tasks[j].route)}
        <4>1. warned = {j \in DOMAIN normal : ~Known(document.tasks[j].route)}
          BY <1>1 DEF TasksChecked
        <4>2. DOMAIN normal' = DOMAIN normal \cup {i}
          BY <1>4, <2>3
        <4> HIDE DEF i
        <4> QED
          BY <1>5, <4>1, <4>2
      <3> QED
        BY <1>1, <2>3, <3>2, <3>3 DEF TasksChecked
    <2> QED
      BY <1>2, <1>3, <1>5, <1>1, <2>3, <2>4, <2>5 DEF ValidationInductive, Searching
  <1>6. CASE phase' = "rejected" /\ UNCHANGED <<normal, warned>>
    BY <1>1, <1>2, <1>3, <1>6 DEF ValidationInductive, Searching
  <1> QED
    BY <1>5, <1>6 DEF NormalizeTask, Reject

\* The search is through all tasks.
LEMMA BeginSearchKeeps ==
  ASSUME ValidationInductive, BeginSearch
  PROVE  ValidationInductive'
  <1> DEFINE count == Len(document.tasks)
             graph == [i \in DOMAIN normal |-> normal[i].dependsOn]
  <1>1. /\ Loaded(document) /\ HeadChecked /\ TasksChecked /\ normal \in Seq(TaskForm)
        /\ deps = <<>> /\ StartSearch
        /\ phase' = "search" /\ deps' = graph
        /\ color' = [i \in DOMAIN normal |-> "WHITE"]
        /\ UNCHANGED <<document, defaults, normal, warned, start, path, stack, cycle>>
        /\ Considered > count
    BY DEF BeginSearch, ValidationInductive, Searching, validation
  <1>2. /\ count \in Nat /\ Len(normal) = count
        /\ DOMAIN normal = 1 .. count /\ DOMAIN document.tasks = 1 .. count
    <2>1. count \in Nat /\ Len(normal) \in Nat /\ DOMAIN normal = 1 .. Len(normal)
          /\ DOMAIN document.tasks = 1 .. count
      BY <1>1, Heads, LenProperties
    <2>2. Len(normal) <= count /\ Len(normal) + 1 > count
      BY <1>1 DEF TasksChecked, Considered
    <2> QED
      BY <2>1, <2>2
  <1>3. \A i \in 1 .. count : normal[i].dependsOn \in Seq(1 .. count)
    <2> TAKE i \in 1 .. count
    <2>1. /\ TaskAccepted(document.tasks[i], i, count, defaults)
          /\ normal[i] = NormalTask(document.tasks[i], defaults)
      BY <1>1, <1>2 DEF TasksChecked
    <2> QED
      BY <1>1, <1>2, <2>1, Stored
  <1>4. Graph' /\ DOMAIN deps' = DOMAIN normal
    <2>1. deps' \in Seq(Seq(1 .. count)) /\ Len(deps') = count
      BY <1>1, <1>2, <1>3
    <2> QED
      BY <1>1, <2>1 DEF Graph
  <1>5. StartSearch'
    BY <1>1, <1>4 DEF StartSearch, Names
  <1>6. SearchInductive'
    BY <1>1, <1>4, <1>5, BeginningNext
  <1>7. HeadChecked' /\ TasksChecked'
    BY <1>1 DEF HeadChecked, TasksChecked
  <1> QED
    BY <1>1, <1>2, <1>6, <1>7 DEF ValidationInductive, Searching

\* The search leaves the document alone.
LEMMA SearchKeeps ==
  ASSUME ValidationInductive, Search
  PROVE  ValidationInductive'
  <1>1. SearchInductive'
    BY SearchKept DEF Search, ValidationInductive
  <1>2. Searching /\ Searching' /\ UNCHANGED deps
    BY DEF Search, SearchNext, Root, PassBy, Descend, Skip, Close, Leave, Finish,
           Running, Searching, found
  <1>3. UNCHANGED <<document, defaults, normal, warned>>
    BY DEF Search, validation
  <1>4. HeadChecked' /\ TasksChecked'
    BY <1>2, <1>3 DEF ValidationInductive, HeadChecked, TasksChecked
  <1> QED
    BY <1>1, <1>2, <1>3, <1>4 DEF ValidationInductive, Searching

\* Nothing changes.
LEMMA ValidationStutters ==
  ASSUME ValidationInductive, UNCHANGED validationVars
  PROVE  ValidationInductive'
  <1>1. SearchInductive'
    BY SearchKept DEF validationVars, ValidationInductive
  <1>2. UNCHANGED <<document, defaults, normal, warned, deps, phase, start, color, path, stack, cycle>>
    BY DEF validationVars, validation, searchVars, found
  <1>3. /\ HeadChecked => HeadChecked'
        /\ TasksChecked => TasksChecked'
        /\ StartSearch => StartSearch'
        /\ Searching' <=> Searching
    BY <1>2 DEF HeadChecked, TasksChecked, StartSearch, Searching, Names
  <1> QED
    BY <1>1, <1>2, <1>3 DEF ValidationInductive

\* Every state of validate_workflow satisfies the inductive invariant: what
\* is normalised was accepted under the normalised defaults, and the search
\* for a cycle is through the dependencies of all of it.
THEOREM ValidationInvariant == Spec => []ValidationInductive
  <1>1. ValidationInductive /\ [Next]_validationVars => ValidationInductive'
    BY CheckHeadKeeps, NormalizeTaskKeeps, BeginSearchKeeps, SearchKeeps, ValidationStutters
       DEF Next
  <1> QED
    BY <1>1, ValidationStarts, PTL DEF Spec

\* A document that validate_workflow accepts has an acyclic graph of tasks.
THEOREM AcceptedDocumentsAreAcyclic == Spec => []AcceptedIsAcyclic
  <1>1. ValidationInductive => AcceptedIsAcyclic
    BY AcyclicFollows DEF ValidationInductive
  <1> QED
    BY <1>1, ValidationInvariant, PTL

-----------------------------------------------------------------------------
(* What is accepted.                                                       *)

\* All tasks of an accepted document are stored as the rules say.
LEMMA AcceptedTasks ==
  ASSUME ValidationInductive, Accepted
  PROVE  /\ Loaded(document) /\ HeadChecked
         /\ normal \in Listed(TaskForm) /\ normal \notin {Absent, Null, Wrong, <<>>}
         /\ Len(normal) = Len(document.tasks)
         /\ DOMAIN normal = DOMAIN document.tasks
         /\ \A i \in DOMAIN normal :
              /\ deps[i] = normal[i].dependsOn
              /\ TaskAccepted(normal[i], i, Len(normal), defaults)
              /\ NormalTask(normal[i], defaults) = normal[i]
              /\ {normal[i].timeoutSeconds, normal[i].retry.backoffSeconds} \cap NotFinite = {}
                   => SchemaTask(normal[i])
              /\ Runnable(normal[i])
              /\ i \in warned
                   <=> normal[i].route.model \notin DOMAIN Models(normal[i].route.provider)
  <1>1. /\ Loaded(document) /\ HeadChecked /\ TasksChecked /\ normal \in Seq(TaskForm)
        /\ Len(normal) = Len(document.tasks)
        /\ deps = [i \in DOMAIN normal |-> normal[i].dependsOn]
    BY DEF ValidationInductive, Accepted, Searching
  <1>2. DOMAIN normal = 1 .. Len(normal) /\ DOMAIN document.tasks = 1 .. Len(normal)
    BY <1>1, Heads, LenProperties
  <1>3. normal \in Listed(TaskForm)
    <2>1. /\ Len(normal) \in Nat /\ normal \in [1 .. Len(normal) -> TaskForm]
      BY <1>1, LenProperties
    <2>2. normal \in [1 .. Len(normal) -> TaskForm \cup {Null, Wrong}]
      <3>1. \A X : TaskForm \subseteq X => normal \in [1 .. Len(normal) -> X]
        BY <2>1
      <3> QED
        BY <3>1
    <2> QED
      BY <2>1, <2>2 DEF Listed
  <1>4. normal # <<>>
    <2>1. document.tasks # <<>> /\ document.tasks \in Listed(TaskForm)
      BY <1>1, Heads
    <2>2. Len(document.tasks) # 0
      BY <2>1, EmptySeq DEF Listed
    <2> QED
      BY <1>1, <2>2
  <1>5. ASSUME NEW i \in DOMAIN normal
        PROVE  LET t == document.tasks[i]
               IN  /\ TaskAccepted(t, i, Len(document.tasks), defaults)
                   /\ normal[i] = NormalTask(t, defaults)
                   /\ i \in warned <=> ~Known(t.route)
    BY <1>1 DEF TasksChecked
  <1>6. ASSUME NEW i \in DOMAIN normal
        PROVE  /\ deps[i] = normal[i].dependsOn
               /\ TaskAccepted(normal[i], i, Len(normal), defaults)
               /\ NormalTask(normal[i], defaults) = normal[i]
               /\ {normal[i].timeoutSeconds, normal[i].retry.backoffSeconds} \cap NotFinite = {}
                    => SchemaTask(normal[i])
               /\ Runnable(normal[i])
               /\ i \in warned
                    <=> normal[i].route.model \notin DOMAIN Models(normal[i].route.provider)
    <2> DEFINE t == document.tasks[i]
    <2>1. /\ TaskAccepted(t, i, Len(document.tasks), defaults)
          /\ normal[i] = NormalTask(t, defaults)
          /\ i \in warned <=> ~Known(t.route)
          /\ i \in DOMAIN document.tasks
      BY <1>2, <1>5
    <2>2. LET n == NormalTask(t, defaults)
              count == Len(document.tasks)
          IN  /\ TaskAccepted(n, i, count, defaults) /\ NormalTask(n, defaults) = n
              /\ {n.timeoutSeconds, n.retry.backoffSeconds} \cap NotFinite = {} => SchemaTask(n)
              /\ Runnable(n)
              /\ Known(t.route) <=> n.route.model \in DOMAIN Models(n.route.provider)
      BY <1>1, <2>1, Stored
    <2> HIDE DEF t
    <2> QED
      BY <1>1, <2>1, <2>2
  <1> QED
    BY <1>1, <1>2, <1>3, <1>4, <1>6, Things

\* The document that is stored, field by field.
LEMMA StoredDocument ==
  ASSUME ValidationInductive, Accepted
  PROVE  /\ Normalised.extra = document.extra
         /\ Normalised.schemaVersion = 1
         /\ Normalised.name = document.name /\ Normalised.misnamed = document.misnamed
         /\ Normalised.defaults = defaults /\ Normalised.tasks = normal
         /\ Normalised \notin {Absent, Null, Wrong}
  <1>1. /\ Loaded(document) /\ HeadChecked /\ normal \in Listed(TaskForm)
    BY AcceptedTasks
  <1>2. PICK S \in Limited : document \in DocumentForm(S)
    BY <1>1, Heads
  <1>3. PICK T \in Limited : defaults \in DefaultsForm(T)
    BY <1>1, Heads
  <1>4. Normalised = [extra |-> document.extra, schemaVersion |-> 1,
                      name |-> document.name, misnamed |-> document.misnamed,
                      defaults |-> defaults, tasks |-> normal]
    <2>1. Normalised = [document EXCEPT !.schemaVersion = 1, !.defaults = defaults,
                                      !.tasks = normal]
      BY DEF Normalised
    <2>2. document \in [extra : BOOLEAN, schemaVersion : Number \cup {LikeOne}, name : Text,
                       misnamed : BOOLEAN, defaults : DefaultsForm(S) \cup Marker,
                       tasks : Listed(TaskForm) \cup Marker]
      BY <1>2 DEF DocumentForm
    <2> HIDE DEF Normalised
    <2> QED
      BY <2>1, <2>2
  <1>5. /\ document.extra \in BOOLEAN /\ 1 \in Number
        /\ document.name \in Text /\ document.misnamed \in BOOLEAN
    BY <1>2 DEF DocumentForm, Number
  <1>6. Normalised \in DocumentForm(T)
    BY <1>1, <1>3, <1>4, <1>5 DEF DocumentForm
  <1>7. Normalised \notin {Absent, Null, Wrong}
    BY <1>6, MarkersAssumption DEF Marker
  <1> QED
    BY <1>4, <1>7

\* The scheduler may take for granted what WorkflowGraph assumes: an accepted
\* document has counts for its limits and its attempts, quotes artifacts of
\* dependencies only, and sends no task to the host's own provider or, to
\* write, into the shared checkout.
THEOREM AcceptedDocumentsAreSchedulable == Spec => []AcceptedIsSchedulable
  <1>1. ValidationInductive => AcceptedIsSchedulable
    <2> SUFFICES ASSUME ValidationInductive, Accepted
                 PROVE  /\ IsCount(defaults.maxConcurrency)
                        /\ \A p \in DOMAIN defaults.providerConcurrency :
                             IsCount(defaults.providerConcurrency[p])
                        /\ \A i \in DOMAIN normal :
                             LET t == normal[i] IN
                             /\ t.route.provider \notin Native
                             /\ IsCount(t.retry.maxAttempts) /\ ToSet(t.retry.on) \subseteq Trigger
                             /\ \A k \in DOMAIN t.contextFrom : t.contextFrom[k].task \in DependsOn(i)
                             /\ t.mode = "write" => t.workspace \in {"isolated", "auto"}
                             /\ i \in warned <=> t.route.model \notin DOMAIN Models(t.route.provider)
      BY DEF AcceptedIsSchedulable
    <2>1. /\ IsCount(defaults.maxConcurrency)
          /\ \A p \in DOMAIN defaults.providerConcurrency :
               IsCount(defaults.providerConcurrency[p])
      BY AcceptedTasks, Heads
    <2>2. \A i \in DOMAIN normal : DependsOn(i) = ToSet(normal[i].dependsOn)
      BY AcceptedTasks DEF DependsOn, ToSet
    <2>3. \A i \in DOMAIN normal :
            /\ Runnable(normal[i])
            /\ i \in warned
                 <=> normal[i].route.model \notin DOMAIN Models(normal[i].route.provider)
      BY AcceptedTasks
    <2> QED
      BY <2>1, <2>2, <2>3 DEF Runnable
  <1> QED
    BY <1>1, ValidationInvariant, PTL

\* Normalising is done once and for all: what validate_workflow stores, it
\* accepts again and does not change, so that the digest of a workflow is the
\* same if it is validated once more.
THEOREM NormalisingIsFinal == Spec => []NormalisedIsFixpoint
  <1>1. ValidationInductive => NormalisedIsFixpoint
    <2> SUFFICES ASSUME ValidationInductive, Accepted
                 PROVE  /\ HeadAccepted(Normalised) /\ NormalDefaults(defaults) = defaults
                        /\ \A i \in DOMAIN normal :
                             /\ TaskAccepted(normal[i], i, Len(normal), defaults)
                             /\ NormalTask(normal[i], defaults) = normal[i]
      BY DEF NormalisedIsFixpoint
    <2>1. /\ DefaultsAccepted(defaults) /\ NormalDefaults(defaults) = defaults
          /\ HeadAccepted(document)
      BY AcceptedTasks, Heads DEF HeadChecked
    <2>2. HeadAccepted(Normalised)
      BY <2>1, AcceptedTasks, StoredDocument DEF HeadAccepted
    <2> QED
      BY <2>1, <2>2, AcceptedTasks
  <1> QED
    BY <1>1, ValidationInvariant, PTL

\* Whatever an author leaves out or sets to null, the document that is stored
\* meets the published schema; NaN and Infinity are left aside, because JSON
\* does not have them and the schema says nothing of them.
THEOREM StoredDocumentsMeetSchema == Spec => []NormalisedMeetsSchema
  <1>1. ValidationInductive => NormalisedMeetsSchema
    <2> SUFFICES ASSUME ValidationInductive, Accepted, ~HasNotFinite
                 PROVE  SchemaDocument(Normalised)
      BY DEF NormalisedMeetsSchema
    <2>1. HeadAccepted(document)
      BY AcceptedTasks DEF HeadChecked
    <2>2. SchemaDefaults(defaults)
      BY AcceptedTasks, Heads DEF HasNotFinite
    <2>3. \A i \in DOMAIN normal : SchemaTask(normal[i])
      BY AcceptedTasks DEF HasNotFinite
    <2>4. Object(Normalised) /\ Array(normal) /\ normal # <<>>
      BY <2>1, AcceptedTasks, StoredDocument DEF Object, Array, HeadAccepted
    <2> QED
      BY <2>1, <2>2, <2>3, <2>4, StoredDocument DEF SchemaDocument, HeadAccepted, Optional
  <1> QED
    BY <1>1, ValidationInvariant, PTL
=============================================================================
