------------------------- MODULE WorktreeLifecycle -------------------------
(***************************************************************************)
(* What isolated dispatch promises of the branch and the worktree of one   *)
(* dispatch identifier, and what it leaves behind when something fails.    *)
(* "owned": the worktree exists and workspace.json lets apply and discard  *)
(* find it.  "orphan": it exists and no record owns it.  "stuck": only the *)
(* branch is left.  No command of the runtime takes a dispatch out of the  *)
(* last two.                                                               *)
(***************************************************************************)
CONSTANT Dispatches

VARIABLE life

Init == life = [d \in Dispatches |-> "none"]

Become(d, from, to) ==
  /\ life[d] \in from
  /\ life' = [life EXCEPT ![d] = to]

Own(d)     == Become(d, {"none"}, "owned")
Discard(d) == Become(d, {"owned"}, "none")
Lose(d)    == Become(d, {"none", "owned"}, "orphan")
Strand(d)  == Become(d, {"none", "owned"}, "stuck")

Next == \E d \in Dispatches : Own(d) \/ Discard(d) \/ Lose(d) \/ Strand(d)

Spec == Init /\ [][Next]_life
=============================================================================
