----------------------------- MODULE ActionQueue -----------------------------
(***************************************************************************)
(* What the rest of the program expects of ArtCache::BackgroundTask: an    *)
(* action that is queued is done in the end, actions are done one at a     *)
(* time and in the order in which they were queued, and one that waits     *)
(* already is not queued again.  Closing drops what waits; the action that *)
(* is being done is done.                                                  *)
(***************************************************************************)
EXTENDS Sequences, Functions

CONSTANT Actions

VARIABLES
    todo,       \* the actions that wait
    doing,      \* no action or the one that is being done
    closed

vars == <<todo, doing, closed>>

Init == todo = <<>> /\ doing = {} /\ closed = FALSE

Submit(a) ==
    /\ ~closed
    /\ a \notin Range(todo)
    /\ todo' = Append(todo, a)
    /\ UNCHANGED <<doing, closed>>

Take ==
    /\ todo # <<>>
    /\ doing = {}
    /\ doing' = {Head(todo)}
    /\ todo' = Tail(todo)
    /\ UNCHANGED closed

Finish ==
    /\ doing # {}
    /\ doing' = {}
    /\ UNCHANGED <<todo, closed>>

Close ==
    /\ ~closed
    /\ closed' = TRUE
    /\ todo' = <<>>
    /\ UNCHANGED doing

Next == (\E a \in Actions : Submit(a)) \/ Take \/ Finish \/ Close

Safety == Init /\ [][Next]_vars

Spec == Safety /\ WF_vars(Take) /\ WF_vars(Finish)
=============================================================================
