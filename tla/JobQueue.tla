------------------------------ MODULE JobQueue ------------------------------
(***************************************************************************)
(* What the two background workers of the UI promise their callers (the    *)
(* headers of ui/power_control.hpp and ui/media_control.hpp): a single     *)
(* worker that runs the jobs it is given one at a time and in order, and   *)
(* that may be closed at any moment, which drops what is still waiting but *)
(* lets the job under way finish.                                          *)
(***************************************************************************)
EXTENDS Sequences

CONSTANTS Jobs,    \* the jobs a caller can submit
          Nothing  \* "no job": none under way

VARIABLES todo,    \* submitted and not begun, oldest first
          current, \* the job under way, or Nothing
          open     \* jobs are being begun

vars == <<todo, current, open>>

Init == todo = <<>> /\ current = Nothing /\ open = FALSE

Submit(j) ==
  /\ todo' = Append(todo, j)
  /\ UNCHANGED <<current, open>>

Begin ==
  /\ open /\ current = Nothing /\ todo # <<>>
  /\ current' = Head(todo) /\ todo' = Tail(todo)
  /\ UNCHANGED open

Finish ==
  /\ current # Nothing
  /\ current' = Nothing
  /\ UNCHANGED <<todo, open>>

Close ==
  /\ open' = FALSE
  /\ UNCHANGED <<todo, current>>

\* Opening starts from an empty queue, and only with no job under way.
Open ==
  /\ ~open /\ current = Nothing
  /\ open' = TRUE /\ todo' = <<>>
  /\ UNCHANGED current

Next == (\E j \in Jobs : Submit(j)) \/ Begin \/ Finish \/ Close \/ Open

Spec == Init /\ [][Next]_vars /\ WF_vars(Begin) /\ WF_vars(Finish)
=============================================================================
