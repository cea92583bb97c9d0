------------------------------ MODULE TaskGraph ------------------------------
(***************************************************************************)
(* What the shared task list promises (koder_agent/harness/tasks): a set   *)
(* of tasks with a status and "blocks" edges between them, changed by      *)
(* whole edits.  An identifier is given out once, whatever fails and       *)
(* whatever is deleted.                                                    *)
(***************************************************************************)
EXTENDS Integers

CONSTANTS Ids,       \* task identifiers
          Statuses,  \* task statuses
          Legacy     \* the tasks found in the directory at the start

VARIABLES issued,    \* identifiers that will never be given out (again)
          tasks,     \* the tasks that exist
          status,    \* status[t] of every task
          edges      \* <<b, d>>: b blocks d

graph == <<issued, tasks, status, edges>>

Init ==
    /\ issued = Legacy
    /\ tasks = Legacy
    /\ status = [t \in Legacy |-> "pending"]
    /\ edges = {}

Create(t) ==
    /\ t \notin issued
    /\ issued' = issued \cup {t}
    /\ tasks' = tasks \cup {t}
    /\ status' = [u \in tasks' |-> IF u = t THEN "pending" ELSE status[u]]
    /\ UNCHANGED edges

\* A creation failed after its identifier was reserved.
Burn(t) ==
    /\ t \notin issued
    /\ issued' = issued \cup {t}
    /\ UNCHANGED <<tasks, status, edges>>

\* A new status and new edges between existing tasks, all or nothing.
Edit(t, s, E) ==
    /\ t \in tasks
    /\ E \subseteq (tasks \X tasks)
    /\ \A e \in E : e[1] # e[2] /\ t \in {e[1], e[2]}
    /\ status' = [status EXCEPT ![t] = s]
    /\ edges' = edges \cup E
    /\ UNCHANGED <<issued, tasks>>

Delete(t) ==
    /\ t \in tasks
    /\ tasks' = tasks \ {t}
    /\ status' = [u \in tasks' |-> status[u]]
    /\ edges' = {e \in edges : t \notin {e[1], e[2]}}
    /\ UNCHANGED issued

Next ==
    \E t \in Ids :
        \/ Create(t) \/ Burn(t) \/ Delete(t)
        \/ \E s \in Statuses, E \in SUBSET (({t} \X Ids) \cup (Ids \X {t})) : Edit(t, s, E)

Spec == Init /\ [][Next]_graph
=============================================================================
