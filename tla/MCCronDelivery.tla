--------------------------- MODULE MCCronDelivery ---------------------------
(* Finite instances of CronDelivery.                                       *)
EXTENDS CronDelivery, TLC

CONSTANTS j1, j2

\* j1 is due in minutes 0 and 1, j2 in minute 0 only.
MCSchedule == (j1 :> {0, 1}) @@ (j2 :> {0})
MCOneShotSchedule == (j2 :> {0})

\* Two processes share one job at a time, or one has two jobs at once.
Small == Cardinality(tasks) < 2 \/ \E p \in Procs : mode[p] = "down"

\* The tick that a stopping process still begins has the job list to itself.
SettlesAlone ==
    \A p, q \in Procs : mode[p] = "settling" /\ p # q => mode[q] = "down"

MCNext == Next /\ Small' /\ SettlesAlone'

\* (A behaviour that stops at the bound is not fair: the clock or a start is
\* owed to it.)
MCSpec == Init /\ [][MCNext]_vars /\ Fairness
=============================================================================
