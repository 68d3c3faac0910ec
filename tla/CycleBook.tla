----------------------------- MODULE CycleBook -----------------------------
(***************************************************************************)
(* What the cycles table promises: a row is added as running, is given its *)
(* outcome once and never again, and may be marked interrupted before      *)
(* that.  A row's cycle_id is its place in the table.  Nothing of which    *)
(* process does it, or when.                                               *)
(***************************************************************************)
EXTENDS Naturals, Sequences

VARIABLE log  \* the statuses, by cycle id

Outcomes == {"ok", "error", "halted_kill_switch", "skipped_market_closed",
             "skipped_no_entry_window"}

Statuses == Outcomes \cup {"running", "interrupted"}

Init == log = <<>>

Open == log' = Append(log, "running")

Close ==
    \E i \in DOMAIN log, o \in Outcomes :
        /\ log[i] \notin Outcomes
        /\ log' = [log EXCEPT ![i] = o]

\* Every row that says running, at once.
Sweep ==
    log' = [i \in DOMAIN log |->
              IF log[i] = "running" THEN "interrupted" ELSE log[i]]

Next == Open \/ Close \/ Sweep

Spec == Init /\ [][Next]_log
=============================================================================
