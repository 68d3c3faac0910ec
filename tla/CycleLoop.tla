----------------------------- MODULE CycleLoop -----------------------------
(***************************************************************************)
(* The life of a cycle: cycle.run_cycle with each of its early returns,    *)
(* run again and again by `trader run` (the loops, which a service manager *)
(* starts again whenever they exit) and once by `trader cycle` (the one-   *)
(* shots), side by side on one cycles table, with every failure the code   *)
(* handles, the one it does not, and a process that may die at any step.   *)
(*                                                                         *)
(*   down -Start-> up -OpenCycle-> opened -PassKillSwitch-> reading        *)
(*     -BuildContext-> thinking -AgentProposes-> routing                   *)
(*                                                                         *)
(* From each of the last four the cycle may be closed with an outcome, and *)
(* the process goes on by -Alert-> up (a loop) or down (a one-shot).       *)
(*                                                                         *)
(* A row of the table is its status; its place is its cycle_id.  The cron  *)
(* trigger is left open: a loop may open a cycle whenever it is idle.      *)
(***************************************************************************)
EXTENDS Naturals, Sequences, FiniteSets

CONSTANTS
    Loops,       \* processes running `trader run`
    OneShots,    \* processes running `trader cycle`
    Threshold,   \* AlertSink.error_threshold
    MaxCycles,   \* bound: cycles ever opened
    MaxCrashes   \* bound: process deaths

ASSUME LoopAssumption ==
    /\ Loops \cap OneShots = {}
    /\ Threshold \in Nat \ {0}
    /\ MaxCycles \in Nat
    /\ MaxCrashes \in Nat

Processes == Loops \cup OneShots

VARIABLES
    cycles,   \* the status of each row of the cycles table
    kill,     \* flags['kill_switch'] = '1'
    pc,       \* where each process is
    mine,     \* the cycle id each process holds, 0 outside run_cycle
    alerts,   \* the newest cycle id at each consecutive_error_cycles alert
    crashes,  \* how often a process died
    \* History, read by properties only:
    left,     \* rows left open by their process since a process last started
    unsent    \* the newest cycle id where a process died before its alert

vars == <<cycles, kill, pc, mine, alerts, crashes, left, unsent>>

Book == INSTANCE CycleBook WITH log <- cycles

\* The steps of a process that holds a cycle it has not closed.
Working == {"opened", "reading", "thinking", "routing"}

\* Where a process is once its cycle is over.
After(p) == IF p \in Loops THEN "up" ELSE "down"

-----------------------------------------------------------------------------
Init ==
    /\ cycles = <<>>
    /\ kill = FALSE
    /\ pc = [p \in Processes |-> "down"]
    /\ mine = [p \in Processes |-> 0]
    /\ alerts = {}
    /\ crashes = 0
    /\ left = {}
    /\ unsent = {}

\* db.reconcile_orphan_cycles: whoever's they are, rows that say running.
Swept == [i \in DOMAIN cycles |->
            IF cycles[i] = "running" THEN "interrupted" ELSE cycles[i]]

\* Mutant: the orphans are deleted.
StartDeleting(p) ==
    /\ pc[p] = "down"
    /\ cycles' = SelectSeq(cycles, LAMBDA status : status # "running")
    /\ pc' = [pc EXCEPT ![p] = "up"]
    /\ left' = {}
    /\ UNCHANGED <<kill, mine, alerts, crashes, unsent>>

\* Mutant: only the newest row is looked at.
StartNewestOnly(p) ==
    /\ pc[p] = "down"
    /\ cycles' = [i \in DOMAIN cycles |->
                    IF i = Len(cycles) THEN Swept[i] ELSE cycles[i]]
    /\ pc' = [pc EXCEPT ![p] = "up"]
    /\ left' = {}
    /\ UNCHANGED <<kill, mine, alerts, crashes, unsent>>

\* cmd_run and cmd_cycle up to the first cycle.
Start(p) ==
    /\ pc[p] = "down"
    /\ cycles' = Swept
    /\ pc' = [pc EXCEPT ![p] = "up"]
    /\ left' = {}
    /\ UNCHANGED <<kill, mine, alerts, crashes, unsent>>

\* SIGTERM, or the end of a one-shot that never opened its cycle: between
\* cycles nothing is left behind.
Stop(p) ==
    /\ pc[p] = "up"
    /\ pc' = [pc EXCEPT ![p] = "down"]
    /\ UNCHANGED <<cycles, kill, mine, alerts, crashes, left, unsent>>

OpenCycle(p) ==
    /\ pc[p] = "up"
    /\ Len(cycles) < MaxCycles
    /\ cycles' = Append(cycles, "running")
    /\ mine' = [mine EXCEPT ![p] = Len(cycles) + 1]
    /\ pc' = [pc EXCEPT ![p] = "opened"]
    /\ UNCHANGED <<kill, alerts, crashes, left, unsent>>

\* Mutant: the newest row is closed, not the cycle's own.
CloseNewest(p, outcome) ==
    /\ cycles' = [cycles EXCEPT ![Len(cycles)] = outcome]
    /\ pc' = [pc EXCEPT ![p] = IF outcome = "error" THEN "alerting" ELSE After(p)]
    /\ mine' = [mine EXCEPT ![p] = 0]

\* run_cycle.finish up to the alert: close_cycle writes the outcome whatever
\* the row says by now; only an error has anything more to do.
Close(p, outcome) ==
    /\ cycles' = [cycles EXCEPT ![mine[p]] = outcome]
    /\ pc' = [pc EXCEPT ![p] = IF outcome = "error" THEN "alerting" ELSE After(p)]
    /\ mine' = [mine EXCEPT ![p] = 0]

\* The cycle goes on to its next step.
Proceed(p, next) ==
    /\ pc' = [pc EXCEPT ![p] = next]
    /\ UNCHANGED <<cycles, mine>>

CheckKillSwitch(p) ==
    /\ pc[p] = "opened"
    /\ IF kill THEN Close(p, "halted_kill_switch") ELSE Proceed(p, "reading")
    /\ UNCHANGED <<kill, alerts, crashes, left, unsent>>

\* The fills read back, the context, the snapshots and the two gates: a failed
\* broker read is an error, a closed market or a day with nothing left to do a
\* skip, and either gate may be forced open.
BuildContext(p) ==
    /\ pc[p] = "reading"
    /\ \/ \E o \in {"error", "skipped_market_closed", "skipped_no_entry_window"} :
            Close(p, o)
       \/ Proceed(p, "thinking")
    /\ UNCHANGED <<kill, alerts, crashes, left, unsent>>

\* agent.run raises, or has placed its orders itself, or wants none; or it
\* leaves an order for run_cycle to place.
AgentRuns(p) ==
    /\ pc[p] = "thinking"
    /\ \/ \E o \in {"error", "ok"} : Close(p, o)
       \/ Proceed(p, "routing")
    /\ UNCHANGED <<kill, alerts, crashes, left, unsent>>

\* No risk configuration or no price is an error; a placed order, approved or
\* not, is a cycle that went well.
RouteOrder(p) ==
    /\ pc[p] = "routing"
    /\ \E o \in {"error", "ok"} : Close(p, o)
    /\ UNCHANGED <<kill, alerts, crashes, left, unsent>>

\* place_order reads the account and the positions again, and a BrokerError of
\* those reads is caught nowhere: the scheduler logs it and waits for the next
\* cycle, a one-shot ends; the row goes on saying running.
RouteRaises(p) ==
    /\ pc[p] = "routing"
    /\ left' = left \cup {mine[p]}
    /\ mine' = [mine EXCEPT ![p] = 0]
    /\ pc' = [pc EXCEPT ![p] = After(p)]
    /\ UNCHANGED <<cycles, kill, alerts, crashes, unsent>>

\* Mutant: the streak is looked for one row too far back.
ErrorStreakBefore ==
    /\ Len(cycles) > Threshold
    /\ \A i \in Len(cycles) - Threshold .. Len(cycles) - 1 : cycles[i] = "error"

\* AlertSink.check_consecutive_errors: the newest rows, whoever's they are.
ErrorStreak ==
    /\ Len(cycles) >= Threshold
    /\ \A i \in Len(cycles) - Threshold + 1 .. Len(cycles) : cycles[i] = "error"

Alert(p) ==
    /\ pc[p] = "alerting"
    /\ alerts' = IF ErrorStreak THEN alerts \cup {Len(cycles)} ELSE alerts
    /\ pc' = [pc EXCEPT ![p] = After(p)]
    /\ UNCHANGED <<cycles, kill, mine, crashes, left, unsent>>

\* Killed, out of memory, power cut.
Crash(p) ==
    /\ pc[p] # "down"
    /\ crashes < MaxCrashes
    /\ crashes' = crashes + 1
    /\ pc' = [pc EXCEPT ![p] = "down"]
    /\ mine' = [mine EXCEPT ![p] = 0]
    /\ left' = IF pc[p] \in Working THEN left \cup {mine[p]} ELSE left
    /\ unsent' = IF pc[p] = "alerting" THEN unsent \cup {Len(cycles)} ELSE unsent
    /\ UNCHANGED <<cycles, kill, alerts>>

ToggleKill ==
    /\ kill' = ~kill
    /\ UNCHANGED <<cycles, pc, mine, alerts, crashes, left, unsent>>

\* One step of run_cycle.
Run(p) ==
    \/ CheckKillSwitch(p)
    \/ BuildContext(p)
    \/ AgentRuns(p)
    \/ RouteOrder(p)
    \/ RouteRaises(p)
    \/ Alert(p)

Next ==
    \/ \E p \in Processes : Start(p) \/ Stop(p) \/ OpenCycle(p) \/ Run(p) \/ Crash(p)
    \/ ToggleKill

\* A process that holds a cycle goes on: the tool rounds are counted, and a
\* call to the model or the broker is taken to answer or to raise ("a broker
\* timeout fails the cycle loudly").  A loop that is down is started again
\* (systemd's Restart=always, launchd's KeepAlive).  No one has to stop, crash,
\* open a cycle or start a one-shot.
Fairness ==
    /\ \A p \in Processes : WF_vars(Run(p))
    /\ \A p \in Loops : WF_vars(Start(p))

Spec == Init /\ [][Next]_vars /\ Fairness

-----------------------------------------------------------------------------
Pcs == Working \cup {"down", "up", "alerting"}

\* The shape of every variable; a process that works on a cycle holds a row.
TypeOK ==
    /\ cycles \in Seq(Book!Statuses)
    /\ Len(cycles) <= MaxCycles
    /\ kill \in BOOLEAN
    /\ pc \in [Processes -> Pcs]
    /\ mine \in [Processes -> 0 .. MaxCycles]
    /\ \A p \in Processes : IF pc[p] \in Working
                            THEN mine[p] \in DOMAIN cycles
                            ELSE mine[p] = 0
    /\ alerts \subseteq 1 .. MaxCycles
    /\ crashes \in 0 .. MaxCrashes
    /\ left \subseteq 1 .. MaxCycles
    /\ unsent \subseteq 0 .. MaxCycles

(* Two processes on one table still make a CycleBook: a row gets the       *)
(* outcome of its own cycle once, and no start, sweep or second process    *)
(* ever changes an outcome that is on record.                              *)
ImplementsBook == Book!Spec

(* Three errors in a row never go unnoticed: when the newest rows are all  *)
(* errors and no one is about to look at them, the alert for them is on    *)
(* file, whichever process closed last and in whatever order, unless that  *)
(* process died right before sending it.                                   *)
StreaksAreAlerted ==
    ErrorStreak /\ (\A p \in Processes : pc[p] # "alerting")
        => Len(cycles) \in alerts \cup unsent

SaysRunning(i) == i \in DOMAIN cycles /\ cycles[i] = "running"

\* A loop that died can be relied on to come back; nobody else can.
Forsaken == {i \in left : \A p \in Loops : pc[p] # "down"}

(* "A crash always leaves evidence": a row does not say running for ever,  *)
(* though its process dies or a one-shot next to it sweeps it; the         *)
(* exception is a row left behind while every loop is up, until a start.   *)
EveryCycleCloses ==
    \A i \in 1 .. MaxCycles : SaysRunning(i) ~> (~SaysRunning(i) \/ i \in Forsaken)

=============================================================================
