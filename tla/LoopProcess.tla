---------------------------- MODULE LoopProcess ----------------------------
(***************************************************************************)
(* dashboard.LoopProcess: how the request threads of the control panel     *)
(* start and stop `trader run` through a PID file, each a few system calls *)
(* long, among processes that exit, PIDs that the system hands out again   *)
(* and a panel that dies and comes back.                                   *)
(*                                                                         *)
(*   start:  idle -> launch -> write -> poll -> idle                       *)
(*   stop:   idle -> term -> wait -> kill -> confirm -> idle               *)
(*                                                                         *)
(* Either may leave early with an answer.                                  *)
(***************************************************************************)
EXTENDS Naturals, FiniteSets

CONSTANTS
    Threads,      \* of ThreadingHTTPServer
    Pids,
    NoPid,        \* no PID file, or one that holds no number
    MaxStrangers, \* bound: other programs that are given a PID of Pids
    MaxCrashes    \* bound: deaths of the panel

ASSUME LoopAssumption ==
    /\ NoPid \notin Pids
    /\ Threads # {}
    /\ {MaxStrangers, MaxCrashes} \subseteq Nat

VARIABLES
    proc,      \* what each PID is
    children,  \* PIDs the running panel has forked and not waited for
    file,      \* logs/trader.pid
    pc,        \* where each thread is
    pid,       \* the PID it works on
    answer,    \* the message of the request that ended last, until another goes on
    strangers, crashes,
    \* History, read by properties only:
    disturbed  \* a start ran beside another request, or the panel died in one

vars == <<proc, children, file, pc, pid, answer, strangers, crashes, disturbed>>

Loops == {p \in Pids : proc[p] = "loop"}
Free == {p \in Pids : proc[p] = "free"}

Starting == {"launch", "write", "poll"}
Stopping == {"term", "wait", "kill", "confirm"}
Busy(states) == {t \in Threads : pc[t] \in states}

-----------------------------------------------------------------------------
Init ==
    /\ proc = [p \in Pids |-> "free"]
    /\ children = {}
    /\ file = NoPid
    /\ pc = [t \in Threads |-> "idle"]
    /\ pid = [t \in Threads |-> NoPid]
    /\ answer = "none"
    /\ strangers = 0 /\ crashes = 0
    /\ disturbed = FALSE

-----------------------------------------------------------------------------
(* _pid_alive.                                                             *)

\* Mutants: only what this panel has started counts; a zombie counts as well.
AliveChild(p) == p \in children /\ proc[p] = "loop"
AliveUnreaped(p) == p # NoPid /\ proc[p] # "free"
Alive(p) == p # NoPid /\ proc[p] \in {"loop", "stranger"}

\* Mutant: a child that was waited for stays a child.
WaitForgotten(p) ==
    /\ proc' = IF p \in children /\ proc[p] = "zombie"
               THEN [proc EXCEPT ![p] = "free"] ELSE proc
    /\ children' = children

\* os.waitpid(pid, WNOHANG): a child that has exited is gone for good.
Wait(p) ==
    IF p \in children /\ proc[p] = "zombie"
    THEN proc' = [proc EXCEPT ![p] = "free"] /\ children' = children \ {p}
    ELSE UNCHANGED <<proc, children>>

Answer(t, message) ==
    /\ answer' = message
    /\ pc' = [pc EXCEPT ![t] = "idle"]
    /\ pid' = [pid EXCEPT ![t] = NoPid]

Continue(t, state, p) ==
    /\ pc' = [pc EXCEPT ![t] = state]
    /\ pid' = [pid EXCEPT ![t] = p]
    /\ answer' = "none"

-----------------------------------------------------------------------------
(* LoopProcess.start.                                                      *)

StartBegins(t) ==
    /\ pc[t] = "idle"
    /\ Wait(file)
    /\ IF Alive(file)
       THEN Answer(t, "already running") /\ UNCHANGED disturbed
       ELSE /\ Continue(t, "launch", NoPid)
            /\ disturbed' = (disturbed \/ Busy(Starting \cup Stopping) # {})
    /\ UNCHANGED <<file, strangers, crashes>>

\* subprocess.Popen, in a session of its own.
Launch(t, p) ==
    /\ pc[t] = "launch"
    /\ p \in Free
    /\ proc' = [proc EXCEPT ![p] = "loop"]
    /\ children' = children \cup {p}
    /\ Continue(t, "write", p)
    /\ UNCHANGED <<file, strangers, crashes, disturbed>>

\* No process to be had: Popen raises.
LaunchFails(t) ==
    /\ pc[t] = "launch"
    /\ Answer(t, "none")
    /\ UNCHANGED <<proc, children, file, strangers, crashes, disturbed>>

WritePid(t) ==
    /\ pc[t] = "write"
    /\ file' = pid[t]
    /\ Continue(t, "poll", pid[t])
    /\ UNCHANGED <<proc, children, strangers, crashes, disturbed>>

\* proc.poll() a quarter of a second later.
Poll(t) ==
    /\ pc[t] = "poll"
    /\ Wait(pid[t])
    /\ Answer(t, IF proc[pid[t]] = "loop" THEN "started" ELSE "exited immediately")
    /\ UNCHANGED <<file, strangers, crashes, disturbed>>

-----------------------------------------------------------------------------
(* LoopProcess.stop.                                                       *)

StopBegins(t) ==
    /\ pc[t] = "idle"
    /\ Wait(file)
    /\ IF Alive(file)
       THEN /\ Continue(t, "term", file)
            /\ disturbed' = (disturbed \/ Busy(Starting) # {})
            /\ UNCHANGED file
       ELSE /\ Answer(t, "already stopped")
            /\ disturbed' = (disturbed \/ Busy(Starting) # {})
            /\ file' = NoPid
    /\ UNCHANGED <<strangers, crashes>>

\* os.kill(pid, SIGTERM): the process is asked to exit.
Terminate(t) ==
    /\ pc[t] = "term"
    /\ proc[pid[t]] # "free"
    /\ Continue(t, "wait", pid[t])
    /\ UNCHANGED <<proc, children, file, strangers, crashes, disturbed>>

\* It is gone, or belongs to somebody else: the signal raises, and the request
\* ends without an answer.
SignalRaises(t) ==
    /\ \/ pc[t] = "term" /\ proc[pid[t]] \in {"free", "stranger"}
       \/ pc[t] = "kill" /\ proc[pid[t]] = "stranger"
    /\ Answer(t, "none")
    /\ UNCHANGED <<proc, children, file, strangers, crashes, disturbed>>

\* _clear_pid: whatever the file holds by now.
Stopped(t) ==
    /\ file' = NoPid
    /\ Answer(t, "stopped")

SeenDead(t) ==
    /\ pc[t] = "wait"
    /\ ~Alive(pid[t])
    /\ Wait(pid[t])
    /\ Stopped(t)
    /\ UNCHANGED <<strangers, crashes, disturbed>>

\* Mutant: stop waits for as long as it takes.
NeverGivesUp(t) ==
    /\ pc[t] = "wait"
    /\ pid[t] = NoPid
    /\ Continue(t, "kill", pid[t])
    /\ UNCHANGED <<proc, children, file, strangers, crashes, disturbed>>

\* Three seconds are over.
GivesUp(t) ==
    /\ pc[t] = "wait"
    /\ Continue(t, "kill", pid[t])
    /\ UNCHANGED <<proc, children, file, strangers, crashes, disturbed>>

\* os.kill(pid, SIGKILL): the process exits as soon as the kernel gets to it.
Kill(t) ==
    /\ pc[t] = "kill"
    /\ IF proc[pid[t]] = "free"
       THEN Stopped(t) /\ UNCHANGED <<proc, children>>
       ELSE /\ Continue(t, "confirm", pid[t])
            /\ UNCHANGED <<proc, children, file>>
    /\ UNCHANGED <<strangers, crashes, disturbed>>

Confirm(t) ==
    /\ pc[t] = "confirm"
    /\ Wait(pid[t])
    /\ IF Alive(pid[t])
       THEN Answer(t, "did not exit") /\ UNCHANGED file
       ELSE Stopped(t)
    /\ UNCHANGED <<strangers, crashes, disturbed>>

-----------------------------------------------------------------------------
(* Around the panel.                                                       *)

\* A process exits: because it was asked to, was killed, or had enough.
Exit(p) ==
    /\ proc[p] \in {"loop", "stranger"}
    /\ proc' = [proc EXCEPT ![p] = IF p \in children THEN "zombie" ELSE "free"]
    /\ UNCHANGED <<children, file, pc, pid, answer, strangers, crashes, disturbed>>

\* The system gives a PID that was ours to another program.
Stranger(p) ==
    /\ proc[p] = "free"
    /\ strangers < MaxStrangers
    /\ strangers' = strangers + 1
    /\ proc' = [proc EXCEPT ![p] = "stranger"]
    /\ UNCHANGED <<children, file, pc, pid, answer, crashes, disturbed>>

\* The panel dies and is started again; its loops live on, and init waits for
\* the ones that do not.
PanelDies ==
    /\ crashes < MaxCrashes
    /\ crashes' = crashes + 1
    /\ proc' = [p \in Pids |-> IF proc[p] = "zombie" THEN "free" ELSE proc[p]]
    /\ children' = {}
    /\ pc' = [t \in Threads |-> "idle"]
    /\ pid' = [t \in Threads |-> NoPid]
    /\ answer' = "none"
    /\ disturbed' = (disturbed \/ Busy({"write"}) # {})
    /\ UNCHANGED <<file, strangers>>

\* With no loop left and nobody at work the past does not matter.
Settle ==
    /\ disturbed
    /\ Loops = {}
    /\ Busy(Starting \cup Stopping) = {}
    /\ disturbed' = FALSE
    /\ UNCHANGED <<proc, children, file, pc, pid, answer, strangers, crashes>>

-----------------------------------------------------------------------------
\* What takes a request on from where it is.
Serve(t) ==
    \/ \E p \in Pids : Launch(t, p)
    \/ LaunchFails(t) \/ WritePid(t) \/ Poll(t)
    \/ Terminate(t) \/ SignalRaises(t) \/ SeenDead(t) \/ GivesUp(t) \/ Kill(t) \/ Confirm(t)

Next ==
    \/ \E t \in Threads : StartBegins(t) \/ StopBegins(t) \/ Serve(t)
    \/ \E p \in Pids : Exit(p) \/ Stranger(p)
    \/ PanelDies
    \/ Settle

\* The threads run and their sleeps end.  No process has to exit.
Fairness == \A t \in Threads : WF_vars(Serve(t))

Spec == Init /\ [][Next]_vars /\ Fairness

-----------------------------------------------------------------------------
\* The shape of every variable, and what the threads rely on: a zombie is a
\* child, a child is no other program, and who works on a PID has one.
TypeOK ==
    /\ proc \in [Pids -> {"free", "loop", "zombie", "stranger"}]
    /\ children \subseteq Pids
    /\ \A p \in children : proc[p] \in {"loop", "zombie"}
    /\ \A p \in Pids : proc[p] = "zombie" => p \in children
    /\ file \in Pids \cup {NoPid}
    /\ pc \in [Threads -> {"idle"} \cup Starting \cup Stopping]
    /\ pid \in [Threads -> Pids \cup {NoPid}]
    /\ \A t \in Threads : pid[t] = NoPid <=> pc[t] \in {"idle", "launch"}
    /\ answer \in {"none", "already running", "started", "exited immediately",
                   "already stopped", "stopped", "did not exit"}
    /\ strangers \in 0 .. MaxStrangers /\ crashes \in 0 .. MaxCrashes
    /\ disturbed \in BOOLEAN

(* As long as no start runs beside another request, the panel never has    *)
(* two loops trading the same account, and the one it has is the one a     *)
(* stop will find: though loops die, PIDs come back as other programs, and *)
(* the panel itself is restarted over a loop that lives on.                *)
SoleLoop ==
    ~disturbed =>
        /\ \A p, q \in Loops : p = q
        /\ \A p \in Loops : p = file \/ \E t \in Threads : pc[t] = "write" /\ pid[t] = p

(* What a request answers is so when it is answered: there is no loop when *)
(* it says stopped, there is the one it names when it says started, and    *)
(* what it says did not exit lives, and is no zombie.                      *)
AnswersAreTrue ==
    [][\A t \in Threads :
        pc[t] # "idle" /\ pc'[t] = "idle" /\ ~disturbed =>
            /\ answer' = "stopped" => Loops = {}
            /\ answer' = "started" => Loops = {pid[t]} /\ file = pid[t]
            /\ answer' = "did not exit" => proc[pid[t]] \in {"loop", "stranger"}]_vars

(* Every request comes to an end, though the loop may be in the middle of  *)
(* a cycle and take no notice of SIGTERM.                                  *)
RequestsEnd == \A t \in Threads : pc[t] # "idle" ~> pc[t] = "idle"
=============================================================================
