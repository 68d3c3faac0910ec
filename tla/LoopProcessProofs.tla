------------------------- MODULE LoopProcessProofs -------------------------
(***************************************************************************)
(* What LoopProcess promises for any number of request threads, PIDs,      *)
(* other programs and deaths of the panel.                                 *)
(***************************************************************************)
EXTENDS LoopProcess, TLAPS

\* The requests' steps, and the world's.
Step(t) == StartBegins(t) \/ StopBegins(t) \/ Serve(t)
World == (\E p \in Pids : Exit(p) \/ Stranger(p)) \/ PanelDies \/ Settle

LEMMA NextCases ==
    ASSUME [Next]_vars
    PROVE  (\E t \in Threads : Step(t)) \/ World \/ UNCHANGED vars
  BY DEF Next, Step, World

-----------------------------------------------------------------------------
(* Types.                                                                  *)

ProcOK ==
    /\ proc \in [Pids -> {"free", "loop", "zombie", "stranger"}]
    /\ children \subseteq Pids
    /\ \A p \in children : proc[p] \in {"loop", "zombie"}
    /\ \A p \in Pids : proc[p] = "zombie" => p \in children

ThreadOK ==
    /\ pc \in [Threads -> {"idle"} \cup Starting \cup Stopping]
    /\ pid \in [Threads -> Pids \cup {NoPid}]
    /\ \A t \in Threads : pid[t] = NoPid <=> pc[t] \in {"idle", "launch"}

\* Waiting for a process makes no loop and ends none.
LEMMA WaitKeeps ==
    ASSUME ProcOK, NEW p, Wait(p)
    PROVE  ProcOK' /\ Loops' = Loops
<1>1. CASE p \in children /\ proc[p] = "zombie"
  <2>1. proc' = [proc EXCEPT ![p] = "free"] /\ children' = children \ {p} /\ p \in Pids
    BY <1>1 DEF Wait, ProcOK
  <2> QED BY <1>1, <2>1 DEF ProcOK, Loops
<1>2. CASE ~(p \in children /\ proc[p] = "zombie")
  BY <1>2 DEF Wait, ProcOK, Loops
<1> QED BY <1>1, <1>2

LEMMA AnswerKeeps ==
    ASSUME ThreadOK, NEW t \in Threads, NEW message, Answer(t, message)
    PROVE  ThreadOK' /\ answer' = message /\ pc' = [pc EXCEPT ![t] = "idle"]
  BY LoopAssumption DEF ThreadOK, Answer

LEMMA ContinueKeeps ==
    ASSUME ThreadOK, NEW t \in Threads, NEW state \in {"idle"} \cup Starting \cup Stopping,
           NEW p \in Pids \cup {NoPid}, Continue(t, state, p),
           p = NoPid <=> state \in {"idle", "launch"}
    PROVE  ThreadOK' /\ answer' = "none"
  BY DEF ThreadOK, Continue

LEMMA TypeParts ==
    TypeOK <=> /\ ProcOK /\ ThreadOK /\ file \in Pids \cup {NoPid}
               /\ answer \in {"none", "already running", "started", "exited immediately",
                              "already stopped", "stopped", "did not exit"}
               /\ strangers \in 0 .. MaxStrangers /\ crashes \in 0 .. MaxCrashes
               /\ disturbed \in BOOLEAN
  BY DEF TypeOK, ProcOK, ThreadOK

LEMMA DisturbedType == TypeOK /\ [Next]_vars => disturbed' \in BOOLEAN
<1> SUFFICES ASSUME TypeOK, [Next]_vars PROVE disturbed' \in BOOLEAN
  OBVIOUS
<1>1. disturbed' = disturbed => disturbed' \in BOOLEAN
  BY TypeParts
<1>2. CASE \E t \in Threads : Step(t)
  BY <1>1, <1>2 DEF Step, StartBegins, StopBegins, Serve, Launch, LaunchFails, WritePid, Poll,
              Terminate, SignalRaises, SeenDead, GivesUp, Kill, Confirm
<1>3. CASE World
  BY <1>1, <1>3 DEF World, Exit, Stranger, PanelDies, Settle
<1>4. CASE UNCHANGED vars
  BY <1>1, <1>4 DEF vars
<1> QED BY <1>2, <1>3, <1>4, NextCases

LEMMA StepKeepsTypes ==
    ASSUME TypeOK, NEW t \in Threads, Step(t), disturbed' \in BOOLEAN
    PROVE  TypeOK'
<1>0. /\ ProcOK /\ ThreadOK /\ file \in Pids \cup {NoPid}
      /\ strangers \in 0 .. MaxStrangers /\ crashes \in 0 .. MaxCrashes
      /\ disturbed' \in BOOLEAN
      /\ answer \in {"none", "already running", "started", "exited immediately",
                     "already stopped", "stopped", "did not exit"}
  BY TypeParts
<1>1. /\ pc[t] # "idle" /\ pc[t] # "launch" => pid[t] \in Pids
      /\ Alive(file) => file \in Pids
      /\ NoPid \notin Pids
  BY <1>0, LoopAssumption DEF ThreadOK, Alive
<1> USE DEF Starting, Stopping
<1> SUFFICES ProcOK' /\ ThreadOK' /\ file' \in Pids \cup {NoPid}
             /\ strangers' = strangers /\ crashes' = crashes
             /\ answer' \in {"none", "already running", "started", "exited immediately",
                             "already stopped", "stopped", "did not exit"}
  BY <1>0 DEF TypeOK, ProcOK, ThreadOK
<1>2. CASE StartBegins(t)
  <2>1. ProcOK'
    BY <1>0, <1>2, WaitKeeps DEF StartBegins
  <2>2. CASE Alive(file)
    BY <1>0, <1>2, <2>1, <2>2, AnswerKeeps DEF StartBegins
  <2>3. CASE ~Alive(file)
    BY <1>0, <1>2, <2>1, <2>3, ContinueKeeps DEF StartBegins
  <2> QED BY <2>2, <2>3
<1>3. CASE StopBegins(t)
  <2>1. ProcOK'
    BY <1>0, <1>3, WaitKeeps DEF StopBegins
  <2>2. CASE Alive(file)
    BY <1>0, <1>1, <1>3, <2>1, <2>2, ContinueKeeps DEF StopBegins
  <2>3. CASE ~Alive(file)
    BY <1>0, <1>3, <2>1, <2>3, AnswerKeeps DEF StopBegins
  <2> QED BY <2>2, <2>3
<1>4. CASE \E p \in Pids : Launch(t, p)
  <2> PICK p \in Pids : Launch(t, p)
    BY <1>4
  <2>1. ProcOK'
    BY <1>0 DEF Launch, Free, ProcOK
  <2>2. ThreadOK' /\ answer' = "none"
    BY <1>0, <1>1, ContinueKeeps DEF Launch
  <2> QED BY <1>0, <2>1, <2>2 DEF Launch
<1>5. CASE LaunchFails(t)
  BY <1>0, <1>5, AnswerKeeps DEF LaunchFails, ProcOK
<1>6. CASE WritePid(t)
  BY <1>0, <1>1, <1>6, ContinueKeeps DEF WritePid, ProcOK
<1>7. CASE Poll(t)
  <2>1. ProcOK'
    BY <1>0, <1>7, WaitKeeps DEF Poll
  <2> QED BY <1>0, <1>7, <2>1, AnswerKeeps DEF Poll
<1>8. CASE Terminate(t) \/ GivesUp(t)
  BY <1>0, <1>1, <1>8, ContinueKeeps DEF Terminate, GivesUp, ProcOK
<1>9. CASE SignalRaises(t)
  BY <1>0, <1>9, AnswerKeeps DEF SignalRaises, ProcOK
<1>10. CASE SeenDead(t)
  <2>1. ProcOK'
    BY <1>0, <1>10, WaitKeeps DEF SeenDead
  <2> QED BY <1>0, <1>10, <2>1, AnswerKeeps DEF SeenDead, Stopped
<1>11. CASE Kill(t)
  <2>1. ProcOK'
    BY <1>0, <1>11 DEF Kill, ProcOK
  <2>2. CASE proc[pid[t]] = "free"
    BY <1>0, <1>11, <2>1, <2>2, AnswerKeeps DEF Kill, Stopped
  <2>3. CASE proc[pid[t]] # "free"
    BY <1>0, <1>1, <1>11, <2>1, <2>3, ContinueKeeps DEF Kill
  <2> QED BY <2>2, <2>3
<1>12. CASE Confirm(t)
  <2>1. ProcOK'
    BY <1>0, <1>12, WaitKeeps DEF Confirm
  <2>2. CASE Alive(pid[t])
    BY <1>0, <1>12, <2>1, <2>2, AnswerKeeps DEF Confirm
  <2>3. CASE ~Alive(pid[t])
    BY <1>0, <1>12, <2>1, <2>3, AnswerKeeps DEF Confirm, Stopped
  <2> QED BY <2>2, <2>3
<1> QED BY <1>2, <1>3, <1>4, <1>5, <1>6, <1>7, <1>8, <1>9, <1>10, <1>11, <1>12 DEF Step, Serve

LEMMA WorldKeepsTypes == TypeOK /\ World => TypeOK'
<1> SUFFICES ASSUME TypeOK, World PROVE TypeOK'
  OBVIOUS
<1>0. strangers \in 0 .. MaxStrangers /\ crashes \in 0 .. MaxCrashes
  BY TypeParts
<1>1. ASSUME NEW p \in Pids, Exit(p) PROVE TypeOK'
  BY <1>1 DEF Exit, TypeOK
<1>2. ASSUME NEW p \in Pids, Stranger(p) PROVE TypeOK'
  <2>1. strangers' \in 0 .. MaxStrangers
    BY <1>0, <1>2, LoopAssumption DEF Stranger
  <2>2. ProcOK'
    BY <1>2, TypeParts DEF Stranger, ProcOK
  <2> QED BY <1>2, <2>1, <2>2 DEF Stranger, TypeOK, ProcOK
<1>3. CASE PanelDies
  <2>1. disturbed' \in BOOLEAN
    BY <1>3 DEF PanelDies
  <2>2. proc' \in [Pids -> {"free", "loop", "zombie", "stranger"}]
        /\ \A p \in Pids : proc'[p] # "zombie"
    BY <1>3, TypeParts DEF PanelDies, ProcOK
  <2>3. crashes' \in 0 .. MaxCrashes
    BY <1>0, <1>3, LoopAssumption DEF PanelDies
  <2>4. ThreadOK'
    BY <1>3 DEF PanelDies, ThreadOK
  <2>5. /\ children' = {} /\ file' = file /\ strangers' = strangers /\ answer' = "none"
    BY <1>3 DEF PanelDies
  <2> QED BY <1>0, <2>1, <2>2, <2>3, <2>4, <2>5 DEF ThreadOK, TypeOK
<1>4. CASE Settle
  BY <1>4 DEF Settle, TypeOK
<1> QED BY <1>1, <1>2, <1>3, <1>4 DEF World

LEMMA TypeStep == TypeOK /\ [Next]_vars => TypeOK'
<1>1. TypeOK /\ UNCHANGED vars => TypeOK'
  BY DEF TypeOK, vars
<1> QED BY <1>1, NextCases, DisturbedType, StepKeepsTypes, WorldKeepsTypes

\* Every variable keeps its shape, a zombie is a child that was not waited for,
\* and a request that works on a process knows which.
THEOREM LoopProcessTypes == Spec => []TypeOK
<1>1. Init => TypeOK
  <2> SUFFICES ASSUME Init PROVE TypeOK
    OBVIOUS
  <2>1. proc \in [Pids -> {"free", "loop", "zombie", "stranger"}]
        /\ \A p \in Pids : proc[p] = "free"
    BY DEF Init
  <2>2. ThreadOK
    BY DEF Init, ThreadOK
  <2>3. strangers \in 0 .. MaxStrangers /\ crashes \in 0 .. MaxCrashes
    BY LoopAssumption DEF Init
  <2>4. ProcOK
    BY <2>1 DEF Init, ProcOK
  <2> QED BY <2>2, <2>3, <2>4, TypeParts DEF Init
<1> QED BY <1>1, TypeStep, PTL DEF Spec

-----------------------------------------------------------------------------
(* One loop.                                                               *)

\* Where a loop may be, for every place a request may be at.
Sole ==
    /\ \A t, u \in Threads : pc[t] \in Starting /\ u # t => pc[u] = "idle"
    /\ \A t \in Threads : pc[t] = "launch" => Loops = {}
    /\ \A t \in Threads : pc[t] \in {"write"} \cup Stopping => Loops \subseteq {pid[t]}
    /\ \A t \in Threads : pc[t] = "poll" => file = pid[t]
    /\ (\A t \in Threads : pc[t] # "write") => Loops \subseteq {file}

SoleInv == ~disturbed => Sole

LEMMA LoopsShrink ==
    ASSUME TypeOK, NEW t \in Threads, Step(t), \A p \in Pids : ~Launch(t, p)
    PROVE  Loops' = Loops
<1>1. ASSUME NEW p, Wait(p) PROVE Loops' = Loops
  BY <1>1, WaitKeeps, TypeParts
<1>2. proc' = proc => Loops' = Loops
  BY DEF Loops
<1> QED BY <1>1, <1>2 DEF Step, StartBegins, StopBegins, Serve, LaunchFails, WritePid, Poll,
           Terminate, SignalRaises, SeenDead, GivesUp, Kill, Confirm

\* A thread that goes idle, and one that goes on.
LEMMA Moves ==
    ASSUME TypeOK, NEW t \in Threads
    PROVE  /\ \A message : Answer(t, message) =>
                  pc' = [pc EXCEPT ![t] = "idle"] /\ pid' = [pid EXCEPT ![t] = NoPid]
           /\ \A state, p : Continue(t, state, p) =>
                  pc' = [pc EXCEPT ![t] = state] /\ pid' = [pid EXCEPT ![t] = p]
           /\ pc \in [Threads -> {"idle"} \cup Starting \cup Stopping]
           /\ pid \in [Threads -> Pids \cup {NoPid}]
  BY TypeParts DEF ThreadOK, Answer, Continue

\* A request that ends leaves the one loop, if there is one, in the file.
LEMMA EndsWell ==
    ASSUME TypeOK, Sole, NEW t \in Threads, Loops' = Loops,
           pc' = [pc EXCEPT ![t] = "idle"], pid' = [pid EXCEPT ![t] = NoPid],
           \/ file' = file /\ pc[t] # "write"
           \/ file' = NoPid /\ Loops = {} /\ \A u \in Threads : pc[u] # "poll"
    PROVE  Sole'
<1>1. /\ pc \in [Threads -> {"idle"} \cup Starting \cup Stopping]
      /\ pid \in [Threads -> Pids \cup {NoPid}]
  BY TypeParts DEF ThreadOK
<1>2. \A u \in Threads : /\ pc'[u] # "idle" => u # t
                         /\ u # t => pc'[u] = pc[u] /\ pid'[u] = pid[u]
                         /\ pc'[t] = "idle"
  BY <1>1
<1> USE DEF Starting, Stopping
<1>3. \A v, u \in Threads : pc'[v] \in Starting /\ u # v => pc'[u] = "idle"
  BY <1>2 DEF Sole
<1>4. \A u \in Threads : pc'[u] = "launch" => Loops' = {}
  BY <1>2 DEF Sole
<1>5. \A u \in Threads : pc'[u] \in {"write"} \cup Stopping => Loops' \subseteq {pid'[u]}
  BY <1>2 DEF Sole
<1>6. \A u \in Threads : pc'[u] = "poll" => file' = pid'[u]
  BY <1>2 DEF Sole
<1>7. (\A u \in Threads : pc'[u] # "write") => Loops' \subseteq {file'}
  BY <1>2 DEF Sole
<1> QED BY <1>3, <1>4, <1>5, <1>6, <1>7 DEF Sole

\* A stopper that goes on, while nobody starts.
LEMMA StopsWell ==
    ASSUME TypeOK, Sole, NEW t \in Threads, Loops' = Loops, file' = file,
           NEW state \in Stopping, NEW p,
           pc' = [pc EXCEPT ![t] = state], pid' = [pid EXCEPT ![t] = p],
           Busy(Starting) = {}, Loops \subseteq {p}
    PROVE  Sole'
<1>1. /\ pc \in [Threads -> {"idle"} \cup Starting \cup Stopping]
      /\ pid \in [Threads -> Pids \cup {NoPid}]
  BY TypeParts DEF ThreadOK
<1> USE DEF Starting, Stopping
<1>2. \A u \in Threads : /\ pc'[u] \notin Starting /\ pc[u] \notin Starting
                         /\ u # t => pc'[u] = pc[u] /\ pid'[u] = pid[u]
                         /\ pid'[t] = p
  BY <1>1 DEF Busy
<1>3. \A u \in Threads : pc'[u] \in Stopping => Loops' \subseteq {pid'[u]}
  BY <1>2 DEF Sole
<1>4. Loops' \subseteq {file'}
  BY <1>2 DEF Sole
<1> QED BY <1>2, <1>3, <1>4 DEF Sole

\* While one stops, nobody starts, and the only loop there may be is the one it
\* stops; if that is dead, there is none.
LEMMA StopperFacts ==
    ASSUME TypeOK, Sole, NEW t \in Threads, pc[t] \in Stopping
    PROVE  /\ Busy(Starting) = {}
           /\ Loops \subseteq {pid[t]}
           /\ ~Alive(pid[t]) => Loops = {}
           /\ \A u \in Threads : pc[u] # "poll"
<1> USE DEF Starting, Stopping
<1>1. Loops \subseteq {pid[t]}
  BY DEF Sole
<1>2. \A u \in Threads : pc[u] \notin Starting
  BY DEF Sole
<1>3. ~Alive(pid[t]) => pid[t] \notin Loops
  BY LoopAssumption DEF Alive, Loops
<1> QED BY <1>1, <1>2, <1>3 DEF Busy

LEMMA StepKeepsSole ==
    ASSUME TypeOK, SoleInv, NEW t \in Threads, Step(t), ~disturbed'
    PROVE  Sole'
<1>0. ~disturbed /\ Sole
  <2>1. CASE StartBegins(t)
    <3>1. CASE Alive(file)
      BY <2>1, <3>1 DEF SoleInv, StartBegins
    <3>2. CASE ~Alive(file)
      BY <2>1, <3>2 DEF SoleInv, StartBegins
    <3> QED BY <3>1, <3>2
  <2>2. CASE StopBegins(t)
    <3>1. CASE Alive(file)
      BY <2>2, <3>1 DEF SoleInv, StopBegins
    <3>2. CASE ~Alive(file)
      BY <2>2, <3>2 DEF SoleInv, StopBegins
    <3> QED BY <3>1, <3>2
  <2>3. CASE Serve(t)
    <3>1. disturbed' = disturbed
      BY <2>3 DEF Serve, Launch, LaunchFails, WritePid, Poll, Terminate, SignalRaises,
                  SeenDead, GivesUp, Kill, Confirm
    <3> QED BY <3>1 DEF SoleInv
  <2> QED BY <2>1, <2>2, <2>3 DEF Step
<1>1. /\ pc \in [Threads -> {"idle"} \cup Starting \cup Stopping]
      /\ pid \in [Threads -> Pids \cup {NoPid}]
  BY Moves
<1>2. ~Alive(file) /\ Loops \subseteq {file} => Loops = {}
  BY LoopAssumption DEF Alive, Loops
<1> USE DEF Starting, Stopping
<1>3. CASE StartBegins(t)
  <2>1. Loops' = Loops /\ file' = file /\ pc[t] = "idle"
    BY <1>3, WaitKeeps, TypeParts DEF StartBegins
  <2>2. CASE Alive(file)
    <3>1. Answer(t, "already running")
      BY <1>3, <2>2 DEF StartBegins
    <3> QED BY <1>0, <2>1, <3>1, Moves, EndsWell
  <2>3. CASE ~Alive(file)
    <3>1. Continue(t, "launch", NoPid) /\ Busy(Starting \cup Stopping) = {}
      BY <1>3, <2>3 DEF StartBegins
    <3>2. \A u \in Threads : pc[u] = "idle"
      BY <1>1, <3>1 DEF Busy
    <3>3. Loops = {}
      BY <1>0, <1>2, <2>3, <3>2 DEF Sole
    <3>4. \A u \in Threads : pc'[u] = IF u = t THEN "launch" ELSE "idle"
      BY <1>1, <3>1, <3>2, Moves
    <3> QED BY <2>1, <3>3, <3>4 DEF Sole
  <2> QED BY <2>2, <2>3
<1>4. CASE StopBegins(t)
  <2>1. Loops' = Loops /\ pc[t] = "idle" /\ Busy(Starting) = {}
    BY <1>4, WaitKeeps, TypeParts DEF StopBegins
  <2>2. \A u \in Threads : pc[u] \notin Starting
    BY <2>1 DEF Busy
  <2>3. Loops \subseteq {file}
    BY <1>0, <2>2 DEF Sole
  <2>4. CASE Alive(file)
    <3>1. Continue(t, "term", file) /\ file' = file
      BY <1>4, <2>4 DEF StopBegins
    <3>2. pc' = [pc EXCEPT ![t] = "term"] /\ pid' = [pid EXCEPT ![t] = file]
      BY <3>1, Moves
    <3> QED BY <1>0, <2>1, <2>3, <3>1, <3>2, StopsWell
  <2>5. CASE ~Alive(file)
    <3>1. Answer(t, "already stopped") /\ file' = NoPid
      BY <1>4, <2>5 DEF StopBegins
    <3>2. Loops = {}
      BY <1>2, <2>3, <2>5
    <3> QED BY <1>0, <2>1, <2>2, <3>1, <3>2, Moves, EndsWell
  <2> QED BY <2>4, <2>5
<1>5. ASSUME NEW p \in Pids, Launch(t, p)
      PROVE  Sole'
  <2>1. Loops = {} /\ \A u \in Threads : u # t => pc[u] = "idle"
    BY <1>0, <1>5 DEF Sole, Launch
  <2>2. Loops' \subseteq {p}
    BY <1>5, <2>1 DEF Launch, Loops
  <2>3. Continue(t, "write", p) /\ file' = file
    BY <1>5 DEF Launch
  <2>4. \A u \in Threads : pc'[u] = IF u = t THEN "write" ELSE "idle"
    BY <1>1, <2>1, <2>3, Moves
  <2>5. pid'[t] = p
    BY <1>1, <2>3, Moves
  <2> QED BY <2>2, <2>4, <2>5 DEF Sole
<1>6. CASE LaunchFails(t)
  <2>1. Loops' = Loops /\ file' = file /\ pc[t] = "launch" /\ Answer(t, "none")
    BY <1>6 DEF LaunchFails, Loops
  <2> QED BY <1>0, <2>1, Moves, EndsWell
<1>7. CASE WritePid(t)
  <2>1. Loops' = Loops /\ file' = pid[t] /\ pc[t] = "write" /\ Continue(t, "poll", pid[t])
    BY <1>7 DEF WritePid, Loops
  <2>2. Loops \subseteq {pid[t]} /\ \A u \in Threads : u # t => pc[u] = "idle"
    BY <1>0, <2>1 DEF Sole
  <2>3. \A u \in Threads : pc'[u] = IF u = t THEN "poll" ELSE "idle"
    BY <1>1, <2>1, <2>2, Moves
  <2>4. pid'[t] = pid[t]
    BY <1>1, <2>1, Moves
  <2> QED BY <2>1, <2>2, <2>3, <2>4 DEF Sole
<1>8. CASE Poll(t)
  <2>1. Loops' = Loops /\ file' = file /\ pc[t] = "poll" /\ \E m : Answer(t, m)
    BY <1>8, WaitKeeps, TypeParts DEF Poll
  <2> QED BY <1>0, <2>1, Moves, EndsWell
<1>9. CASE Terminate(t) \/ GivesUp(t)
  <2>1. /\ Loops' = Loops /\ file' = file /\ pc[t] \in Stopping
        /\ \E state \in Stopping : Continue(t, state, pid[t])
    BY <1>9 DEF Terminate, GivesUp, Loops
  <2>2. PICK state \in Stopping : Continue(t, state, pid[t])
    BY <2>1
  <2>3. pc' = [pc EXCEPT ![t] = state] /\ pid' = [pid EXCEPT ![t] = pid[t]]
    BY <2>2, Moves
  <2>4. Busy(Starting) = {} /\ Loops \subseteq {pid[t]}
    BY <1>0, <2>1, StopperFacts
  <2> HIDE DEF Starting, Stopping
  <2> QED BY <1>0, <2>1, <2>3, <2>4, StopsWell
<1>10. CASE SignalRaises(t)
  <2>1. Loops' = Loops /\ file' = file /\ pc[t] # "write" /\ Answer(t, "none")
    BY <1>10 DEF SignalRaises, Loops
  <2> QED BY <1>0, <2>1, Moves, EndsWell
<1>11. CASE SeenDead(t) \/ (Kill(t) /\ proc[pid[t]] = "free") \/ (Confirm(t) /\ ~Alive(pid[t]))
  <2>1. Loops' = Loops /\ pc[t] \in Stopping /\ ~Alive(pid[t]) /\ Stopped(t)
    BY <1>11, WaitKeeps, TypeParts DEF SeenDead, Kill, Confirm, Loops, Alive
  <2>2. file' = NoPid /\ Answer(t, "stopped")
    BY <2>1 DEF Stopped
  <2>3. Loops = {} /\ \A u \in Threads : pc[u] # "poll"
    BY <1>0, <2>1, StopperFacts
  <2> QED BY <1>0, <2>1, <2>2, <2>3, Moves, EndsWell
<1>12. CASE Kill(t) /\ proc[pid[t]] # "free"
  <2>1. Loops' = Loops /\ file' = file /\ pc[t] \in Stopping /\ Continue(t, "confirm", pid[t])
    BY <1>12 DEF Kill, Loops
  <2>2. pc' = [pc EXCEPT ![t] = "confirm"] /\ pid' = [pid EXCEPT ![t] = pid[t]]
    BY <2>1, Moves
  <2>3. Busy(Starting) = {} /\ Loops \subseteq {pid[t]}
    BY <1>0, <2>1, StopperFacts
  <2> QED BY <1>0, <2>1, <2>2, <2>3, StopsWell
<1>13. CASE Confirm(t) /\ Alive(pid[t])
  <2>1. Loops' = Loops /\ file' = file /\ pc[t] # "write" /\ Answer(t, "did not exit")
    BY <1>13, WaitKeeps, TypeParts DEF Confirm
  <2> QED BY <1>0, <2>1, Moves, EndsWell
<1> QED BY <1>3, <1>4, <1>5, <1>6, <1>7, <1>8, <1>9, <1>10, <1>11, <1>12, <1>13 DEF Step, Serve

LEMMA WorldKeepsSole ==
    ASSUME TypeOK, SoleInv, World, ~disturbed'
    PROVE  Sole'
<1>1. ASSUME NEW p \in Pids, Exit(p) \/ Stranger(p)
      PROVE  Sole'
  <2>1. Loops' \subseteq Loops /\ UNCHANGED <<file, pc, pid, disturbed>>
    BY <1>1, TypeParts DEF Exit, Stranger, Loops, ProcOK
  <2> QED BY <2>1 DEF SoleInv, Sole
<1>2. CASE PanelDies
  <2>1. /\ \A u \in Threads : pc'[u] = "idle"
        /\ Loops' = Loops /\ file' = file /\ ~disturbed /\ Busy({"write"}) = {}
    BY <1>2 DEF PanelDies, Loops
  <2>2. Loops \subseteq {file}
    BY <2>1 DEF SoleInv, Sole, Busy
  <2> QED BY <2>1, <2>2 DEF Sole, Starting, Stopping
<1>3. CASE Settle
  <2>1. /\ Loops = {} /\ Busy(Starting \cup Stopping) = {}
        /\ Loops' = Loops /\ UNCHANGED <<file, pc, pid>>
    BY <1>3 DEF Settle, Loops
  <2>2. \A u \in Threads : pc[u] \notin Starting \cup Stopping
    BY <2>1 DEF Busy
  <2> QED BY <2>1, <2>2 DEF Sole, Starting, Stopping
<1> QED BY <1>1, <1>2, <1>3 DEF World

LEMMA SoleStep == TypeOK /\ SoleInv /\ [Next]_vars => SoleInv'
<1> SUFFICES ASSUME TypeOK, SoleInv, [Next]_vars, ~disturbed' PROVE Sole'
  BY DEF SoleInv
<1>1. CASE UNCHANGED vars
  BY <1>1 DEF vars, SoleInv, Sole, Loops
<1> QED BY <1>1, NextCases, StepKeepsSole, WorldKeepsSole

LEMMA SoleInvHolds == Spec => [](TypeOK /\ SoleInv)
<1>1. Init => SoleInv
  BY DEF Init, SoleInv, Sole, Loops, Starting, Stopping
<1> QED BY <1>1, SoleStep, TypeStep, LoopProcessTypes, PTL DEF Spec

\* The panel never has two loops, and never one that a stop would not find,
\* unless a start ran beside another request.
THEOREM OneLoopAtMost == Spec => []SoleLoop
<1>1. TypeOK /\ SoleInv => SoleLoop
  <2> SUFFICES ASSUME Sole PROVE /\ \A p, q \in Loops : p = q
                                 /\ \A p \in Loops : \/ p = file
                                                     \/ \E t \in Threads : pc[t] = "write" /\ pid[t] = p
    BY DEF SoleInv, SoleLoop
  <2>1. CASE \E t \in Threads : pc[t] = "write"
    BY <2>1 DEF Sole
  <2>2. CASE \A t \in Threads : pc[t] # "write"
    BY <2>2 DEF Sole
  <2> QED BY <2>1, <2>2
<1> QED BY <1>1, SoleInvHolds, PTL

-----------------------------------------------------------------------------
(* The answers.                                                            *)

\* What AnswersAreTrue says of one thread's step.
Truthful(t) ==
    pc[t] # "idle" /\ pc'[t] = "idle" /\ ~disturbed =>
        /\ answer' = "stopped" => Loops = {}
        /\ answer' = "started" => Loops = {pid[t]} /\ file = pid[t]
        /\ answer' = "did not exit" => proc[pid[t]] \in {"loop", "stranger"}

\* The request that makes the step.
LEMMA ServedTruthfully ==
    ASSUME TypeOK, Sole, NEW t \in Threads, Serve(t), pc'[t] = "idle"
    PROVE  /\ answer' = "stopped" => Loops = {}
           /\ answer' = "started" => Loops = {pid[t]} /\ file = pid[t]
           /\ answer' = "did not exit" => proc[pid[t]] \in {"loop", "stranger"}
<1>0. /\ pc \in [Threads -> {"idle"} \cup Starting \cup Stopping]
      /\ pid \in [Threads -> Pids \cup {NoPid}]
      /\ pc[t] # "idle" /\ pc[t] # "launch" => pid[t] \in Pids
  BY TypeParts, LoopAssumption DEF ThreadOK
<1> USE DEF Starting, Stopping
<1>1. \A message : Answer(t, message) => answer' = message
  BY DEF Answer
<1>2. \A state, p : Continue(t, state, p) => pc'[t] = state
  BY <1>0 DEF Continue
<1>3. CASE (\E p \in Pids : Launch(t, p)) \/ WritePid(t) \/ Terminate(t) \/ GivesUp(t)
  BY <1>2, <1>3 DEF Launch, WritePid, Terminate, GivesUp
<1>4. CASE LaunchFails(t) \/ SignalRaises(t)
  BY <1>1, <1>4 DEF LaunchFails, SignalRaises
<1>5. CASE Poll(t)
  <2>1. pc[t] = "poll" /\ answer' = IF proc[pid[t]] = "loop" THEN "started" ELSE "exited immediately"
    BY <1>1, <1>5 DEF Poll
  <2>2. file = pid[t] /\ \A u \in Threads : pc[u] # "write"
    BY <2>1 DEF Sole
  <2>3. Loops \subseteq {pid[t]}
    BY <2>2 DEF Sole
  <2> QED BY <1>0, <2>1, <2>2, <2>3 DEF Loops
<1>6. CASE SeenDead(t) \/ (Kill(t) /\ proc[pid[t]] = "free") \/ (Confirm(t) /\ ~Alive(pid[t]))
  <2>1. pc[t] \in Stopping /\ ~Alive(pid[t]) /\ answer' = "stopped"
    BY <1>1, <1>6 DEF SeenDead, Kill, Confirm, Stopped, Alive
  <2> QED BY <2>1, StopperFacts
<1>7. CASE Kill(t) /\ proc[pid[t]] # "free"
  BY <1>2, <1>7 DEF Kill
<1>8. CASE Confirm(t) /\ Alive(pid[t])
  BY <1>1, <1>8 DEF Confirm, Alive
<1> QED BY <1>3, <1>4, <1>5, <1>6, <1>7, <1>8 DEF Serve

LEMMA TruthfulStep ==
    ASSUME TypeOK, SoleInv, [Next]_vars, NEW t \in Threads
    PROVE  Truthful(t) \/ vars' = vars
<1> SUFFICES ASSUME pc[t] # "idle", pc'[t] = "idle", ~disturbed
             PROVE  \/ /\ answer' = "stopped" => Loops = {}
                       /\ answer' = "started" => Loops = {pid[t]} /\ file = pid[t]
                       /\ answer' = "did not exit" => proc[pid[t]] \in {"loop", "stranger"}
                    \/ vars' = vars
  BY DEF Truthful
<1>0. Sole /\ pc \in [Threads -> {"idle"} \cup Starting \cup Stopping]
  BY TypeParts DEF SoleInv, ThreadOK
<1>1. ASSUME NEW u \in Threads, Step(u)
      PROVE  u = t
  <2>1. \E state : pc' = [pc EXCEPT ![u] = state]
    BY <1>1 DEF Step, StartBegins, StopBegins, Serve, Launch, LaunchFails, WritePid, Poll,
                Terminate, SignalRaises, SeenDead, GivesUp, Kill, Confirm, Stopped, Answer, Continue
  <2> QED BY <1>0, <2>1
<1>2. CASE Step(t)
  <2>1. Serve(t)
    BY <1>2 DEF Step, StartBegins, StopBegins
  <2> QED BY <1>0, <2>1, ServedTruthfully
<1>3. CASE World
  <2>1. CASE PanelDies
    BY <2>1 DEF PanelDies
  <2>2. CASE ~PanelDies
    <3>1. pc' = pc
      BY <1>3, <2>2 DEF World, Exit, Stranger, Settle
    <3> QED BY <3>1
  <2> QED BY <2>1, <2>2
<1>4. CASE UNCHANGED vars
  BY <1>4
<1> QED BY <1>1, <1>2, <1>3, <1>4, NextCases

\* What a request answers is so, unless a start ran beside another request.
THEOREM RequestsAnswerTruly == Spec => AnswersAreTrue
<1>1. TypeOK /\ SoleInv /\ [Next]_vars =>
        [\A t \in Threads :
            pc[t] # "idle" /\ pc'[t] = "idle" /\ ~disturbed =>
                /\ answer' = "stopped" => Loops = {}
                /\ answer' = "started" => Loops = {pid[t]} /\ file = pid[t]
                /\ answer' = "did not exit" => proc[pid[t]] \in {"loop", "stranger"}]_vars
  BY TruthfulStep DEF Truthful
<1> QED BY <1>1, SoleInvHolds, PTL DEF Spec, AnswersAreTrue
=============================================================================
