-------------------------- MODULE CycleLoopProofs --------------------------
(***************************************************************************)
(* What CycleLoop guarantees for any number of loops and one-shots, any    *)
(* alert threshold and any number of cycles and crashes.                   *)
(***************************************************************************)
EXTENDS CycleLoop, SequenceTheorems, TLAPS

\* Every cycle in hand is open and has one owner.
Owners ==
    /\ \A p \in Processes : pc[p] \in Working => cycles[mine[p]] \notin Book!Outcomes
    /\ \A p, q \in Processes :
          pc[p] \in Working /\ pc[q] \in Working /\ mine[p] = mine[q] => p = q

LInv == TypeOK /\ Owners /\ StreaksAreAlerted

\* The ways run_cycle closes its row.
Closes(p) ==
    /\ p \in Processes
    /\ pc[p] \in Working
    /\ \E o \in Book!Outcomes : Close(p, o)
    /\ UNCHANGED <<kill, alerts, crashes, left, unsent>>

\* The ways it goes on without touching the table.
GoesOn(p) ==
    /\ p \in Processes
    /\ pc[p] \in Working
    /\ \E n \in Working : Proceed(p, n)
    /\ UNCHANGED <<kill, alerts, crashes, left, unsent>>

-----------------------------------------------------------------------------
\* Each step of run_cycle is one of four.
LEMMA RunCases ==
    ASSUME NEW p \in Processes, Run(p)
    PROVE  Closes(p) \/ GoesOn(p) \/ RouteRaises(p) \/ Alert(p)
<1>1. CASE CheckKillSwitch(p)
  BY <1>1 DEF CheckKillSwitch, Closes, GoesOn, Working, Book!Outcomes
<1>2. CASE BuildContext(p)
  BY <1>2 DEF BuildContext, Closes, GoesOn, Working, Book!Outcomes
<1>3. CASE AgentRuns(p)
  BY <1>3 DEF AgentRuns, Closes, GoesOn, Working, Book!Outcomes
<1>4. CASE RouteOrder(p)
  BY <1>4 DEF RouteOrder, Closes, GoesOn, Working, Book!Outcomes
<1> QED BY <1>1, <1>2, <1>3, <1>4 DEF Run

\* A table in which some rows were replaced by good statuses is a good table.
LEMMA RowsKept ==
    ASSUME NEW s \in Seq(Book!Statuses), NEW i \in DOMAIN s, NEW o \in Book!Statuses
    PROVE  /\ [s EXCEPT ![i] = o] \in Seq(Book!Statuses)
           /\ Len([s EXCEPT ![i] = o]) = Len(s)
           /\ DOMAIN [s EXCEPT ![i] = o] = DOMAIN s
BY ExceptSeq, LenProperties

LEMMA SweptKept ==
    ASSUME cycles \in Seq(Book!Statuses)
    PROVE  /\ Swept \in Seq(Book!Statuses)
           /\ Len(Swept) = Len(cycles)
           /\ DOMAIN Swept = DOMAIN cycles
<1>1. cycles \in [1 .. Len(cycles) -> Book!Statuses] /\ Len(cycles) \in Nat
  BY LenProperties
<1>2. Swept \in [1 .. Len(cycles) -> Book!Statuses]
  BY <1>1 DEF Swept, Book!Statuses
<1>3. Swept \in Seq(Book!Statuses)
  BY <1>1, <1>2, SeqDef
<1> QED BY <1>1, <1>2, <1>3, LenProperties

LEMMA OutcomesAreStatuses == Book!Outcomes \subseteq Book!Statuses
BY DEF Book!Statuses

LEMMA PcFacts == /\ Working \subseteq Pcs
                 /\ \A p : After(p) \in Pcs \ Working /\ After(p) # "alerting"
                 /\ {"up", "down", "alerting"} \cap Working = {}
                 /\ {"up", "down", "alerting"} \subseteq Pcs
BY DEF Working, Pcs, After

-----------------------------------------------------------------------------
\* The steps that leave the invariant alone, one lemma for each way to do it.

LEMMA ClosingKeeps ==
    ASSUME LInv, NEW p \in Processes, Closes(p)
    PROVE  LInv'
<1>1. PICK o \in Book!Outcomes : Close(p, o)
  BY DEF Closes
<1>2. /\ pc[p] \in Working
      /\ mine[p] \in DOMAIN cycles
      /\ o \in Book!Statuses
      /\ o # "running"
  BY OutcomesAreStatuses DEF Closes, LInv, TypeOK, Book!Outcomes
<1>3. /\ cycles' = [cycles EXCEPT ![mine[p]] = o]
      /\ pc' = [pc EXCEPT ![p] = IF o = "error" THEN "alerting" ELSE After(p)]
      /\ mine' = [mine EXCEPT ![p] = 0]
      /\ UNCHANGED <<kill, alerts, crashes, left, unsent>>
  BY <1>1 DEF Close, Closes
<1>4. /\ cycles' \in Seq(Book!Statuses)
      /\ Len(cycles') = Len(cycles)
      /\ DOMAIN cycles' = DOMAIN cycles
  BY <1>2, <1>3, RowsKept DEF LInv, TypeOK
<1>5. pc'[p] \in Pcs \ Working /\ mine'[p] = 0
  BY <1>3, PcFacts DEF LInv, TypeOK
<1>6. \A q \in Processes \ {p} : pc'[q] = pc[q] /\ mine'[q] = mine[q]
  BY <1>3 DEF LInv, TypeOK
<1>7. TypeOK'
  <2>1. pc' \in [Processes -> Pcs] /\ mine' \in [Processes -> 0 .. MaxCycles]
    BY <1>3, <1>5, LoopAssumption, PcFacts DEF LInv, TypeOK
  <2>2. \A q \in Processes : IF pc'[q] \in Working
                             THEN mine'[q] \in DOMAIN cycles'
                             ELSE mine'[q] = 0
    BY <1>4, <1>5, <1>6 DEF LInv, TypeOK
  <2> QED BY <1>3, <1>4, <2>1, <2>2 DEF LInv, TypeOK
<1>8. Owners'
  <2>1. \A q \in Processes : pc'[q] \in Working =>
           q # p /\ pc[q] \in Working /\ mine'[q] = mine[q] /\ mine[q] # mine[p]
    BY <1>2, <1>5, <1>6 DEF LInv, Owners
  <2>2. \A q \in Processes : pc'[q] \in Working =>
           mine[q] \in DOMAIN cycles /\ cycles'[mine[q]] = cycles[mine[q]]
    BY <1>3, <2>1 DEF LInv, TypeOK
  <2> QED BY <2>1, <2>2 DEF LInv, Owners
<1>9. StreaksAreAlerted'
  <2>1. CASE o = "error"
    <3>1. pc'[p] = "alerting"
      BY <1>3, <2>1 DEF LInv, TypeOK
    <3> QED BY <3>1 DEF StreaksAreAlerted
  <2>2. CASE o # "error"
    <3>1. ErrorStreak' => ErrorStreak
      <4>1. \A i \in DOMAIN cycles : cycles'[i] = "error" => cycles[i] = "error"
        BY <1>2, <1>3, <2>2 DEF LInv, TypeOK
      <4>2. DOMAIN cycles = 1 .. Len(cycles) /\ Len(cycles) \in Nat
        BY LenProperties DEF LInv, TypeOK
      <4> QED BY <1>4, <4>1, <4>2, LoopAssumption DEF ErrorStreak
    <3>2. pc[p] # "alerting"
      BY <1>2, PcFacts
    <3>3. (\A q \in Processes : pc'[q] # "alerting") =>
             \A q \in Processes : pc[q] # "alerting"
      BY <1>6, <3>2
    <3> QED BY <1>3, <1>4, <3>1, <3>3 DEF LInv, StreaksAreAlerted
  <2> QED BY <2>1, <2>2
<1> QED BY <1>7, <1>8, <1>9 DEF LInv

LEMMA GoingOnKeeps ==
    ASSUME LInv, NEW p \in Processes, GoesOn(p)
    PROVE  LInv'
<1>1. PICK n \in Working : Proceed(p, n)
  BY DEF GoesOn
<1>2. /\ pc' = [pc EXCEPT ![p] = n]
      /\ UNCHANGED <<cycles, mine, kill, alerts, crashes, left, unsent>>
      /\ pc[p] \in Working
  BY <1>1 DEF Proceed, GoesOn
<1>3. \A q \in Processes : /\ pc'[q] \in Working <=> pc[q] \in Working
                           /\ pc'[q] = "alerting" <=> pc[q] = "alerting"
  BY <1>2, PcFacts DEF LInv, TypeOK
<1>4. TypeOK'
  BY <1>2, <1>3, PcFacts DEF LInv, TypeOK
<1>5. Owners'
  BY <1>2, <1>3 DEF LInv, Owners
<1>6. StreaksAreAlerted'
  BY <1>2, <1>3 DEF LInv, StreaksAreAlerted, ErrorStreak
<1> QED BY <1>4, <1>5, <1>6 DEF LInv

\* A process that lets go of its cycle, or of its alert.
LEMMA LeavingKeeps ==
    ASSUME LInv, NEW p \in Processes, RouteRaises(p) \/ Crash(p)
    PROVE  LInv'
<1>1. /\ pc' = [pc EXCEPT ![p] = pc'[p]]
      /\ pc'[p] \in Pcs \ Working
      /\ pc'[p] # "alerting"
      /\ mine' = [mine EXCEPT ![p] = 0]
      /\ UNCHANGED <<cycles, kill, alerts>>
  <2>1. CASE RouteRaises(p)
    BY <2>1, PcFacts DEF RouteRaises, LInv, TypeOK
  <2>2. CASE Crash(p)
    BY <2>2, PcFacts DEF Crash, LInv, TypeOK
  <2> QED BY <2>1, <2>2
<1>2. DOMAIN cycles = 1 .. Len(cycles) /\ Len(cycles) \in Nat /\ Len(cycles) <= MaxCycles
  BY LenProperties DEF LInv, TypeOK
<1>3. pc[p] \in Working => mine[p] \in 1 .. MaxCycles
  BY <1>2, LoopAssumption DEF LInv, TypeOK
<1>4. crashes' \in 0 .. MaxCrashes /\ left' \subseteq 1 .. MaxCycles
  <2>1. CASE RouteRaises(p)
    BY <2>1, <1>3, PcFacts DEF RouteRaises, LInv, TypeOK, Working
  <2>2. CASE Crash(p)
    <3>1. crashes' \in 0 .. MaxCrashes
      BY <2>2, LoopAssumption DEF Crash, LInv, TypeOK
    <3>2. left' \subseteq 1 .. MaxCycles
      <4>1. left' = IF pc[p] \in Working THEN left \cup {mine[p]} ELSE left
        BY <2>2 DEF Crash
      <4> QED BY <1>3, <4>1 DEF LInv, TypeOK
    <3> QED BY <3>1, <3>2
  <2> QED BY <2>1, <2>2
<1>5. \A q \in Processes \ {p} : pc'[q] = pc[q] /\ mine'[q] = mine[q]
  BY <1>1 DEF LInv, TypeOK
<1>6. mine'[p] = 0 /\ mine' \in [Processes -> 0 .. MaxCycles] /\ pc' \in [Processes -> Pcs]
  BY <1>1, LoopAssumption DEF LInv, TypeOK
<1>7. Owners'
  BY <1>1, <1>5 DEF LInv, Owners
<1>8. ErrorStreak' <=> ErrorStreak
  BY <1>1 DEF ErrorStreak
<1>9. /\ unsent \subseteq unsent'
      /\ unsent' \subseteq 0 .. MaxCycles
      /\ pc[p] = "alerting" => Len(cycles) \in unsent'
  <2>1. CASE RouteRaises(p)
    BY <2>1, PcFacts DEF RouteRaises, LInv, TypeOK, Working
  <2>2. CASE Crash(p)
    <3>1. unsent' = IF pc[p] = "alerting" THEN unsent \cup {Len(cycles)} ELSE unsent
      BY <2>2 DEF Crash
    <3>2. Len(cycles) \in 0 .. MaxCycles
      BY <1>2, LoopAssumption
    <3>3. unsent \subseteq 0 .. MaxCycles
      BY DEF LInv, TypeOK
    <3> QED BY <3>1, <3>2, <3>3
  <2> QED BY <2>1, <2>2
<1>10. TypeOK'
  BY <1>1, <1>4, <1>5, <1>6, <1>9 DEF LInv, TypeOK
<1>11. StreaksAreAlerted'
  BY <1>1, <1>5, <1>8, <1>9 DEF LInv, StreaksAreAlerted
<1> QED BY <1>7, <1>10, <1>11 DEF LInv

LEMMA AlertingKeeps ==
    ASSUME LInv, NEW p \in Processes, Alert(p)
    PROVE  LInv'
<1>1. /\ pc[p] = "alerting"
      /\ pc' = [pc EXCEPT ![p] = After(p)]
      /\ alerts' = IF ErrorStreak THEN alerts \cup {Len(cycles)} ELSE alerts
      /\ UNCHANGED <<cycles, kill, mine, crashes, left, unsent>>
  BY DEF Alert
<1>2. Len(cycles) \in Nat /\ Len(cycles) <= MaxCycles
  BY LenProperties DEF LInv, TypeOK
<1>3. ErrorStreak => Len(cycles) \in 1 .. MaxCycles
  BY <1>2, LoopAssumption DEF ErrorStreak
<1>4. \A q \in Processes : pc'[q] \in Working <=> pc[q] \in Working
  BY <1>1, PcFacts DEF LInv, TypeOK
<1>5. TypeOK'
  BY <1>1, <1>3, <1>4, PcFacts DEF LInv, TypeOK
<1>6. Owners'
  BY <1>1, <1>4 DEF LInv, Owners
<1>7. StreaksAreAlerted'
  BY <1>1 DEF StreaksAreAlerted, ErrorStreak
<1> QED BY <1>5, <1>6, <1>7 DEF LInv

\* Between cycles: a start, a stop, a new row, the kill switch.
LEMMA StartingKeeps ==
    ASSUME LInv, NEW p \in Processes, Start(p)
    PROVE  LInv'
<1>1. /\ pc[p] = "down"
      /\ pc' = [pc EXCEPT ![p] = "up"]
      /\ cycles' = Swept
      /\ left' = {}
      /\ UNCHANGED <<kill, mine, alerts, crashes, unsent>>
  BY DEF Start
<1>2. /\ cycles' \in Seq(Book!Statuses)
      /\ Len(cycles') = Len(cycles)
      /\ DOMAIN cycles' = DOMAIN cycles
  BY <1>1, SweptKept DEF LInv, TypeOK
<1>3. \A q \in Processes : /\ pc'[q] \in Working <=> pc[q] \in Working
                           /\ pc'[q] = "alerting" <=> pc[q] = "alerting"
  BY <1>1, PcFacts DEF LInv, TypeOK
<1>4. TypeOK'
  BY <1>1, <1>2, <1>3, PcFacts DEF LInv, TypeOK
<1>5. \A i \in DOMAIN cycles :
        /\ cycles[i] \notin Book!Outcomes => cycles'[i] \notin Book!Outcomes
        /\ cycles'[i] = "error" <=> cycles[i] = "error"
  BY <1>1 DEF Swept, Book!Outcomes
<1>6. Owners'
  BY <1>1, <1>3, <1>5 DEF LInv, TypeOK, Owners
<1>7. ErrorStreak' <=> ErrorStreak
  <2>1. DOMAIN cycles = 1 .. Len(cycles) /\ Len(cycles) \in Nat
    BY LenProperties DEF LInv, TypeOK
  <2> QED BY <1>2, <1>5, <2>1, LoopAssumption DEF ErrorStreak
<1>8. StreaksAreAlerted'
  BY <1>1, <1>2, <1>3, <1>7 DEF LInv, StreaksAreAlerted
<1> QED BY <1>4, <1>6, <1>8 DEF LInv

LEMMA StoppingKeeps ==
    ASSUME LInv, NEW p \in Processes, Stop(p)
    PROVE  LInv'
<1>1. /\ pc[p] = "up"
      /\ pc' = [pc EXCEPT ![p] = "down"]
      /\ UNCHANGED <<cycles, kill, mine, alerts, crashes, left, unsent>>
  BY DEF Stop
<1>2. \A q \in Processes : /\ pc'[q] \in Working <=> pc[q] \in Working
                           /\ pc'[q] = "alerting" <=> pc[q] = "alerting"
  BY <1>1, PcFacts DEF LInv, TypeOK
<1>3. TypeOK' /\ Owners'
  BY <1>1, <1>2, PcFacts DEF LInv, TypeOK, Owners
<1>4. StreaksAreAlerted'
  BY <1>1, <1>2 DEF LInv, StreaksAreAlerted, ErrorStreak
<1> QED BY <1>3, <1>4 DEF LInv

LEMMA OpeningKeeps ==
    ASSUME LInv, NEW p \in Processes, OpenCycle(p)
    PROVE  LInv'
<1> DEFINE n == Len(cycles) + 1
<1>1. /\ pc[p] = "up"
      /\ Len(cycles) < MaxCycles
      /\ pc' = [pc EXCEPT ![p] = "opened"]
      /\ cycles' = Append(cycles, "running")
      /\ mine' = [mine EXCEPT ![p] = n]
      /\ UNCHANGED <<kill, alerts, crashes, left, unsent>>
  BY DEF OpenCycle
<1>2. DOMAIN cycles = 1 .. Len(cycles) /\ Len(cycles) \in Nat
  BY LenProperties DEF LInv, TypeOK
<1>3. "running" \in Book!Statuses /\ "running" \notin Book!Outcomes
  BY DEF Book!Statuses, Book!Outcomes
<1>4. /\ cycles' \in Seq(Book!Statuses)
      /\ Len(cycles') = n
      /\ DOMAIN cycles' = 1 .. n
      /\ \A i \in 1 .. Len(cycles) : cycles'[i] = cycles[i]
      /\ cycles'[n] = "running"
  BY <1>1, <1>2, <1>3, AppendProperties, LenProperties DEF LInv, TypeOK
<1>5. pc'[p] = "opened" /\ mine'[p] = n /\ n \in 1 .. MaxCycles
  BY <1>1, <1>2, LoopAssumption DEF LInv, TypeOK
<1>6. \A q \in Processes \ {p} : pc'[q] = pc[q] /\ mine'[q] = mine[q]
  BY <1>1 DEF LInv, TypeOK
<1>7. "opened" \in Working /\ "opened" \in Pcs
  BY DEF Working, Pcs
<1>8. \A q \in Processes \ {p} : pc[q] \in Working =>
         mine[q] \in 1 .. Len(cycles) /\ mine[q] # n /\ mine[q] \in 1 .. n
  BY <1>2 DEF LInv, TypeOK
<1>9. TypeOK'
  <2>1. pc' \in [Processes -> Pcs] /\ mine' \in [Processes -> 0 .. MaxCycles]
    BY <1>1, <1>5, <1>7 DEF LInv, TypeOK
  <2>2. \A q \in Processes : IF pc'[q] \in Working
                             THEN mine'[q] \in DOMAIN cycles'
                             ELSE mine'[q] = 0
    BY <1>2, <1>4, <1>5, <1>6, <1>7, <1>8 DEF LInv, TypeOK
  <2> QED BY <1>1, <1>2, <1>4, <1>5, <2>1, <2>2 DEF LInv, TypeOK
<1>10. Owners'
  <2>1. \A q \in Processes : pc'[q] \in Working => cycles'[mine'[q]] \notin Book!Outcomes
    BY <1>3, <1>4, <1>5, <1>6, <1>8 DEF LInv, Owners
  <2>2. \A q, r \in Processes :
           pc'[q] \in Working /\ pc'[r] \in Working /\ mine'[q] = mine'[r] => q = r
    BY <1>5, <1>6, <1>8 DEF LInv, Owners
  <2> QED BY <2>1, <2>2 DEF Owners
<1>11. StreaksAreAlerted'
  <2>1. n \in n - Threshold + 1 .. n
    BY <1>2, LoopAssumption
  <2>2. ~ErrorStreak'
    BY <1>4, <2>1 DEF ErrorStreak
  <2> QED BY <2>2 DEF StreaksAreAlerted
<1> QED BY <1>9, <1>10, <1>11 DEF LInv
-----------------------------------------------------------------------------
LEMMA InitHolds == Init => LInv
<1> SUFFICES ASSUME Init PROVE LInv
  OBVIOUS
<1>1. cycles = <<>> /\ cycles \in Seq(Book!Statuses) /\ Len(cycles) = 0
  BY EmptySeq DEF Init
<1>2. "down" \in Pcs \ Working
  BY DEF Pcs, Working
<1>3. TypeOK
  <2>1. /\ pc \in [Processes -> Pcs] /\ mine \in [Processes -> 0 .. MaxCycles]
        /\ \A p \in Processes : pc[p] \notin Working /\ mine[p] = 0
    BY <1>2, LoopAssumption DEF Init
  <2>2. kill \in BOOLEAN
    BY DEF Init
  <2>3. /\ crashes \in 0 .. MaxCrashes /\ Len(cycles) <= MaxCycles
        /\ alerts = {} /\ left = {} /\ unsent = {}
    BY <1>1, LoopAssumption DEF Init
  <2> QED BY <1>1, <2>1, <2>2, <2>3 DEF TypeOK
<1>4. Owners /\ StreaksAreAlerted
  BY <1>1, <1>2, LoopAssumption DEF Init, Owners, StreaksAreAlerted, ErrorStreak
<1> QED BY <1>3, <1>4 DEF LInv

LEMMA StepKeeps == LInv /\ [Next]_vars => LInv'
<1> SUFFICES ASSUME LInv, [Next]_vars PROVE LInv'
  OBVIOUS
<1>1. CASE UNCHANGED vars
  BY <1>1 DEF vars, LInv, TypeOK, Owners, StreaksAreAlerted, ErrorStreak
<1>2. CASE ToggleKill
  <2>1. kill' \in BOOLEAN
    BY <1>2 DEF ToggleKill
  <2>2. UNCHANGED <<cycles, pc, mine, alerts, crashes, left, unsent>>
    BY <1>2 DEF ToggleKill
  <2>3. TypeOK'
    BY <2>1, <2>2 DEF LInv, TypeOK
  <2>4. Owners' /\ StreaksAreAlerted'
    BY <2>2 DEF LInv, Owners, StreaksAreAlerted, ErrorStreak
  <2> QED BY <2>3, <2>4 DEF LInv
<1>3. ASSUME NEW p \in Processes, Start(p) \/ Stop(p) \/ OpenCycle(p) \/ Crash(p)
      PROVE  LInv'
  BY <1>3, StartingKeeps, StoppingKeeps, OpeningKeeps, LeavingKeeps
<1>4. ASSUME NEW p \in Processes, Run(p)
      PROVE  LInv'
  BY <1>4, RunCases, ClosingKeeps, GoingOnKeeps, LeavingKeeps, AlertingKeeps
<1> QED BY <1>1, <1>2, <1>3, <1>4 DEF Next

\* The inductive invariant.
THEOREM LoopInvariant == Spec => []LInv
<1> QED BY InitHolds, StepKeeps, PTL DEF Spec

(* Every variable of the cycle loop keeps its type, and whoever works on   *)
(* a cycle holds a row of the table.                                       *)
THEOREM LoopTypes == Spec => []TypeOK
<1>1. LInv => TypeOK
  BY DEF LInv
<1> QED BY <1>1, LoopInvariant, PTL

(* A streak of errors is alerted by whoever closes its last row, for any   *)
(* number of processes and any threshold (alerts.check_consecutive_errors).*)
THEOREM StreaksAlerted == Spec => []StreaksAreAlerted
<1>1. LInv => StreaksAreAlerted
  BY DEF LInv
<1> QED BY <1>1, LoopInvariant, PTL

\* What a step does to the table.
LEMMA StepOfBook == LInv /\ [Next]_vars => [Book!Next]_cycles
<1> SUFFICES ASSUME LInv, [Next]_vars PROVE Book!Next \/ UNCHANGED cycles
  OBVIOUS
<1>1. CASE UNCHANGED vars \/ ToggleKill
  BY <1>1 DEF vars, ToggleKill
<1>2. ASSUME NEW p \in Processes, Stop(p) \/ Crash(p) \/ RouteRaises(p) \/ Alert(p)
      PROVE  UNCHANGED cycles
  BY <1>2 DEF Stop, Crash, RouteRaises, Alert
<1>3. ASSUME NEW p \in Processes, Start(p) PROVE Book!Next
  BY <1>3 DEF Start, Swept, Book!Sweep, Book!Next
<1>4. ASSUME NEW p \in Processes, OpenCycle(p) PROVE Book!Next
  BY <1>4 DEF OpenCycle, Book!Open, Book!Next
<1>5. ASSUME NEW p \in Processes, GoesOn(p) PROVE UNCHANGED cycles
  BY <1>5 DEF GoesOn, Proceed
<1>6. ASSUME NEW p \in Processes, Closes(p) PROVE Book!Next
  <2>1. mine[p] \in DOMAIN cycles /\ cycles[mine[p]] \notin Book!Outcomes
    BY <1>6 DEF Closes, LInv, TypeOK, Owners
  <2>2. PICK o \in Book!Outcomes : cycles' = [cycles EXCEPT ![mine[p]] = o]
    BY <1>6 DEF Closes, Close
  <2> QED BY <2>1, <2>2 DEF Book!Close, Book!Next
<1> QED BY <1>1, <1>2, <1>3, <1>4, <1>5, <1>6, RunCases DEF Next

(* Two or more processes on one table make a CycleBook: a row gets its own *)
(* outcome once, and none on record is ever changed (db.close_cycle and    *)
(* db.reconcile_orphan_cycles, which guard against neither).               *)
THEOREM LoopImplementsBook == Spec => ImplementsBook
<1>1. Init => Book!Init
  BY DEF Init, Book!Init
<1> QED BY <1>1, LoopInvariant, StepOfBook, PTL DEF Spec, ImplementsBook, Book!Spec
=============================================================================
