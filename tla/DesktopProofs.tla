---------------------------- MODULE DesktopProofs ----------------------------
(***************************************************************************)
(* Proofs of the safety properties of Desktop, for any number of processes *)
(* on either platform.                                                     *)
(***************************************************************************)
EXTENDS Desktop, TLAPS

USE NobodyAssumption

(***************************************************************************)
(* The inductive invariant: on Windows a process that waits, shows its     *)
(* window or gives up holds the mutex, and the port is its server's.       *)
(***************************************************************************)
Holding == {"waiting", "window", "failed", "leaving"}
MutexHeld == windows => \A p \in Processes : main[p] \in Holding => mutex = p
DesktopInv == DesktopTypeOK /\ MutexHeld /\ PortServed

LEMMA DesktopInit == Init => DesktopInv
BY DEF Init, DesktopInv, DesktopTypeOK, MutexHeld, Holding, PortServed

LEMMA GoneKeeps ==
    ASSUME DesktopInv, NEW p \in Processes, Gone(p)
    PROVE  DesktopInv'
<1>1. DesktopTypeOK'
  BY DEF DesktopInv, DesktopTypeOK, Gone, Freed
<1>2. MutexHeld'
  BY DEF DesktopInv, DesktopTypeOK, MutexHeld, Holding, Gone
<1>3. PortServed'
  BY DEF DesktopInv, DesktopTypeOK, PortServed, Gone, Freed
<1> QED
  BY <1>1, <1>2, <1>3 DEF DesktopInv

LEMMA DesktopNext == DesktopInv /\ [Next]_vars => DesktopInv'
<1> SUFFICES ASSUME DesktopInv, [Next]_vars PROVE DesktopInv'
  OBVIOUS
<1> USE DEF DesktopInv, DesktopTypeOK, MutexHeld, Holding, PortServed
<1>1. ASSUME NEW p \in Processes, Launch(p)
      PROVE  DesktopInv'
  <2>1. DesktopTypeOK' /\ PortServed'
    BY <1>1 DEF Launch
  <2>2. MutexHeld'
    BY <1>1 DEF Launch, MayStart
  <2> QED
    BY <2>1, <2>2
<1>2. ASSUME NEW p \in Processes, StartUp(p)
      PROVE  DesktopInv'
  BY <1>2 DEF StartUp
<1>3. ASSUME NEW p \in Processes, Bind(p)
      PROVE  DesktopInv'
  <2>1. DesktopTypeOK' /\ MutexHeld'
    BY <1>3 DEF Bind
  <2>2. PortServed'
    BY <1>3 DEF Bind
  <2> QED
    BY <2>1, <2>2
<1>4. ASSUME NEW p \in Processes, BeginEnd(p) \/ EndCore(p)
      PROVE  DesktopInv'
  BY <1>4 DEF BeginEnd, EndCore, Freed
<1>5. ASSUME NEW p \in Processes, ShowWindow(p) \/ GiveUp(p) \/ CloseWindow(p)
      PROVE  DesktopInv'
  BY <1>5 DEF ShowWindow, GiveUp, CloseWindow
<1>6. ASSUME NEW p \in Processes, GiveBack(p)
      PROVE  DesktopInv'
  BY <1>6 DEF GiveBack
<1>7. ASSUME NEW p \in Processes, Exit(p) \/ Crash(p)
      PROVE  DesktopInv'
  BY <1>7, GoneKeeps DEF Exit, Crash
<1>8. CASE Resume
  BY <1>8 DEF Resume
<1>9. CASE UNCHANGED vars
  BY <1>9 DEF vars
<1> QED
  BY <1>1, <1>2, <1>3, <1>4, <1>5, <1>6, <1>7, <1>8, <1>9 DEF Next, MainStep, CoreStep

LEMMA DesktopHolds == Spec => []DesktopInv
BY DesktopInit, DesktopNext, PTL DEF Spec

\* Of two live processes on Windows, one is about to be gone.
LEMMA OneHolds ==
    ASSUME DesktopInv, windows, NEW p \in Processes, NEW q \in Processes, p # q,
           main[p] # "off", main[q] # "off"
    PROVE  main[p] = "exiting" \/ main[q] = "exiting"
BY DEF DesktopInv, DesktopTypeOK, MutexHeld, Holding

\* Threads, stop flags, mutex and port stay well typed, and what stop names is live.
THEOREM DesktopTypeCorrect == Spec => []DesktopTypeOK
BY DesktopHolds, PTL DEF DesktopInv

\* The port's owner serves it.
THEOREM PortStaysServed == Spec => []PortServed
BY DesktopHolds, PTL DEF DesktopInv

(***************************************************************************)
(* On Windows two cores work on the database at one time only when one of  *)
(* them outlived the ten seconds its process gave it.                      *)
(***************************************************************************)
THEOREM OneCoreAtATime == Spec => []OneCore
<1>1. DesktopInv => OneCore
  BY OneHolds DEF DesktopInv, DesktopTypeOK, OneCore, Outlived
<1> QED
  BY <1>1, DesktopHolds, PTL

(***************************************************************************)
(* On Windows a window opens on its own process's core, or on one that     *)
(* outlived its ten seconds.                                               *)
(***************************************************************************)
THEOREM WindowsOpenOnOwnCore == Spec => OpensOnOwnCore
<1>1. ASSUME DesktopInv, [Next]_vars, windows, NEW p \in Processes,
             main[p] = "waiting", main'[p] = "window"
      PROVE  port = p \/ Outlived(port)
  <2>1. port \in Processes
    BY <1>1 DEF DesktopInv, DesktopTypeOK, Next, MainStep, CoreStep, Launch, StartUp, Bind,
       BeginEnd, EndCore, ShowWindow, GiveUp, CloseWindow, GiveBack, Exit, Crash, Gone,
       Resume, vars
  <2>2. core[port] = "serving" /\ main[port] # "off"
    BY <1>1, <2>1 DEF DesktopInv, DesktopTypeOK, PortServed
  <2> QED
    BY <1>1, <2>1, <2>2, OneHolds DEF Outlived
<1>2. DesktopInv /\ [Next]_vars =>
        [windows => \A p \in Processes :
           main[p] = "waiting" /\ main'[p] = "window" => port = p \/ Outlived(port)]_vars
  BY <1>1
<1> QED
  BY <1>2, DesktopHolds, PTL DEF Spec, OpensOnOwnCore

(***************************************************************************)
(* On Windows no other launch suspends the run behind an open window.      *)
(***************************************************************************)
THEOREM LaunchesKeepTheRun == Spec => RunKeptByLaunch
<1>1. ASSUME DesktopInv, [Next]_vars, windows, run = "running", run' = "paused",
             NEW p \in Processes, main[p] = "window"
      PROVE  core[p] = "starting" \/ \E q \in Processes : Outlived(q)
  <2>1. PICK q \in Processes : StartUp(q)
    BY <1>1 DEF Next, MainStep, CoreStep, Launch, Bind, BeginEnd, EndCore, ShowWindow,
       GiveUp, CloseWindow, GiveBack, Exit, Crash, Gone, Resume, vars
  <2>2. core[q] = "starting" /\ main[q] # "off"
    BY <1>1, <2>1 DEF StartUp, DesktopInv, DesktopTypeOK
  <2>3. CASE p = q
    BY <2>2, <2>3
  <2>4. CASE p # q
    BY <1>1, <2>2, <2>4, OneHolds DEF Outlived
  <2> QED
    BY <2>3, <2>4
<1>2. DesktopInv /\ [Next]_vars =>
        [windows /\ run = "running" /\ run' = "paused" =>
           \A p \in Processes :
             main[p] = "window" => core[p] = "starting" \/ \E q \in Processes : Outlived(q)]_vars
  BY <1>1
<1> QED
  BY <1>2, DesktopHolds, PTL DEF Spec, RunKeptByLaunch
=============================================================================
