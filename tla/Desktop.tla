------------------------------ MODULE Desktop -------------------------------
(***************************************************************************)
(* The program as processes: desktop/main.py and the core's lifespan.      *)
(*                                                                         *)
(* The user may start the program several times.  A process has a main     *)
(* thread, which waits for a core to answer and then shows the window, and *)
(* a core thread, whose start-up works on the shared database before it    *)
(* takes the fixed port.  A mutex keeps processes apart on Windows; the    *)
(* macOS build has none, and its second process meets the first one only   *)
(* at the port.                                                            *)
(***************************************************************************)
EXTENDS FiniteSets

CONSTANTS Processes, Nobody

ASSUME NobodyAssumption == Nobody \notin Processes

VARIABLES
    windows,  \* the platform: TRUE on Windows
    main,     \* main[p]: the main thread
    core,     \* core[p]: the core thread
    stop,     \* the processes whose server.should_exit is set
    mutex,    \* the holder of the single-instance mutex
    port,     \* the process that listens on the port
    run       \* the status of the user's run in the shared database

vars == <<windows, main, core, stop, mutex, port, run>>

(***************************************************************************)
(* main: off; waiting for health; showing the window; failed or leaving,   *)
(* both waiting for the core thread; exiting, with the mutex given back.   *)
(* core: none; starting; started (workers run, no port); serving; ending.  *)
(* Only a live process has a core, or is told to stop it.                  *)
(***************************************************************************)
DesktopTypeOK ==
    /\ windows \in BOOLEAN
    /\ main \in [Processes -> {"off", "waiting", "window", "failed", "leaving", "exiting"}]
    /\ core \in [Processes -> {"none", "starting", "started", "serving", "ending"}]
    /\ stop = {p \in Processes : main[p] \in {"failed", "leaving", "exiting"}}
    /\ \A p \in Processes : main[p] = "off" => core[p] = "none"
    /\ mutex \in Processes \union {Nobody}
    /\ port \in Processes \union {Nobody}
    /\ run \in {"running", "paused"}

Init ==
    /\ windows \in BOOLEAN
    /\ main = [p \in Processes |-> "off"]
    /\ core = [p \in Processes |-> "none"]
    /\ stop = {}
    /\ mutex = Nobody /\ port = Nobody
    /\ run = "paused"

-----------------------------------------------------------------------------
(***************************************************************************)
(* acquire_single_instance; a process that finds the mutex taken says so   *)
(* and ends.  Otherwise the core thread is started.                        *)
(***************************************************************************)
\* Mutant: the mutex is asked for nowhere.
MayAlwaysStart(p) == TRUE

MayStart(p) == windows => mutex = Nobody

Launch(p) ==
    /\ main[p] = "off"
    /\ MayStart(p)
    /\ mutex' = IF windows THEN p ELSE mutex
    /\ main' = [main EXCEPT ![p] = "waiting"]
    /\ core' = [core EXCEPT ![p] = "starting"]
    /\ UNCHANGED <<windows, stop, port, run>>

(***************************************************************************)
(* The lifespan up to its yield: a run nobody has confirmed since the      *)
(* start is suspended, expired claims are recovered, a backup is made, the *)
(* workers start.  Or one of these fails, and the core with it.            *)
(***************************************************************************)
StartUp(p) ==
    /\ core[p] = "starting"
    /\ \/ core' = [core EXCEPT ![p] = "started"] /\ run' = "paused"
       \/ core' = [core EXCEPT ![p] = "none"] /\ run' \in {run, "paused"}
    /\ UNCHANGED <<windows, main, stop, mutex, port>>

(***************************************************************************)
(* Only then does the server take its port; if it cannot, or is told by    *)
(* now to stop, it shuts down.                                             *)
(***************************************************************************)
Bind(p) ==
    /\ core[p] = "started"
    /\ IF port = Nobody /\ p \notin stop
          THEN core' = [core EXCEPT ![p] = "serving"] /\ port' = p
          ELSE core' = [core EXCEPT ![p] = "ending"] /\ UNCHANGED port
    /\ UNCHANGED <<windows, main, stop, mutex, run>>

(***************************************************************************)
(* The server ends when it is told to, and with it the lifespan.           *)
(***************************************************************************)
Freed(p) == IF port = p THEN Nobody ELSE port

BeginEnd(p) ==
    /\ core[p] = "serving" /\ p \in stop
    /\ core' = [core EXCEPT ![p] = "ending"]
    /\ port' = Freed(p)
    /\ UNCHANGED <<windows, main, stop, mutex, run>>

EndCore(p) ==
    /\ core[p] = "ending"
    /\ core' = [core EXCEPT ![p] = "none"]
    /\ UNCHANGED <<windows, main, stop, mutex, port, run>>

-----------------------------------------------------------------------------
(***************************************************************************)
(* wait_for_health: any core that answers at the port will do.  When none  *)
(* does in time, or the assets are not there, the process gives up.        *)
(***************************************************************************)
ShowWindow(p) ==
    /\ main[p] = "waiting" /\ port # Nobody
    /\ main' = [main EXCEPT ![p] = "window"]
    /\ UNCHANGED <<windows, core, stop, mutex, port, run>>

\* Mutant: the mutex goes back when the wait ends, before the core thread.
GiveUpAtOnce(p) ==
    /\ main[p] = "waiting"
    /\ main' = [main EXCEPT ![p] = "failed"]
    /\ stop' = stop \union {p}
    /\ mutex' = IF mutex = p THEN Nobody ELSE mutex
    /\ UNCHANGED <<windows, core, port, run>>

GiveUp(p) ==
    /\ main[p] = "waiting"
    /\ main' = [main EXCEPT ![p] = "failed"]
    /\ stop' = stop \union {p}
    /\ UNCHANGED <<windows, core, mutex, port, run>>

CloseWindow(p) ==
    /\ main[p] = "window"
    /\ main' = [main EXCEPT ![p] = "leaving"]
    /\ stop' = stop \union {p}
    /\ UNCHANGED <<windows, core, mutex, port, run>>

(***************************************************************************)
(* The core thread has ended or its ten seconds are over.  After the       *)
(* window the mutex goes back, a moment before the process is gone and the *)
(* core thread with it; a process that failed keeps it until then.         *)
(***************************************************************************)
GiveBack(p) ==
    /\ main[p] = "leaving"
    /\ main' = [main EXCEPT ![p] = "exiting"]
    /\ mutex' = IF mutex = p THEN Nobody ELSE mutex
    /\ UNCHANGED <<windows, core, stop, port, run>>

Gone(p) ==
    /\ main' = [main EXCEPT ![p] = "off"]
    /\ core' = [core EXCEPT ![p] = "none"]
    /\ stop' = stop \ {p}
    /\ mutex' = IF mutex = p THEN Nobody ELSE mutex
    /\ port' = Freed(p)
    /\ UNCHANGED <<windows, run>>

Exit(p) == main[p] \in {"failed", "exiting"} /\ Gone(p)

Crash(p) == main[p] # "off" /\ Gone(p)

(***************************************************************************)
(* The user starts or resumes the run, from any window.                    *)
(***************************************************************************)
Resume ==
    /\ port # Nobody
    /\ \E p \in Processes : main[p] = "window"
    /\ run' = "running"
    /\ UNCHANGED <<windows, main, core, stop, mutex, port>>

MainStep(p) == ShowWindow(p) \/ GiveUp(p) \/ GiveBack(p) \/ Exit(p)
CoreStep(p) == StartUp(p) \/ Bind(p) \/ BeginEnd(p) \/ EndCore(p)

Next ==
    \/ \E p \in Processes : Launch(p) \/ MainStep(p) \/ CoreStep(p)
    \/ \E p \in Processes : CloseWindow(p) \/ Crash(p)
    \/ Resume

Spec == Init /\ [][Next]_vars

-----------------------------------------------------------------------------
(***************************************************************************)
(* Properties.                                                             *)
(***************************************************************************)

(***************************************************************************)
(* On Windows two cores work on the database at one time only in the       *)
(* moment in which a process whose core outlived its ten seconds ends      *)
(* (acquire_single_instance, main's finally block).                        *)
(***************************************************************************)
Outlived(p) == main[p] = "exiting" /\ core[p] # "none"

OneCore ==
    windows => \A p, q \in Processes :
                   p # q /\ core[p] # "none" /\ core[q] # "none" =>
                       Outlived(p) \/ Outlived(q)

(***************************************************************************)
(* The port's owner serves it, so a new core always finds the port free or *)
(* another one answering (create_local_server, wait_for_health).           *)
(***************************************************************************)
PortServed == \A p \in Processes : port = p <=> core[p] = "serving"

(***************************************************************************)
(* On Windows a window opens on the process's own core, or on one that     *)
(* outlived its ten seconds; elsewhere it may open on another process's,   *)
(* and be left without one when that process ends (wait_for_health).       *)
(***************************************************************************)
OpensOnOwnCore ==
    [][windows => \A p \in Processes :
         main[p] = "waiting" /\ main'[p] = "window" => port = p \/ Outlived(port)]_vars

(***************************************************************************)
(* On Windows no other launch suspends the run behind an open window: only *)
(* the core of that window's own process does, when the window opened on   *)
(* an outlived one (suspend_unconfirmed_on_startup in the lifespan).       *)
(***************************************************************************)
RunKeptByLaunch ==
    [][windows /\ run = "running" /\ run' = "paused" =>
         \A p \in Processes :
             main[p] = "window" => core[p] = "starting" \/ \E q \in Processes : Outlived(q)]_vars

=============================================================================
