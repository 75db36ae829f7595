------------------------------- MODULE GuiSync -------------------------------
(***************************************************************************)
(* How the worker touches the user interface of the running game           *)
(* (FZCommonGameVersion of Abstractions.cpp): SafeExec_start makes the     *)
(* engine's secondary thread end, takes its place under mt_csEnter and     *)
(* waits for the frame in progress; SafeExec_end starts the thread again.  *)
(* AssignStatus and ShowMpMainMenu run between the two, and the download   *)
(* bar is claimed by an atomic exchange.                                   *)
(*                                                                         *)
(* The engine is not part of the repository: its threads are modelled by   *)
(* what the comments at Abstractions.cpp:641-680 say of them.  The process *)
(* ends with the worker.  A failed uniassert is taken to be closed by the  *)
(* user.                                                                   *)
(***************************************************************************)
EXTENDS Integers

CONSTANTS Seconds,     \* identities for secondary threads
          Nobody,
          MaxCycles    \* cyclesCount of StartVisualDownload

ASSUME GuiSyncAssumption ==
    /\ MaxCycles \in Nat \ {0}
    /\ Seconds \cap {"main", "worker", Nobody} = {} /\ Nobody \notin {"main", "worker"}

VARIABLES
    mt_bMustExit, mt_csEnter, b_is_Active, g_bRendering,   \* of the engine
    IsInProgress,   \* of m_sPDProgress: the low byte that the code looks at
    main,           \* where the engine's main thread is
    second,         \* where each secondary thread is
    window,         \* the window is in the foreground
    patch,          \* the game downloads something of its own
    worker, after,  \* where the worker is, and where to go after SafeExec_end
    oldActiveStatus, cyclesCount,
    claimed         \* history: StartVisualDownload has gone on to ShowMpMainMenu,
                    \* and the user has not cancelled since

engine == <<g_bRendering, main, window, patch>>
local  == <<after, oldActiveStatus, cyclesCount>>
bar    == <<IsInProgress, claimed>>
vars   == <<mt_bMustExit, mt_csEnter, b_is_Active, bar, second, worker, engine, local>>

\* A frame is being worked on, and a secondary thread waits for its part.
Init ==
    /\ mt_bMustExit = FALSE /\ mt_csEnter = "main" /\ g_bRendering = FALSE
    /\ main = "update" /\ window \in BOOLEAN /\ b_is_Active = window
    /\ patch \in BOOLEAN /\ IsInProgress = patch
    /\ \E s \in Seconds : second = [t \in Seconds |-> IF t = s THEN "waiting" ELSE "none"]
    /\ worker = "start" /\ after = "exchange"
    /\ oldActiveStatus = FALSE /\ cyclesCount = MaxCycles /\ claimed = FALSE

GameRuns == worker # "over"

-------------------------------------------------------------------------------
(* The engine *)

Main(from, to) ==
    /\ GameRuns /\ main = from /\ main' = to
    /\ UNCHANGED <<mt_bMustExit, bar, window, patch, worker, local>>

\* The parallel section of a frame begins; without the window there is none.
ResumeThreads ==
    /\ Main("update", "parallel") /\ b_is_Active
    /\ mt_csEnter' = Nobody
    /\ UNCHANGED <<b_is_Active, g_bRendering, second>>

BeginRendering ==
    /\ Main("parallel", "render") /\ b_is_Active
    /\ g_bRendering' = TRUE
    /\ UNCHANGED <<mt_csEnter, b_is_Active, second>>

SkipRendering ==
    /\ Main("parallel", "suspend") /\ ~b_is_Active
    /\ UNCHANGED <<mt_csEnter, b_is_Active, g_bRendering, second>>

EndRendering ==
    /\ Main("render", "suspend")
    /\ g_bRendering' = FALSE
    /\ UNCHANGED <<mt_csEnter, b_is_Active, second>>

\* The main thread waits for its turn; a secondary thread that has done its
\* part may wait for the next one.
SuspendThreads ==
    /\ Main("suspend", "update") /\ mt_csEnter = Nobody
    /\ mt_csEnter' = "main"
    /\ second' = [s \in Seconds |-> IF second[s] = "resting" THEN "waiting" ELSE second[s]]
    /\ UNCHANGED <<b_is_Active, g_bRendering>>

\* Window messages are handled between frames.
SwitchWindow ==
    /\ GameRuns /\ main = "update"
    /\ window' = ~window /\ b_is_Active' = window'
    /\ UNCHANGED <<mt_bMustExit, mt_csEnter, bar, second, main,
                   g_bRendering, patch, worker, local>>

Second(s, from, to) ==
    /\ GameRuns /\ second[s] = from /\ second' = [second EXCEPT ![s] = to]
    /\ UNCHANGED <<b_is_Active, bar, engine, worker, local>>

SecondEnters(s) ==
    /\ Second(s, "waiting", IF mt_bMustExit THEN "leaving" ELSE "working")
    /\ mt_csEnter = Nobody /\ mt_csEnter' = s
    /\ mt_bMustExit' = FALSE

SecondLeaves(s) ==
    /\ Second(s, "leaving", "none") \/ Second(s, "working", "resting")
    /\ mt_csEnter' = Nobody
    /\ UNCHANGED mt_bMustExit

Bar(on, game) ==
    /\ GameRuns /\ IsInProgress' = on /\ patch' = game
    /\ UNCHANGED <<mt_bMustExit, mt_csEnter, b_is_Active, g_bRendering, main,
                   second, window, worker, local>>

\* The game's own download, and the button that cancels what the bar shows.
PatchStarts == ~IsInProgress /\ Bar(TRUE, TRUE) /\ UNCHANGED claimed
PatchEnds   == patch /\ Bar(FALSE, FALSE) /\ UNCHANGED claimed
UserCancels == IsInProgress /\ Bar(FALSE, FALSE) /\ claimed' = FALSE

-------------------------------------------------------------------------------
(* SafeExec_start and SafeExec_end *)

WorkerGoes(from, to) == worker = from /\ worker' = to /\ UNCHANGED engine

\* The call of an operation that runs in SafeExec, and where it returns to.
SafeExec(return) == worker' = "signal" /\ after' = return

SignalExit ==
    /\ WorkerGoes("signal", "await_exit")
    /\ mt_bMustExit' = TRUE
    /\ UNCHANGED <<mt_csEnter, b_is_Active, bar, second, local>>

\* Mutant: the worker does not wait.
HurryExit ==
    /\ WorkerGoes("await_exit", "enter")
    /\ UNCHANGED <<mt_bMustExit, mt_csEnter, b_is_Active, bar, second, local>>

AwaitExit ==
    /\ WorkerGoes("await_exit", "enter") /\ ~mt_bMustExit
    /\ UNCHANGED <<mt_bMustExit, mt_csEnter, b_is_Active, bar, second, local>>

\* Mutant: the mutex is taken from whoever has it.
EnterBoldly ==
    /\ WorkerGoes("enter", "deactivate")
    /\ mt_csEnter' = "worker"
    /\ UNCHANGED <<mt_bMustExit, b_is_Active, bar, second, local>>

Enter ==
    /\ WorkerGoes("enter", "deactivate") /\ mt_csEnter = Nobody
    /\ mt_csEnter' = "worker"
    /\ UNCHANGED <<mt_bMustExit, b_is_Active, bar, second, local>>

Deactivate ==
    /\ WorkerGoes("deactivate", "await_frame")
    /\ oldActiveStatus' = b_is_Active /\ b_is_Active' = FALSE
    /\ UNCHANGED <<mt_bMustExit, mt_csEnter, bar, second, after, cyclesCount>>

AwaitFrame ==
    /\ WorkerGoes("await_frame", "reactivate") /\ ~g_bRendering
    /\ UNCHANGED <<mt_bMustExit, mt_csEnter, b_is_Active, bar, second, local>>

\* Mutant: the old status is forgotten.
StayInactive ==
    /\ WorkerGoes("reactivate", "inside")
    /\ UNCHANGED <<mt_bMustExit, mt_csEnter, b_is_Active, bar, second, local>>

Reactivate ==
    /\ WorkerGoes("reactivate", "inside")
    /\ b_is_Active' = oldActiveStatus
    /\ UNCHANGED <<mt_bMustExit, mt_csEnter, bar, second, local>>

\* Mutant: no thread is started.
SpawnNone ==
    /\ WorkerGoes("inside", "leave")
    /\ UNCHANGED <<mt_bMustExit, mt_csEnter, b_is_Active, bar, second, local>>

\* The call into the game is done: SafeExec_end.
SpawnSecond ==
    /\ WorkerGoes("inside", "leave")
    /\ \E s \in Seconds :
          second[s] = "none" /\ second' = [second EXCEPT ![s] = "waiting"]
    /\ UNCHANGED <<mt_bMustExit, mt_csEnter, b_is_Active, bar, local>>

Leave ==
    /\ WorkerGoes("leave", after)
    /\ mt_csEnter' = Nobody
    /\ UNCHANGED <<mt_bMustExit, b_is_Active, bar, second, local>>

-------------------------------------------------------------------------------
(* The download bar *)

synchronization == <<mt_bMustExit, mt_csEnter, b_is_Active, second, engine,
                     oldActiveStatus>>

\* StartVisualDownload: a status first if there is none.
StartVisualDownload(statusEmpty) ==
    /\ worker = "start"
    /\ IF statusEmpty THEN SafeExec("exchange")
                      ELSE worker' = "exchange" /\ UNCHANGED after
    /\ UNCHANGED <<bar, cyclesCount, synchronization>>

\* Mutant: the loop ends one round late.
ExchangeTooOften ==
    /\ worker = "exchange"
    /\ IsInProgress' = TRUE
    /\ cyclesCount' = cyclesCount - 1
    /\ IF ~IsInProgress THEN SafeExec("work")
       ELSE /\ worker' = IF cyclesCount = 0 THEN "failed" ELSE "exchange"
            /\ UNCHANGED after
    /\ claimed' = (after' = "work")
    /\ UNCHANGED synchronization

\* Mutant: the last round counts as a success, as if the loop asked cyclesCount only.
ExchangeLastTaken ==
    /\ worker = "exchange"
    /\ IsInProgress' = TRUE
    /\ cyclesCount' = cyclesCount - 1
    /\ IF ~IsInProgress \/ cyclesCount' = 0 THEN SafeExec("work")
       ELSE worker' = "exchange" /\ UNCHANGED after
    /\ claimed' = (after' = "work")
    /\ UNCHANGED synchronization

\* One round of the loop: AtomicExchange, and another round, ShowMpMainMenu, or
\* "return false".
Exchange ==
    /\ worker = "exchange"
    /\ IsInProgress' = TRUE
    /\ cyclesCount' = cyclesCount - 1
    /\ IF ~IsInProgress THEN SafeExec("work")
       ELSE /\ worker' = IF cyclesCount' = 0 THEN "failed" ELSE "exchange"
            /\ UNCHANGED after
    /\ claimed' = (after' = "work")
    /\ UNCHANGED synchronization

\* DoWork sets a new status now and then.
AssignStatus ==
    /\ worker = "work" /\ SafeExec("work")
    /\ UNCHANGED <<bar, cyclesCount, synchronization>>

\* DoWork ends, the program too; or it fails, a cancel being one reason.
DoWorkReturns(ok) ==
    /\ worker = "work" /\ worker' = IF ok THEN "over" ELSE "failed"
    /\ UNCHANGED <<bar, after, cyclesCount, synchronization>>

\* ThreadBodyInternal after a failure: the status, and then a while to read it.
ReportFailure ==
    /\ worker = "failed" /\ SafeExec("linger")
    /\ UNCHANGED <<bar, cyclesCount, synchronization>>

\* The while is over, or the user has cancelled: StopVisualDownload.
StopVisualDownload ==
    /\ worker = "linger" /\ worker' = "over"
    /\ IsInProgress' = FALSE /\ claimed' = FALSE
    /\ UNCHANGED <<after, cyclesCount, synchronization>>

-------------------------------------------------------------------------------

MainNext ==
    \/ ResumeThreads \/ BeginRendering \/ SkipRendering \/ EndRendering
    \/ SuspendThreads

SecondNext(s) == SecondEnters(s) \/ SecondLeaves(s)

SafeExecNext ==
    \/ SignalExit \/ AwaitExit \/ Enter \/ Deactivate \/ AwaitFrame \/ Reactivate
    \/ SpawnSecond \/ Leave

BarNext ==
    \/ \E statusEmpty \in BOOLEAN : StartVisualDownload(statusEmpty)
    \/ Exchange \/ AssignStatus \/ \E ok \in BOOLEAN : DoWorkReturns(ok)
    \/ ReportFailure \/ StopVisualDownload

\* The process has ended.
Terminated == ~GameRuns /\ UNCHANGED vars

Next ==
    \/ MainNext \/ \E s \in Seconds : SecondNext(s)
    \/ SwitchWindow \/ PatchStarts \/ PatchEnds \/ UserCancels
    \/ SafeExecNext \/ BarNext \/ Terminated

Spec == Init /\ [][Next]_vars
===============================================================================
