-------------------------- MODULE GuiSyncProperties --------------------------
(***************************************************************************)
(* What the worker relies on when it calls into the running game, and what *)
(* the game relies on when it has been called.                             *)
(***************************************************************************)
EXTENDS GuiSync

Inside == {"deactivate", "await_frame", "reactivate", "inside", "leave"}
InSafeExec == worker \in {"signal", "await_exit", "enter"} \cup Inside

\* Every variable has the values the code and the engine can give it.
TypeOK ==
    /\ mt_bMustExit \in BOOLEAN /\ b_is_Active \in BOOLEAN /\ g_bRendering \in BOOLEAN
    /\ IsInProgress \in BOOLEAN /\ window \in BOOLEAN /\ patch \in BOOLEAN
    /\ oldActiveStatus \in BOOLEAN /\ claimed \in BOOLEAN
    /\ mt_csEnter \in Seconds \cup {Nobody, "main", "worker"}
    /\ main \in {"update", "parallel", "render", "suspend"}
    /\ second \in [Seconds -> {"none", "waiting", "working", "leaving", "resting"}]
    /\ InSafeExec \/ worker \in {"start", "exchange", "work", "failed", "linger", "over"}
    /\ after \in {"exchange", "work", "linger"} /\ cyclesCount \in 0..MaxCycles

-------------------------------------------------------------------------------
(* Safety *)

\* While the worker calls the game's functions, no secondary thread is at work
\* and the main thread does not update the world.
CallsAreExclusive ==
    worker \in Inside =>
        /\ main # "update"
        /\ \A s \in Seconds : second[s] \notin {"working", "leaving"}

Alive(s) == second[s] # "none"

\* However often the worker ends the secondary thread and starts another, there
\* is never more than one, and exactly one unless the worker is in SafeExec.
OneSecondThread ==
    /\ \A s, t \in Seconds : Alive(s) /\ Alive(t) => s = t
    /\ ~InSafeExec => \E s \in Seconds : Alive(s)

\* The exchange of b_is_Active and its reversal leave what the window messages
\* have set: no switch of the window gets lost in between.
ActiveFollowsWindow ==
    worker \notin {"await_frame", "reactivate"} => b_is_Active = window

\* Once StartVisualDownload has claimed the bar, in the last round or in an earlier
\* one, no download of the game goes on behind it: what DoWork then takes for a
\* cancel is the user's, not the end of the game's own download
\* (Abstractions.cpp:837, ModLoader.cpp:447).
BarIsOurs == claimed => IsInProgress /\ ~patch

-------------------------------------------------------------------------------
(* The strengthening behind these: who holds mt_csEnter, what a secondary     *)
(* thread may do at each place of the worker, what the worker has kept of     *)
(* b_is_Active, that the loop of StartVisualDownload has rounds left          *)
(* (cyclesCount is unsigned), and whose the download bar is.                  *)

HolderInv ==
    /\ mt_csEnter = "main" <=> main = "update"
    /\ mt_csEnter = "worker" <=> worker \in Inside
    /\ \A s \in Seconds : mt_csEnter = s <=> second[s] \in {"working", "leaving"}

SecondInv ==
    /\ mt_bMustExit => worker = "await_exit"
    /\ worker \in {"await_exit", "enter"} /\ ~mt_bMustExit =>
          \A s \in Seconds : second[s] \in {"leaving", "none"}
    /\ worker \in Inside \ {"leave"} => \A s \in Seconds : ~Alive(s)
    /\ worker \notin {"await_exit", "enter"} \/ mt_bMustExit =>
          \A s \in Seconds : second[s] # "leaving"
    /\ \A s, t \in Seconds : Alive(s) /\ Alive(t) => s = t
    /\ ~InSafeExec \/ worker \in {"signal", "leave"} \/ mt_bMustExit =>
          \E s \in Seconds : Alive(s)

ActiveInv ==
    /\ worker \in {"await_frame", "reactivate"} => oldActiveStatus = window
    /\ ActiveFollowsWindow

CyclesInv ==
    worker \in {"start", "exchange"} \/ (InSafeExec /\ after = "exchange") =>
        cyclesCount > 0

\* A download of the game shows its bar as long as it lasts, and nothing leads to
\* DoWork but the exchange.
BarInv ==
    /\ BarIsOurs
    /\ patch /\ GameRuns => IsInProgress
    /\ worker \in {"start", "exchange"} => after = "exchange"

IInv == TypeOK /\ HolderInv /\ SecondInv /\ ActiveInv /\ CyclesInv /\ BarInv

-------------------------------------------------------------------------------
(* Liveness *)

\* Threads that can go on do so.  mt_csEnter is free in every parallel section,
\* and who waits for it gets it at some time.
Fairness ==
    /\ WF_vars(MainNext) /\ SF_vars(SuspendThreads)
    /\ \A s \in Seconds : SF_vars(SecondEnters(s)) /\ WF_vars(SecondLeaves(s))
    /\ WF_vars(SafeExecNext) /\ SF_vars(Enter)
    /\ WF_vars(StopVisualDownload)

FairSpec == Spec /\ Fairness

\* Every call into the game returns, as long as the window comes back to the
\* foreground again and again: without frames the worker waits for ever.
SafeExecReturns ==
    []<>(main = "parallel" \/ worker = "over") => (InSafeExec ~> ~InSafeExec)
===============================================================================
