---------------------------- MODULE GuiSyncProofs ----------------------------
(***************************************************************************)
(* Proofs about the calls into the running game: they are exclusive, they  *)
(* leave one secondary thread, they lose no switch of the window, and the  *)
(* download bar is claimed only when nothing of the game is behind it.     *)
(***************************************************************************)
EXTENDS GuiSyncProperties, TLAPS

\* The initial states satisfy the invariant.
LEMMA InitIInv == Init => IInv
<1> SUFFICES ASSUME Init PROVE IInv
    OBVIOUS
<1> USE GuiSyncAssumption DEF Init, Alive, Inside, InSafeExec
<1>1. PICK s \in Seconds : second = [t \in Seconds |-> IF t = s THEN "waiting" ELSE "none"]
    OBVIOUS
<1>2. TypeOK
    <2>1. b_is_Active \in BOOLEAN /\ IsInProgress \in BOOLEAN
        OBVIOUS
    <2>2. claimed \in BOOLEAN /\ mt_bMustExit \in BOOLEAN /\ g_bRendering \in BOOLEAN /\ oldActiveStatus \in BOOLEAN
        OBVIOUS
    <2> QED
        BY <1>1, <2>1, <2>2 DEF TypeOK
<1>3. HolderInv
    BY <1>1 DEF HolderInv
<1>4. SecondInv
    BY <1>1 DEF SecondInv
<1>5. ActiveInv
    BY DEF ActiveInv, ActiveFollowsWindow
<1>6. CyclesInv
    BY DEF CyclesInv
<1>7. BarInv
    BY DEF BarInv, BarIsOurs
<1> QED
    BY <1>2, <1>3, <1>4, <1>5, <1>6, <1>7 DEF IInv

\* Every step keeps the invariant.
LEMMA NextIInv == IInv /\ [Next]_vars => IInv'
<1> SUFFICES ASSUME IInv, [Next]_vars PROVE IInv'
    OBVIOUS
<1> USE GuiSyncAssumption DEF IInv, Alive, Inside, InSafeExec
<1>1. CASE ResumeThreads
    <2> USE <1>1 DEF ResumeThreads, Main, engine, local, bar
    <2>1. TypeOK'
        BY DEF TypeOK
    <2>2. HolderInv'
        BY DEF HolderInv, TypeOK
    <2>3. SecondInv'
        BY DEF SecondInv, HolderInv, TypeOK
    <2>4. ActiveInv'
        BY DEF ActiveInv, ActiveFollowsWindow, HolderInv, TypeOK
    <2>5. CyclesInv'
        BY DEF CyclesInv, TypeOK
    <2>6. BarInv'
        BY DEF BarInv, BarIsOurs, GameRuns, TypeOK
    <2> QED
        BY <2>1, <2>2, <2>3, <2>4, <2>5, <2>6
<1>2. CASE BeginRendering
    <2> USE <1>2 DEF BeginRendering, Main, engine, local, bar
    <2>1. TypeOK'
        BY DEF TypeOK
    <2>2. HolderInv'
        BY DEF HolderInv, TypeOK
    <2>3. SecondInv'
        BY DEF SecondInv, HolderInv, TypeOK
    <2>4. ActiveInv'
        BY DEF ActiveInv, ActiveFollowsWindow, HolderInv, TypeOK
    <2>5. CyclesInv'
        BY DEF CyclesInv, TypeOK
    <2>6. BarInv'
        BY DEF BarInv, BarIsOurs, GameRuns, TypeOK
    <2> QED
        BY <2>1, <2>2, <2>3, <2>4, <2>5, <2>6
<1>3. CASE SkipRendering
    <2> USE <1>3 DEF SkipRendering, Main, engine, local, bar
    <2>1. TypeOK'
        BY DEF TypeOK
    <2>2. HolderInv'
        BY DEF HolderInv, TypeOK
    <2>3. SecondInv'
        BY DEF SecondInv, HolderInv, TypeOK
    <2>4. ActiveInv'
        BY DEF ActiveInv, ActiveFollowsWindow, HolderInv, TypeOK
    <2>5. CyclesInv'
        BY DEF CyclesInv, TypeOK
    <2>6. BarInv'
        BY DEF BarInv, BarIsOurs, GameRuns, TypeOK
    <2> QED
        BY <2>1, <2>2, <2>3, <2>4, <2>5, <2>6
<1>4. CASE EndRendering
    <2> USE <1>4 DEF EndRendering, Main, engine, local, bar
    <2>1. TypeOK'
        <3>1. g_bRendering' \in BOOLEAN
            OBVIOUS
        <3> QED
            BY <3>1 DEF TypeOK
    <2>2. HolderInv'
        BY DEF HolderInv, TypeOK
    <2>3. SecondInv'
        BY DEF SecondInv, HolderInv, TypeOK
    <2>4. ActiveInv'
        BY DEF ActiveInv, ActiveFollowsWindow, HolderInv, TypeOK
    <2>5. CyclesInv'
        BY DEF CyclesInv, TypeOK
    <2>6. BarInv'
        BY DEF BarInv, BarIsOurs, GameRuns, TypeOK
    <2> QED
        BY <2>1, <2>2, <2>3, <2>4, <2>5, <2>6
<1>5. CASE SuspendThreads
    <2> USE <1>5 DEF SuspendThreads, Main, engine, local, bar
    <2>1. TypeOK'
        BY DEF TypeOK
    <2>2. HolderInv'
        BY DEF HolderInv, TypeOK
    <2>3. SecondInv'
        BY DEF SecondInv, HolderInv, TypeOK
    <2>4. ActiveInv'
        BY DEF ActiveInv, ActiveFollowsWindow, HolderInv, TypeOK
    <2>5. CyclesInv'
        BY DEF CyclesInv, TypeOK
    <2>6. BarInv'
        BY DEF BarInv, BarIsOurs, GameRuns, TypeOK
    <2> QED
        BY <2>1, <2>2, <2>3, <2>4, <2>5, <2>6
<1>6. ASSUME NEW s \in Seconds, SecondEnters(s) PROVE IInv'
    <2> USE <1>6 DEF SecondEnters, Second, engine, local, bar
    <2>1. TypeOK'
        <3>1. mt_bMustExit' \in BOOLEAN
            OBVIOUS
        <3> QED
            BY <3>1 DEF TypeOK
    <2>2. HolderInv'
        BY DEF HolderInv, TypeOK
    <2>3. SecondInv'
        BY DEF SecondInv, HolderInv, TypeOK
    <2>4. ActiveInv'
        BY DEF ActiveInv, ActiveFollowsWindow, HolderInv, TypeOK
    <2>5. CyclesInv'
        BY DEF CyclesInv, TypeOK
    <2>6. BarInv'
        BY DEF BarInv, BarIsOurs, GameRuns, TypeOK
    <2> QED
        BY <2>1, <2>2, <2>3, <2>4, <2>5, <2>6
<1>7. ASSUME NEW s \in Seconds, SecondLeaves(s) PROVE IInv'
    <2> USE <1>7 DEF SecondLeaves, Second, engine, local, bar
    <2>1. TypeOK'
        BY DEF TypeOK
    <2>2. HolderInv'
        BY DEF HolderInv, TypeOK
    <2>3. SecondInv'
        BY DEF SecondInv, HolderInv, TypeOK
    <2>4. ActiveInv'
        BY DEF ActiveInv, ActiveFollowsWindow, HolderInv, TypeOK
    <2>5. CyclesInv'
        BY DEF CyclesInv, TypeOK
    <2>6. BarInv'
        BY DEF BarInv, BarIsOurs, GameRuns, TypeOK
    <2> QED
        BY <2>1, <2>2, <2>3, <2>4, <2>5, <2>6
<1>8. CASE SwitchWindow
    <2> USE <1>8 DEF SwitchWindow, engine, local, bar
    <2>1. TypeOK'
        BY DEF TypeOK
    <2>2. HolderInv'
        BY DEF HolderInv, TypeOK
    <2>3. SecondInv'
        BY DEF SecondInv, HolderInv, TypeOK
    <2>4. ActiveInv'
        BY DEF ActiveInv, ActiveFollowsWindow, HolderInv, TypeOK
    <2>5. CyclesInv'
        BY DEF CyclesInv, TypeOK
    <2>6. BarInv'
        BY DEF BarInv, BarIsOurs, GameRuns, TypeOK
    <2> QED
        BY <2>1, <2>2, <2>3, <2>4, <2>5, <2>6
<1>9. CASE PatchStarts
    <2> USE <1>9 DEF PatchStarts, Bar, engine, local, bar
    <2>1. TypeOK'
        BY DEF TypeOK
    <2>2. HolderInv'
        BY DEF HolderInv, TypeOK
    <2>3. SecondInv'
        BY DEF SecondInv, HolderInv, TypeOK
    <2>4. ActiveInv'
        BY DEF ActiveInv, ActiveFollowsWindow, HolderInv, TypeOK
    <2>5. CyclesInv'
        BY DEF CyclesInv, TypeOK
    <2>6. BarInv'
        BY DEF BarInv, BarIsOurs, GameRuns, TypeOK
    <2> QED
        BY <2>1, <2>2, <2>3, <2>4, <2>5, <2>6
<1>10. CASE PatchEnds
    <2> USE <1>10 DEF PatchEnds, Bar, engine, local, bar
    <2>1. TypeOK'
        <3>1. IsInProgress' \in BOOLEAN
            OBVIOUS
        <3>2. patch' \in BOOLEAN
            OBVIOUS
        <3> QED
            BY <3>1, <3>2 DEF TypeOK
    <2>2. HolderInv'
        BY DEF HolderInv, TypeOK
    <2>3. SecondInv'
        BY DEF SecondInv, HolderInv, TypeOK
    <2>4. ActiveInv'
        BY DEF ActiveInv, ActiveFollowsWindow, HolderInv, TypeOK
    <2>5. CyclesInv'
        BY DEF CyclesInv, TypeOK
    <2>6. BarInv'
        BY DEF BarInv, BarIsOurs, GameRuns, TypeOK
    <2> QED
        BY <2>1, <2>2, <2>3, <2>4, <2>5, <2>6
<1>11. CASE UserCancels
    <2> USE <1>11 DEF UserCancels, Bar, engine, local, bar
    <2>1. TypeOK'
        <3>1. IsInProgress' \in BOOLEAN
            OBVIOUS
        <3>2. patch' \in BOOLEAN
            OBVIOUS
        <3>3. claimed' \in BOOLEAN
            OBVIOUS
        <3> QED
            BY <3>1, <3>2, <3>3 DEF TypeOK
    <2>2. HolderInv'
        BY DEF HolderInv, TypeOK
    <2>3. SecondInv'
        BY DEF SecondInv, HolderInv, TypeOK
    <2>4. ActiveInv'
        BY DEF ActiveInv, ActiveFollowsWindow, HolderInv, TypeOK
    <2>5. CyclesInv'
        BY DEF CyclesInv, TypeOK
    <2>6. BarInv'
        BY DEF BarInv, BarIsOurs, GameRuns, TypeOK
    <2> QED
        BY <2>1, <2>2, <2>3, <2>4, <2>5, <2>6
<1>12. CASE SignalExit
    <2> USE <1>12 DEF SignalExit, WorkerGoes, engine, local, bar
    <2>1. TypeOK'
        BY DEF TypeOK
    <2>2. HolderInv'
        BY DEF HolderInv, TypeOK
    <2>3. SecondInv'
        BY DEF SecondInv, HolderInv, TypeOK
    <2>4. ActiveInv'
        BY DEF ActiveInv, ActiveFollowsWindow, HolderInv, TypeOK
    <2>5. CyclesInv'
        BY DEF CyclesInv, TypeOK
    <2>6. BarInv'
        BY DEF BarInv, BarIsOurs, GameRuns, TypeOK
    <2> QED
        BY <2>1, <2>2, <2>3, <2>4, <2>5, <2>6
<1>13. CASE AwaitExit
    <2> USE <1>13 DEF AwaitExit, WorkerGoes, engine, local, bar
    <2>1. TypeOK'
        BY DEF TypeOK
    <2>2. HolderInv'
        BY DEF HolderInv, TypeOK
    <2>3. SecondInv'
        BY DEF SecondInv, HolderInv, TypeOK
    <2>4. ActiveInv'
        BY DEF ActiveInv, ActiveFollowsWindow, HolderInv, TypeOK
    <2>5. CyclesInv'
        BY DEF CyclesInv, TypeOK
    <2>6. BarInv'
        BY DEF BarInv, BarIsOurs, GameRuns, TypeOK
    <2> QED
        BY <2>1, <2>2, <2>3, <2>4, <2>5, <2>6
<1>14. CASE Enter
    <2> USE <1>14 DEF Enter, WorkerGoes, engine, local, bar
    <2>1. TypeOK'
        BY DEF TypeOK
    <2>2. HolderInv'
        BY DEF HolderInv, TypeOK
    <2>3. SecondInv'
        BY DEF SecondInv, HolderInv, TypeOK
    <2>4. ActiveInv'
        BY DEF ActiveInv, ActiveFollowsWindow, HolderInv, TypeOK
    <2>5. CyclesInv'
        BY DEF CyclesInv, TypeOK
    <2>6. BarInv'
        BY DEF BarInv, BarIsOurs, GameRuns, TypeOK
    <2> QED
        BY <2>1, <2>2, <2>3, <2>4, <2>5, <2>6
<1>15. CASE Deactivate
    <2> USE <1>15 DEF Deactivate, WorkerGoes, engine, local, bar
    <2>1. TypeOK'
        BY DEF TypeOK
    <2>2. HolderInv'
        BY DEF HolderInv, TypeOK
    <2>3. SecondInv'
        BY DEF SecondInv, HolderInv, TypeOK
    <2>4. ActiveInv'
        BY DEF ActiveInv, ActiveFollowsWindow, HolderInv, TypeOK
    <2>5. CyclesInv'
        BY DEF CyclesInv, TypeOK
    <2>6. BarInv'
        BY DEF BarInv, BarIsOurs, GameRuns, TypeOK
    <2> QED
        BY <2>1, <2>2, <2>3, <2>4, <2>5, <2>6
<1>16. CASE AwaitFrame
    <2> USE <1>16 DEF AwaitFrame, WorkerGoes, engine, local, bar
    <2>1. TypeOK'
        BY DEF TypeOK
    <2>2. HolderInv'
        BY DEF HolderInv, TypeOK
    <2>3. SecondInv'
        BY DEF SecondInv, HolderInv, TypeOK
    <2>4. ActiveInv'
        BY DEF ActiveInv, ActiveFollowsWindow, HolderInv, TypeOK
    <2>5. CyclesInv'
        BY DEF CyclesInv, TypeOK
    <2>6. BarInv'
        BY DEF BarInv, BarIsOurs, GameRuns, TypeOK
    <2> QED
        BY <2>1, <2>2, <2>3, <2>4, <2>5, <2>6
<1>17. CASE Reactivate
    <2> USE <1>17 DEF Reactivate, WorkerGoes, engine, local, bar
    <2>1. TypeOK'
        BY DEF TypeOK
    <2>2. HolderInv'
        BY DEF HolderInv, TypeOK
    <2>3. SecondInv'
        BY DEF SecondInv, HolderInv, TypeOK
    <2>4. ActiveInv'
        BY DEF ActiveInv, ActiveFollowsWindow, HolderInv, TypeOK
    <2>5. CyclesInv'
        BY DEF CyclesInv, TypeOK
    <2>6. BarInv'
        BY DEF BarInv, BarIsOurs, GameRuns, TypeOK
    <2> QED
        BY <2>1, <2>2, <2>3, <2>4, <2>5, <2>6
<1>18. CASE SpawnSecond
    <2> USE <1>18 DEF SpawnSecond, WorkerGoes, engine, local, bar
    <2>1. TypeOK'
        BY DEF TypeOK
    <2>2. HolderInv'
        BY DEF HolderInv, TypeOK
    <2>3. SecondInv'
        BY DEF SecondInv, HolderInv, TypeOK
    <2>4. ActiveInv'
        BY DEF ActiveInv, ActiveFollowsWindow, HolderInv, TypeOK
    <2>5. CyclesInv'
        BY DEF CyclesInv, TypeOK
    <2>6. BarInv'
        BY DEF BarInv, BarIsOurs, GameRuns, TypeOK
    <2> QED
        BY <2>1, <2>2, <2>3, <2>4, <2>5, <2>6
<1>19. CASE Leave
    <2> USE <1>19 DEF Leave, WorkerGoes, engine, local, bar
    <2>1. TypeOK'
        BY DEF TypeOK
    <2>2. HolderInv'
        BY DEF HolderInv, TypeOK
    <2>3. SecondInv'
        BY DEF SecondInv, HolderInv, TypeOK
    <2>4. ActiveInv'
        BY DEF ActiveInv, ActiveFollowsWindow, HolderInv, TypeOK
    <2>5. CyclesInv'
        BY DEF CyclesInv, TypeOK
    <2>6. BarInv'
        BY DEF BarInv, BarIsOurs, GameRuns, TypeOK
    <2> QED
        BY <2>1, <2>2, <2>3, <2>4, <2>5, <2>6
<1>20. ASSUME NEW statusEmpty \in BOOLEAN, StartVisualDownload(statusEmpty) PROVE IInv'
    <2> USE <1>20 DEF StartVisualDownload, SafeExec, synchronization, engine, local, bar
    <2>1. TypeOK'
        BY DEF TypeOK
    <2>2. HolderInv'
        BY DEF HolderInv, TypeOK
    <2>3. SecondInv'
        BY DEF SecondInv, HolderInv, TypeOK
    <2>4. ActiveInv'
        BY DEF ActiveInv, ActiveFollowsWindow, HolderInv, TypeOK
    <2>5. CyclesInv'
        BY DEF CyclesInv, TypeOK
    <2>6. BarInv'
        BY DEF BarInv, BarIsOurs, GameRuns, TypeOK
    <2> QED
        BY <2>1, <2>2, <2>3, <2>4, <2>5, <2>6
<1>21. CASE Exchange
    <2> USE <1>21 DEF Exchange, SafeExec, synchronization, engine, local, bar
    <2>1. TypeOK'
        <3>1. IsInProgress' \in BOOLEAN
            OBVIOUS
        <3>2. cyclesCount' \in 0..MaxCycles
            BY DEF TypeOK, CyclesInv
        <3>3. claimed' \in BOOLEAN
            OBVIOUS
        <3> QED
            BY <3>1, <3>2, <3>3 DEF TypeOK
    <2>2. HolderInv'
        BY DEF HolderInv, TypeOK
    <2>3. SecondInv'
        BY DEF SecondInv, HolderInv, TypeOK
    <2>4. ActiveInv'
        BY DEF ActiveInv, ActiveFollowsWindow, HolderInv, TypeOK
    <2>5. CyclesInv'
        BY DEF CyclesInv, TypeOK
    <2>6. BarInv'
        BY DEF BarInv, BarIsOurs, GameRuns, TypeOK
    <2> QED
        BY <2>1, <2>2, <2>3, <2>4, <2>5, <2>6
<1>22. CASE AssignStatus
    <2> USE <1>22 DEF AssignStatus, SafeExec, synchronization, engine, local, bar
    <2>1. TypeOK'
        BY DEF TypeOK
    <2>2. HolderInv'
        BY DEF HolderInv, TypeOK
    <2>3. SecondInv'
        BY DEF SecondInv, HolderInv, TypeOK
    <2>4. ActiveInv'
        BY DEF ActiveInv, ActiveFollowsWindow, HolderInv, TypeOK
    <2>5. CyclesInv'
        BY DEF CyclesInv, TypeOK
    <2>6. BarInv'
        BY DEF BarInv, BarIsOurs, GameRuns, TypeOK
    <2> QED
        BY <2>1, <2>2, <2>3, <2>4, <2>5, <2>6
<1>23. ASSUME NEW ok \in BOOLEAN, DoWorkReturns(ok) PROVE IInv'
    <2> USE <1>23 DEF DoWorkReturns, synchronization, engine, local, bar
    <2>1. TypeOK'
        BY DEF TypeOK
    <2>2. HolderInv'
        BY DEF HolderInv, TypeOK
    <2>3. SecondInv'
        BY DEF SecondInv, HolderInv, TypeOK
    <2>4. ActiveInv'
        BY DEF ActiveInv, ActiveFollowsWindow, HolderInv, TypeOK
    <2>5. CyclesInv'
        BY DEF CyclesInv, TypeOK
    <2>6. BarInv'
        BY DEF BarInv, BarIsOurs, GameRuns, TypeOK
    <2> QED
        BY <2>1, <2>2, <2>3, <2>4, <2>5, <2>6
<1>24. CASE ReportFailure
    <2> USE <1>24 DEF ReportFailure, SafeExec, synchronization, engine, local, bar
    <2>1. TypeOK'
        BY DEF TypeOK
    <2>2. HolderInv'
        BY DEF HolderInv, TypeOK
    <2>3. SecondInv'
        BY DEF SecondInv, HolderInv, TypeOK
    <2>4. ActiveInv'
        BY DEF ActiveInv, ActiveFollowsWindow, HolderInv, TypeOK
    <2>5. CyclesInv'
        BY DEF CyclesInv, TypeOK
    <2>6. BarInv'
        BY DEF BarInv, BarIsOurs, GameRuns, TypeOK
    <2> QED
        BY <2>1, <2>2, <2>3, <2>4, <2>5, <2>6
<1>25. CASE StopVisualDownload
    <2> USE <1>25 DEF StopVisualDownload, synchronization, engine, local, bar
    <2>1. TypeOK'
        BY DEF TypeOK
    <2>2. HolderInv'
        BY DEF HolderInv, TypeOK
    <2>3. SecondInv'
        BY DEF SecondInv, HolderInv, TypeOK
    <2>4. ActiveInv'
        BY DEF ActiveInv, ActiveFollowsWindow, HolderInv, TypeOK
    <2>5. CyclesInv'
        BY DEF CyclesInv, TypeOK
    <2>6. BarInv'
        BY DEF BarInv, BarIsOurs, GameRuns, TypeOK
    <2> QED
        BY <2>1, <2>2, <2>3, <2>4, <2>5, <2>6
<1>26. CASE UNCHANGED vars
    <2> USE <1>26 DEF vars, engine, local, bar
    <2>1. TypeOK'
        BY DEF TypeOK
    <2>2. HolderInv'
        BY DEF HolderInv, TypeOK
    <2>3. SecondInv'
        BY DEF SecondInv, HolderInv, TypeOK
    <2>4. ActiveInv'
        BY DEF ActiveInv, ActiveFollowsWindow, HolderInv, TypeOK
    <2>5. CyclesInv'
        BY DEF CyclesInv, TypeOK
    <2>6. BarInv'
        BY DEF BarInv, BarIsOurs, GameRuns, TypeOK
    <2> QED
        BY <2>1, <2>2, <2>3, <2>4, <2>5, <2>6
<1> QED
    BY <1>1, <1>2, <1>3, <1>4, <1>5, <1>6, <1>7, <1>8, <1>9, <1>10, <1>11, <1>12, <1>13, <1>14, <1>15, <1>16, <1>17, <1>18, <1>19, <1>20, <1>21, <1>22, <1>23, <1>24, <1>25, <1>26
    DEF Next, MainNext, SecondNext, SafeExecNext, BarNext, Terminated

\* The invariant holds in every reachable state, for any number of identities of
\* secondary threads and any number of rounds of StartVisualDownload.
THEOREM Inductive == Spec => []IInv
<1>1. Init => IInv
    BY InitIInv
<1>2. IInv /\ [Next]_vars => IInv'
    BY NextIInv
<1> QED
    BY <1>1, <1>2, PTL DEF Spec

\* Every variable keeps its values, the place of each thread among them.
THEOREM TypeCorrect == Spec => []TypeOK
<1>1. IInv => TypeOK
    BY DEF IInv
<1> QED
    BY <1>1, Inductive, PTL

\* The calls into the game exclude the update of the world and the secondary
\* thread (Abstractions.cpp:636-664).
THEOREM Exclusive == Spec => []CallsAreExclusive
<1>1. IInv => CallsAreExclusive
    BY GuiSyncAssumption DEF IInv, HolderInv, CallsAreExclusive, Inside
<1> QED
    BY <1>1, Inductive, PTL

\* SafeExec ends one secondary thread and starts one, in this order
\* (Abstractions.cpp:643-647, 671).
THEOREM SecondThread == Spec => []OneSecondThread
<1>1. IInv => OneSecondThread
    BY DEF IInv, SecondInv, OneSecondThread, InSafeExec, Inside
<1> QED
    BY <1>1, Inductive, PTL

\* What the user does with the window is what b_is_Active says afterwards
\* (Abstractions.cpp:657-664).
THEOREM WindowKept == Spec => []ActiveFollowsWindow
<1>1. IInv => ActiveFollowsWindow
    BY DEF IInv, ActiveInv
<1> QED
    BY <1>1, Inductive, PTL

\* A bar that StartVisualDownload has claimed is the worker's until the user cancels
\* (Abstractions.cpp:829-840).
THEOREM BarKept == Spec => []BarIsOurs
<1>1. IInv => BarIsOurs
    BY DEF IInv, BarInv
<1> QED
    BY <1>1, Inductive, PTL
===============================================================================
