------------------------------- MODULE Kernel -------------------------------
(***************************************************************************)
(* ModLoad and the worker thread of Kernel.cpp.  Each running game is a    *)
(* process; the semaphore and the mutex are named objects that all games   *)
(* of a session share and that live as long as a handle to them.  A game's *)
(* main thread calls ModLoad; a call that succeeds leaves a worker behind. *)
(* A step ends where other threads may see or change what the next one     *)
(* needs; in the worker's assembly that is nearly every instruction.       *)
(*                                                                         *)
(* A call is a game and a number; it also stands for the mod it asks for,  *)
(* for the semaphore handle it opens and for the worker it spawns.  The    *)
(* game's own reference to the DLL is left out, and its thread_spawn is    *)
(* taken to succeed.  Bounds: MaxLoads, MaxCrashes.                        *)
(***************************************************************************)
EXTENDS Integers, FiniteSets

CONSTANTS Games,       \* processes
          Nobody,      \* no owner, no handle
          MaxLoads,    \* bound: each game's calls of ModLoad
          MaxCrashes   \* bound: processes that end by themselves

Calls      == UNION {{p} \X (1..MaxLoads[p]) : p \in Games}
CallsOf(p) == {c \in Calls : c[1] = p}
gameOf(c)  == c[1]
Threads    == Games \cup Calls     \* main threads, workers

ASSUME KernelAssumption ==
    /\ IsFiniteSet(Games) /\ Games \cap Calls = {} /\ Nobody \notin Threads
    /\ MaxLoads \in [Games -> Nat] /\ MaxCrashes \in Nat

VARIABLES
    game,       \* each process: its main thread, its globals, and how often it
                \* has this DLL loaded
    worker,     \* each worker: where it is, and its stack
    semaphore, mutex,
    loads, crashes,    \* bounded counts
    kept        \* history: the main threads that were given WAIT_ABANDONED

vars == <<game, worker, semaphore, mutex, loads, crashes, kept>>

NewGame == [pc |-> "out", call |-> Nobody, result |-> FALSE,
            g_hFzLoaderSemaphore |-> Nobody, g_hDll |-> FALSE,
            g_ModName |-> Nobody, g_Abstraction |-> "none", dllRefs |-> 0]

NoWorker == [pc |-> "none", result |-> FALSE, dll |-> FALSE,
             close |-> Nobody, release |-> Nobody]

NewSemaphore == [count |-> 1, handles |-> {}]
NewMutex     == [owner |-> Nobody, depth |-> 0, abandoned |-> FALSE, handles |-> {}]

Init ==
    /\ game = [p \in Games |-> NewGame] /\ worker = [c \in Calls |-> NoWorker]
    /\ semaphore = NewSemaphore /\ mutex = NewMutex
    /\ loads = [p \in Games |-> 0] /\ crashes = 0 /\ kept = {}

-------------------------------------------------------------------------------
(* The named objects.  An object goes with its last handle.                *)

Kept(object, new) == IF object.handles = {} THEN new ELSE object

Opened(s, h) == [s EXCEPT !.handles = @ \cup {h}]
ClosedAll(s, hs) == Kept([s EXCEPT !.handles = @ \ hs], NewSemaphore)
Closed(s, h) == ClosedAll(s, {h})

\* Mutant: released once more.
SignalledBeyond(s, h) == IF h \in s.handles THEN [s EXCEPT !.count = @ + 1] ELSE s

\* ReleaseSemaphore, up to the maximum of 1; without effect if h is not open.
Signalled(s, h) == IF h \in s.handles THEN [s EXCEPT !.count = 1] ELSE s

\* WaitForSingleObject: the mutex is free, or the waiting thread has it; an
\* owner that ended leaves it abandoned, which the code takes for a failure.
CanTake(t) == (mutex.owner = Nobody /\ ~mutex.abandoned) \/ mutex.owner = t
Abandoned  == mutex.owner = Nobody /\ mutex.abandoned
TakenBy(m, t) == [m EXCEPT !.owner = t, !.depth = @ + 1, !.abandoned = FALSE]

\* A handle to the mutex: the thread that opened it, and in which call.
HandleOf(t, c) == <<t, c>>

\* ReleaseMutex, and CloseHandle.
Released(m) == [m EXCEPT !.owner = IF m.depth = 1 THEN Nobody ELSE @, !.depth = @ - 1]
Without(m, handles) == Kept([m EXCEPT !.handles = @ \ handles], NewMutex)
LeftBy(m, threads) ==
    IF m.owner \in threads
    THEN [m EXCEPT !.owner = Nobody, !.depth = 0, !.abandoned = TRUE] ELSE m

-------------------------------------------------------------------------------
(* ModLoad, called by the main thread of game p                            *)

At(p, label) == game[p].pc = label
ThisCall(p)  == game[p].call
GoTo(p, label) == game' = [game EXCEPT ![p].pc = label]

\* The local variables go with the call.
Return(g) == [g EXCEPT !.pc = "out", !.call = Nobody, !.result = FALSE]

NextCall(p) == <<p, loads[p] + 1>>

ModLoad(p) ==
    /\ At(p, "out") /\ NextCall(p) \in Calls
    /\ loads' = [loads EXCEPT ![p] = @ + 1]
    /\ game' = [game EXCEPT ![p].pc = "semaphore", ![p].call = NextCall(p)]
    /\ semaphore' = Opened(semaphore, NextCall(p))
    /\ UNCHANGED <<worker, mutex, crashes, kept>>

SemaphoreBusy(p) ==
    /\ At(p, "semaphore") /\ semaphore.count = 0
    /\ semaphore' = Closed(semaphore, ThisCall(p))
    /\ game' = [game EXCEPT ![p] = Return(@)]
    /\ UNCHANGED <<worker, mutex, loads, crashes, kept>>

\* Mutant: the name of the mod is set here, before the mutex is asked for.
TakeSemaphoreSetName(p) ==
    /\ At(p, "semaphore") /\ semaphore.count = 1
    /\ semaphore' = [semaphore EXCEPT !.count = 0]
    /\ game' = [game EXCEPT ![p].pc = "clear", ![p].g_ModName = ThisCall(p),
                            ![p].g_hFzLoaderSemaphore = ThisCall(p)]
    /\ UNCHANGED <<worker, mutex, loads, crashes, kept>>

TakeSemaphore(p) ==
    /\ At(p, "semaphore") /\ semaphore.count = 1
    /\ semaphore' = [semaphore EXCEPT !.count = 0]
    /\ game' = [game EXCEPT ![p].pc = "clear",
                            ![p].g_hFzLoaderSemaphore = ThisCall(p)]
    /\ UNCHANGED <<worker, mutex, loads, crashes, kept>>

ClearDll(p) ==
    /\ At(p, "clear")
    /\ game' = [game EXCEPT ![p].pc = "mutex", ![p].g_hDll = FALSE]
    /\ UNCHANGED <<worker, semaphore, mutex, loads, crashes, kept>>

\* The mutex is held by another thread or cannot be created: the handle, if
\* there is one, stays open.  So it does when the mutex was abandoned, and the
\* main thread then owns it.
MutexRefused(p) ==
    LET opened == Opened(mutex, HandleOf(p, ThisCall(p)))
    IN  /\ At(p, "mutex") /\ GoTo(p, "end")
        /\ \/ UNCHANGED <<mutex, kept>>
           \/ mutex.owner \notin {Nobody, p} /\ mutex' = opened /\ UNCHANGED kept
           \/ Abandoned /\ mutex' = TakenBy(opened, p) /\ kept' = kept \cup {p}
        /\ UNCHANGED <<worker, semaphore, loads, crashes>>

\* InitAbstractions may not know the game; ValidateInput may reject the mod.
MutexTaken(p) ==
    /\ At(p, "mutex") /\ CanTake(p)
    /\ mutex' = TakenBy(Opened(mutex, HandleOf(p, ThisCall(p))), p)
    /\ \/ GoTo(p, "release")
       \/ game' = [game EXCEPT ![p].pc = "free", ![p].g_Abstraction = "live"]
       \/ game' = [game EXCEPT ![p].pc = "load", ![p].g_Abstraction = "live",
                               ![p].g_ModName = ThisCall(p)]
    /\ UNCHANGED <<worker, semaphore, loads, crashes, kept>>

\* Mutant: the handle is taken with GetModuleHandle, which counts nothing.
FindDll(p) ==
    /\ At(p, "load")
    /\ game' = [game EXCEPT ![p].pc = "spawn", ![p].g_hDll = TRUE]
    /\ UNCHANGED <<worker, semaphore, mutex, loads, crashes, kept>>

\* LoadLibrary, which may fail.
LoadDll(p) ==
    /\ At(p, "load")
    /\ \/ game' = [game EXCEPT ![p].pc = "spawn", ![p].g_hDll = TRUE,
                               ![p].dllRefs = @ + 1]
       \/ game' = [game EXCEPT ![p].pc = "free", ![p].g_hDll = FALSE]
    /\ UNCHANGED <<worker, semaphore, mutex, loads, crashes, kept>>

Spawn(p) ==
    /\ At(p, "spawn")
    /\ worker' = [worker EXCEPT ![ThisCall(p)].pc = "start"]
    /\ game' = [game EXCEPT ![p].pc = "free", ![p].result = TRUE]
    /\ UNCHANGED <<semaphore, mutex, loads, crashes, kept>>

\* FreeAbstractions, ReleaseMutex, CloseHandle.
LetMutexGo(p) ==
    /\ game[p].pc \in {"free", "release"}
    /\ game' = [game EXCEPT ![p].pc = "end",
                            ![p].g_Abstraction = IF At(p, "free") THEN "freed" ELSE @]
    /\ mutex' = Without(Released(mutex), {HandleOf(p, ThisCall(p))})
    /\ UNCHANGED <<worker, semaphore, loads, crashes, kept>>

\* Mutant: the semaphore is let go only when there is a worker.
EndOnSuccess(p) ==
    /\ At(p, "end")
    /\ game' = [game EXCEPT ![p] = [Return(@) EXCEPT !.g_hFzLoaderSemaphore = Nobody]]
    /\ semaphore' = IF game[p].result
                    THEN Closed(Signalled(semaphore, ThisCall(p)), ThisCall(p))
                    ELSE semaphore
    /\ UNCHANGED <<worker, mutex, loads, crashes, kept>>

\* Back in ModLoad: the DLL is let go after a failure, then the semaphore.
End(p) ==
    LET frees == ~game[p].result /\ game[p].g_hDll
        back  == Return(game[p])
    IN  /\ At(p, "end")
        /\ game' = [game EXCEPT ![p] =
                      [back EXCEPT !.g_hFzLoaderSemaphore = Nobody,
                                   !.g_hDll = back.g_hDll /\ ~frees,
                                   !.dllRefs = IF frees THEN back.dllRefs - 1
                                               ELSE back.dllRefs]]
        /\ semaphore' = Closed(Signalled(semaphore, ThisCall(p)), ThisCall(p))
        /\ UNCHANGED <<worker, mutex, loads, crashes, kept>>

-------------------------------------------------------------------------------
(* ThreadBodyInternal, of the worker that call c has spawned               *)

Is(c, label) == worker[c].pc = label
Go(c, label) == worker' = [worker EXCEPT ![c].pc = label]
Returns(c, value) ==
    worker' = [worker EXCEPT ![c].pc = "push_dll", ![c].result = value]

\* CreateMutex, which may fail.
OpenMutex(c) ==
    /\ Is(c, "start")
    /\ \/ mutex' = Opened(mutex, HandleOf(c, c)) /\ Go(c, "wait")
       \/ Returns(c, FALSE) /\ UNCHANGED mutex
    /\ UNCHANGED <<game, semaphore, loads, crashes, kept>>

\* Mutant: the wait has a time limit, and what it returns is not looked at.
AwaitMutexBriefly(c) ==
    /\ Is(c, "wait") /\ Go(c, "work")
    /\ mutex' = IF CanTake(c) THEN TakenBy(mutex, c) ELSE mutex
    /\ game' = [game EXCEPT ![gameOf(c)].g_Abstraction = "live"]
    /\ UNCHANGED <<semaphore, loads, crashes, kept>>

\* InitAbstractions again, which may fail.
AwaitMutex(c) ==
    /\ Is(c, "wait") /\ CanTake(c)
    /\ \/ /\ mutex' = TakenBy(mutex, c) /\ Go(c, "work")
          /\ game' = [game EXCEPT ![gameOf(c)].g_Abstraction = "live"]
       \/ /\ mutex' = Without(mutex, {HandleOf(c, c)}) /\ Returns(c, FALSE)
          /\ UNCHANGED game
    /\ UNCHANGED <<semaphore, loads, crashes, kept>>

\* WAIT_ABANDONED: the thread owns the mutex and closes its handle.
MutexAbandoned(c) ==
    /\ Is(c, "wait") /\ Abandoned
    /\ mutex' = Without(TakenBy(mutex, c), {HandleOf(c, c)})
    /\ Returns(c, FALSE)
    /\ UNCHANGED <<game, semaphore, loads, crashes, kept>>

\* DoWork succeeds, or fails or is cancelled: the thread goes on in the same
\* way (a failure that is no cancel meets an assertion first, see Crash).
DoWork(c) ==
    /\ Is(c, "work")
    /\ worker' = [worker EXCEPT ![c].pc = "push_dll", ![c].result = TRUE]
    /\ game' = [game EXCEPT ![gameOf(c)].g_Abstraction = "freed"]
    /\ mutex' = Without(Released(mutex), {HandleOf(c, c)})
    /\ UNCHANGED <<semaphore, loads, crashes, kept>>

-------------------------------------------------------------------------------
(* ThreadBody, the instructions after the call.  The globals are pushed,   *)
(* the semaphore's handle twice, and cleared; what is popped is forgotten. *)

PushDll(c) ==
    /\ Is(c, "push_dll")
    /\ worker' = [worker EXCEPT ![c].pc = "zero_dll", ![c].dll = game[gameOf(c)].g_hDll]
    /\ UNCHANGED <<game, semaphore, mutex, loads, crashes, kept>>

ZeroDll(c) ==
    /\ Is(c, "zero_dll") /\ Go(c, "push_close")
    /\ game' = [game EXCEPT ![gameOf(c)].g_hDll = FALSE]
    /\ UNCHANGED <<semaphore, mutex, loads, crashes, kept>>

PushSemaphore(c) ==
    LET h == game[gameOf(c)].g_hFzLoaderSemaphore
    IN  /\ \/ /\ Is(c, "push_close")
              /\ worker' = [worker EXCEPT ![c].pc = "push_release", ![c].close = h]
           \/ /\ Is(c, "push_release")
              /\ worker' = [worker EXCEPT ![c].pc = "zero_semaphore", ![c].release = h]
        /\ UNCHANGED <<game, semaphore, mutex, loads, crashes, kept>>

ZeroSemaphore(c) ==
    /\ Is(c, "zero_semaphore") /\ Go(c, "signal")
    /\ game' = [game EXCEPT ![gameOf(c)].g_hFzLoaderSemaphore = Nobody]
    /\ UNCHANGED <<semaphore, mutex, loads, crashes, kept>>

SignalSemaphore(c) ==
    /\ Is(c, "signal")
    /\ worker' = [worker EXCEPT ![c].pc = "close", ![c].release = Nobody]
    /\ semaphore' = Signalled(semaphore, worker[c].release)
    /\ UNCHANGED <<game, mutex, loads, crashes, kept>>

CloseSemaphore(c) ==
    /\ Is(c, "close")
    /\ worker' = [worker EXCEPT ![c].pc = "exit", ![c].close = Nobody]
    /\ semaphore' = Closed(semaphore, worker[c].close)
    /\ UNCHANGED <<game, mutex, loads, crashes, kept>>

\* FreeLibraryAndExitThread; a mutex the thread still owns is abandoned.
ExitThread(c) ==
    /\ Is(c, "exit") /\ ~worker[c].result
    /\ worker' = [worker EXCEPT ![c] = NoWorker]
    /\ game' = [game EXCEPT ![gameOf(c)].dllRefs =
                                IF worker[c].dll THEN @ - 1 ELSE @]
    /\ mutex' = Kept(LeftBy(mutex, {c}), NewMutex)
    /\ UNCHANGED <<semaphore, loads, crashes, kept>>

-------------------------------------------------------------------------------
(* Processes                                                               *)

\* The threads go, handles are closed, what the threads own is abandoned; the
\* next process of this game starts afresh.
ProcessEnds(p) ==
    LET mine    == {p} \cup CallsOf(p)
    IN  /\ game' = [game EXCEPT ![p] = NewGame]
        /\ worker' = [c \in Calls |-> IF gameOf(c) = p THEN NoWorker ELSE worker[c]]
        /\ semaphore' = ClosedAll(semaphore, CallsOf(p))
        /\ mutex' = Without(LeftBy(mutex, mine), {h \in mutex.handles : h[1] \in mine})
        /\ kept' = kept \ {p} /\ UNCHANGED loads

\* TerminateProcess.
Terminate(c) ==
    /\ Is(c, "exit") /\ worker[c].result
    /\ ProcessEnds(gameOf(c))
    /\ UNCHANGED crashes

\* The game ends by itself, or at an assertion of the loader.
Crash(p) ==
    /\ crashes < MaxCrashes
    /\ ~At(p, "out") \/ \E c \in CallsOf(p) : ~Is(c, "none")
    /\ crashes' = crashes + 1
    /\ ProcessEnds(p)

Main(p) ==
    \/ ModLoad(p) \/ SemaphoreBusy(p) \/ TakeSemaphore(p) \/ ClearDll(p)
    \/ MutexRefused(p) \/ MutexTaken(p) \/ LoadDll(p) \/ Spawn(p)
    \/ LetMutexGo(p) \/ End(p)

Worker(c) ==
    \/ OpenMutex(c) \/ AwaitMutex(c) \/ MutexAbandoned(c) \/ DoWork(c)
    \/ PushDll(c) \/ ZeroDll(c) \/ PushSemaphore(c) \/ ZeroSemaphore(c)
    \/ SignalSemaphore(c) \/ CloseSemaphore(c) \/ ExitThread(c) \/ Terminate(c)

Next ==
    \/ \E p \in Games : Main(p) \/ Crash(p)
    \/ \E c \in Calls : Worker(c)

Spec == Init /\ [][Next]_vars
===============================================================================
