-------------------------- MODULE KernelProperties --------------------------
(***************************************************************************)
(* What Kernel.cpp relies on: the DLL stays while its code runs, one       *)
(* thread at a time uses the globals, and no object is lost for ever.      *)
(***************************************************************************)
EXTENDS Kernel

Handles == Calls \cup {Nobody}

MainLabels == {"out", "semaphore", "clear", "mutex", "load", "spawn", "free",
               "release", "end"}
MainStates ==
    [pc : MainLabels, call : Handles, result : BOOLEAN,
     g_hFzLoaderSemaphore : Handles, g_hDll : BOOLEAN, g_ModName : Handles,
     g_Abstraction : {"none", "live", "freed"}, dllRefs : Nat]

WorkerLabels == {"none", "start", "wait", "work", "push_dll", "zero_dll",
                 "push_close", "push_release", "zero_semaphore", "signal",
                 "close", "exit"}
WorkerStates == [pc : WorkerLabels, result : BOOLEAN, dll : BOOLEAN,
                 close : Handles, release : Handles]

SemaphoreStates == [count : {0, 1}, handles : SUBSET Calls]
MutexStates == [owner : Threads \cup {Nobody}, depth : Nat, abandoned : BOOLEAN,
                handles : SUBSET (Threads \X Calls)]
MutexOK ==
    mutex \in MutexStates /\ ((mutex.owner = Nobody) <=> (mutex.depth = 0))

\* Every variable has the values the code can give it; the semaphore never
\* exceeds its maximum.
TypeOK ==
    /\ game \in [Games -> MainStates] /\ worker \in [Calls -> WorkerStates]
    /\ semaphore \in SemaphoreStates /\ MutexOK
    /\ loads \in [Games -> Nat] /\ \A p \in Games : loads[p] <= MaxLoads[p]
    /\ crashes \in 0..MaxCrashes /\ kept \subseteq Games

-------------------------------------------------------------------------------
(* Safety *)

\* Whatever the order of ModLoad calls and workers, every worker that runs has
\* a reference to the DLL, so that the DLL outlives the game's own.
Workers(p) == {c \in CallsOf(p) : ~Is(c, "none")}

DllStaysLoaded == \A p \in Games : game[p].dllRefs >= Cardinality(Workers(p))

\* The threads between InitAbstractions and FreeAbstractions.
Inside == {p \in Games : game[p].pc \in {"load", "spawn", "free"}}
              \cup {c \in Calls : Is(c, "work")}

\* Only one thread of all games uses the abstractions and the globals, also
\* after a game has ended with the mutex, and what it uses is not freed.
OneThreadInside ==
    /\ Cardinality(Inside) <= 1
    /\ \A p \in Games \cap Inside : game[p].g_Abstraction = "live"
    /\ \A c \in Calls \cap Inside : game[gameOf(c)].g_Abstraction = "live"

\* While a worker is at work, the mod it reads from g_ModName stays the same.
NameStaysForWorker ==
    [][\A c \in Calls : Is(c, "work") /\ Is(c, "work")'
          => UNCHANGED game[gameOf(c)].g_ModName]_vars

\* When no ModLoad is under way the semaphore can be had, whatever has ended
\* or has been closed twice before.
SemaphoreRecovers == (\A p \in Games : At(p, "out")) => semaphore.count = 1

-------------------------------------------------------------------------------
(* The inductive invariant of the proofs *)

OwnCall(p, c) == c \in Calls /\ gameOf(c) = p

\* A main thread inside ModLoad has a call of its own game.
CallInv ==
    \A p \in Games :
        /\ IF At(p, "out") THEN game[p].call = Nobody ELSE OwnCall(p, game[p].call)
        /\ game[p].g_hFzLoaderSemaphore # Nobody
              => OwnCall(p, game[p].g_hFzLoaderSemaphore)

\* Handles are those of the calls that have been made.
numberOf(h) == h[2]
Used(h) == h # Nobody => numberOf(h) <= loads[gameOf(h)]

UsedInv ==
    /\ \A p \in Games : Used(game[p].call) /\ Used(game[p].g_hFzLoaderSemaphore)
    /\ \A c \in Calls : Used(worker[c].close)

\* The semaphore's handles belong to the calls under way.
HandleInv ==
    /\ \A h \in semaphore.handles : game[gameOf(h)].call = h
    /\ semaphore.handles = {} => semaphore.count = 1

\* A call that asks for the semaphore has a handle that no worker has pushed.
AskingInv ==
    \A p \in Games : At(p, "semaphore") =>
        /\ ThisCall(p) \in semaphore.handles
        /\ game[p].g_hFzLoaderSemaphore # ThisCall(p)
        /\ \A c \in Calls : worker[c].close # ThisCall(p)

\* Who is inside, or about to leave, owns the mutex and has a handle to it; a
\* worker has had its handle since before it waited.
HolderInv ==
    /\ \A p \in Games : game[p].pc \in {"load", "spawn", "free", "release"} =>
          mutex.owner = p /\ HandleOf(p, ThisCall(p)) \in mutex.handles
    /\ \A c \in Calls :
          /\ Is(c, "work") => mutex.owner = c
          /\ Is(c, "wait") \/ Is(c, "work") => HandleOf(c, c) \in mutex.handles

\* Who owns the mutex is about to release it or to end, except a main thread that
\* was given an abandoned mutex and keeps it (Kernel.cpp:204).
OwnerInv ==
    /\ \A p \in Games : mutex.owner = p =>
          game[p].pc \in {"load", "spawn", "free", "release"} \/ p \in kept
    /\ \A c \in Calls : mutex.owner = c =>
          worker[c].pc \notin {"none", "start", "wait"}

\* A main thread owns the mutex twice only if it kept it.
KeptInv == \A p \in Games : mutex.owner = p /\ mutex.depth > 1 => p \in kept

\* What those inside use is not freed.
LiveInv ==
    /\ \A p \in Games : game[p].pc \in {"load", "spawn", "free"} =>
          game[p].g_Abstraction = "live"
    /\ \A c \in Calls : Is(c, "work") => game[gameOf(c)].g_Abstraction = "live"

\* The reference that LoadLibrary has given is there for the worker that is
\* about to be spawned; without a worker, no reference is left to be freed.
DllInv ==
    \A p \in Games :
        /\ At(p, "spawn") => game[p].dllRefs > Cardinality(Workers(p))
        /\ game[p].pc \in {"mutex", "load", "free", "release", "end"}
              /\ ~game[p].result => ~game[p].g_hDll

IInv ==
    /\ TypeOK /\ CallInv /\ UsedInv /\ HandleInv /\ AskingInv
    /\ HolderInv /\ KeptInv /\ LiveInv /\ OwnerInv /\ DllStaysLoaded /\ DllInv

===============================================================================
