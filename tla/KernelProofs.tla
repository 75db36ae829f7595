----------------------------- MODULE KernelProofs -----------------------------
(***************************************************************************)
(* Proofs about ModLoad and the worker threads of all games of a session:  *)
(* one thread at a time is inside, the semaphore comes back, and no worker *)
(* outlives the DLL whose code it runs.                                    *)
(***************************************************************************)
EXTENDS KernelProperties, FiniteSetTheorems, TLAPS

-------------------------------------------------------------------------------
(* Calls *)

\* A call is a game and the number of the call.
LEMMA CallIsPair ==
    /\ \A c \in Calls : c[1] \in Games /\ c[2] \in Nat /\ c[2]
           <= MaxLoads[c[1]]
    /\ \A p \in Games, n \in Nat : <<p, n>> \in Calls => n <= MaxLoads[p]
    BY KernelAssumption DEF Calls

\* The next call of a game has the next number.
LEMMA NextCallIsNew ==
    ASSUME loads \in [Games -> Nat], NEW p \in Games, NextCall(p) \in Calls
    PROVE  /\ gameOf(NextCall(p)) = p /\ numberOf(NextCall(p)) = loads[p] + 1
           /\ loads[p] + 1 <= MaxLoads[p]
<1>1. loads[p] + 1 \in Nat
    OBVIOUS
<1> QED
    BY <1>1, CallIsPair, SMT DEF NextCall, gameOf, numberOf

LEMMA NumberOfCall == \A c \in Calls : numberOf(c) \in Nat
    BY CallIsPair, Zenon DEF numberOf

\* A call belongs to a game.
LEMMA GameOfCall == \A c \in Calls : gameOf(c) \in Games
    BY CallIsPair DEF gameOf

\* A main thread inside ModLoad is in a call.
LEMMA CallOfThis ==
    CallInv => \A p \in Games : ~At(p, "out") => ThisCall(p) \in Calls
    BY SMT DEF CallInv, ThisCall, OwnCall

\* No thread is a main thread and a worker.
LEMMA ThreadsDiffer ==
    /\ \A c \in Calls : c \notin Games /\ c # Nobody
    /\ \A p \in Games : p # Nobody
    BY KernelAssumption, Zenon DEF Threads

\* A handle tells the thread that has opened it.
LEMMA HandleOwner == \A t, c : HandleOf(t, c)[1] = t
    BY DEF HandleOf

\* The calls of one game are finitely many.
LEMMA CallsFinite == \A p \in Games : IsFiniteSet(CallsOf(p))
<1> TAKE p \in Games
<1>1. IsFiniteSet(1..MaxLoads[p])
    BY KernelAssumption, FS_Interval
<1>2. IsFiniteSet({p})
    BY FS_Singleton
<1>3. IsFiniteSet({p} \X (1..MaxLoads[p]))
    BY <1>1, <1>2, FS_Product
<1>4. CallsOf(p) \subseteq {p} \X (1..MaxLoads[p])
    BY KernelAssumption DEF CallsOf, gameOf, Calls
<1> QED
    BY <1>3, <1>4, FS_Subset

LEMMA WorkersFinite == \A p \in Games : IsFiniteSet(Workers(p))
    BY CallsFinite, FS_Subset DEF Workers

\* One element more, one element less.
LEMMA OneMore ==
    ASSUME NEW S, NEW x, IsFiniteSet(S)
    PROVE  /\ Cardinality(S \cup {x}) \in Nat
           /\ Cardinality(S \cup {x}) <= Cardinality(S) + 1
<1>1. Cardinality(S) \in Nat
    BY FS_CardinalityType
<1>2. Cardinality(S \cup {x}) = IF x \in S THEN Cardinality(S)
          ELSE Cardinality(S) + 1
    BY FS_AddElement
<1> QED
    BY <1>1, <1>2, SMT

LEMMA OneLess ==
    ASSUME NEW S, NEW x \in S, IsFiniteSet(S)
    PROVE  Cardinality(S \ {x}) = Cardinality(S) - 1
<1>1. Cardinality(S \ {x}) = IF x \in S THEN Cardinality(S) - 1
          ELSE Cardinality(S)
    BY FS_RemoveElement
<1> QED
    BY <1>1, Zenon

\* The game of a running worker has a reference to the DLL.
LEMMA WorkerCounted ==
    IInv => \A c \in Calls : ~Is(c, "none") => game[gameOf(c)].dllRefs >= 1
<1> SUFFICES ASSUME IInv, NEW c \in Calls, ~Is(c, "none")
             PROVE  game[gameOf(c)].dllRefs >= 1
    OBVIOUS
<1>1. gameOf(c) \in Games
    BY GameOfCall
<1>2. IsFiniteSet(Workers(gameOf(c)))
    BY <1>1, WorkersFinite
<1>3. c \in Workers(gameOf(c))
    BY DEF Workers, CallsOf, gameOf
<1>4. Cardinality(Workers(gameOf(c)))
          \in Nat /\ Cardinality(Workers(gameOf(c))) # 0
    BY <1>2, <1>3, FS_CardinalityType, FS_EmptySet
<1>5. game[gameOf(c)].dllRefs >= Cardinality(Workers(gameOf(c)))
    BY <1>1 DEF IInv, DllStaysLoaded
<1>6. game[gameOf(c)].dllRefs \in Nat
    BY <1>1 DEF IInv, TypeOK, MainStates
<1> QED
    BY <1>4, <1>5, <1>6
-------------------------------------------------------------------------------
(* The operations on the named objects, one lemma each *)

LEMMA SemaphoreOpened ==
    ASSUME NEW s \in SemaphoreStates, NEW h \in Calls
    PROVE  /\ Opened(s, h) \in SemaphoreStates
           /\ Opened(s, h).count = s.count
           /\ \A k : k \in Opened(s, h).handles <=> k \in s.handles \/ k = h
    BY SMT DEF SemaphoreStates, Opened

\* Closing the last handle makes the semaphore new.
LEMMA SemaphoreClosed ==
    ASSUME NEW s \in SemaphoreStates, NEW hs
    PROVE  /\ ClosedAll(s, hs) \in SemaphoreStates
           /\ \A h : h \in ClosedAll(s, hs).handles
                  <=> h \in s.handles /\ h \notin hs
           /\ ClosedAll(s, hs).handles = {} => ClosedAll(s, hs).count = 1
    BY SMT DEF SemaphoreStates, ClosedAll, Kept, NewSemaphore

LEMMA SemaphoreClosedOnce ==
    ASSUME NEW s \in SemaphoreStates, NEW h
    PROVE  /\ Closed(s, h) \in SemaphoreStates
           /\ \A k : k \in Closed(s, h).handles <=> k \in s.handles /\ k # h
           /\ Closed(s, h).handles = {} => Closed(s, h).count = 1
    BY SMT DEF SemaphoreStates, Closed, ClosedAll, Kept, NewSemaphore

LEMMA SemaphoreSignalled ==
    ASSUME NEW s \in SemaphoreStates, NEW h
    PROVE  /\ Signalled(s, h) \in SemaphoreStates
           /\ Signalled(s, h).handles = s.handles
           /\ Signalled(s, h).count \in {s.count, 1}
    BY SMT DEF SemaphoreStates, Signalled

LEMMA MutexOpened ==
    ASSUME NEW m \in MutexStates, NEW h \in Threads \X Calls
    PROVE  /\ Opened(m, h) \in MutexStates
           /\ Opened(m, h).owner = m.owner /\ Opened(m, h).depth = m.depth
           /\ Opened(m, h).handles = m.handles \cup {h}
<1>1. Opened(m, h) \in MutexStates
    BY Zenon DEF MutexStates, Opened
<1> QED
    BY <1>1, SMT DEF MutexStates, Opened

LEMMA MutexTakenBy ==
    ASSUME NEW m \in MutexStates, NEW t \in Threads
    PROVE  /\ TakenBy(m, t) \in MutexStates
           /\ TakenBy(m, t).owner = t /\ TakenBy(m, t).depth = m.depth + 1
           /\ TakenBy(m, t).handles = m.handles
<1>1. m.depth + 1 \in Nat
    BY SMT DEF MutexStates
<1>2. TakenBy(m, t) \in MutexStates
    BY <1>1, Zenon DEF MutexStates, TakenBy
<1> QED
    BY <1>2, SMT DEF MutexStates, TakenBy

LEMMA MutexReleased ==
    ASSUME NEW m \in MutexStates, m.depth > 0
    PROVE  /\ Released(m) \in MutexStates
           /\ Released(m).owner = IF m.depth = 1 THEN Nobody ELSE m.owner
           /\ Released(m).depth = m.depth - 1
           /\ Released(m).handles = m.handles
<1>1. m.depth - 1 \in Nat
    BY SMT DEF MutexStates
<1>2. Released(m) \in MutexStates
    BY <1>1, Zenon DEF MutexStates, Released
<1> QED
    BY <1>2, SMT DEF MutexStates, Released

\* The mutex goes with its last handle.
LEMMA MutexKept ==
    ASSUME NEW m \in MutexStates
    PROVE  /\ Kept(m, NewMutex) \in MutexStates
           /\ Kept(m, NewMutex).handles = m.handles
           /\ m.handles = {} =>
                 Kept(m, NewMutex).owner = Nobody /\ Kept(m, NewMutex).depth =
                     0
           /\ m.handles # {} =>
                 /\ Kept(m, NewMutex).owner = m.owner
                 /\ Kept(m, NewMutex).depth = m.depth
<1>1. NewMutex \in MutexStates
    BY Zenon, 0 \in Nat DEF MutexStates, NewMutex
<1>2. NewMutex.owner = Nobody /\ NewMutex.depth = 0 /\ NewMutex.handles = {}
    BY DEF NewMutex
<1> QED
    BY <1>1, <1>2, Zenon DEF Kept

LEMMA MutexWithout ==
    ASSUME NEW m \in MutexStates, NEW hs
    PROVE  /\ Without(m, hs) \in MutexStates
           /\ Without(m, hs).handles = m.handles \ hs
           /\ m.handles \ hs = {} =>
                 Without(m, hs).owner = Nobody /\ Without(m, hs).depth = 0
           /\ m.handles \ hs # {} =>
                 Without(m, hs).owner = m.owner /\ Without(m, hs).depth =
                     m.depth
<1> DEFINE n == [m EXCEPT !.handles = @ \ hs]
<1>1. n \in MutexStates
    BY Zenon DEF MutexStates
<1>2. n.handles = m.handles \ hs /\ n.owner = m.owner /\ n.depth = m.depth
    BY SMT DEF MutexStates
<1>3. Without(m, hs) = Kept(n, NewMutex)
    BY DEF Without
<1> HIDE DEF n
<1> QED
    BY <1>1, <1>2, <1>3, MutexKept, Zenon

LEMMA MutexLeftBy ==
    ASSUME NEW m \in MutexStates, NEW ts
    PROVE  /\ LeftBy(m, ts) \in MutexStates
           /\ LeftBy(m, ts).handles = m.handles
           /\ m.owner \in ts
                  => LeftBy(m, ts).owner = Nobody /\ LeftBy(m, ts).depth = 0
           /\ m.owner \notin ts => LeftBy(m, ts) = m
<1>1. LeftBy(m, ts) \in MutexStates
    BY 0 \in Nat, Zenon DEF MutexStates, LeftBy
<1> QED
    BY <1>1, SMT DEF MutexStates, LeftBy

-------------------------------------------------------------------------------
(* The invariant in three parts, and when a step leaves each as it is *)

MutexPart == MutexOK /\ HolderInv /\ KeptInv /\ LiveInv /\ OwnerInv
CallPart  == semaphore \in SemaphoreStates
                /\ CallInv /\ UsedInv /\ HandleInv /\ AskingInv
DllPart   == DllStaysLoaded /\ DllInv

OnlyGame(p)   == \A q \in Games : q # p => game'[q] = game[q]
OnlyWorker(c) == \A d \in Calls : d # c => worker'[d] = worker[d]

\* No thread comes to its part of the mutex, or leaves it.
GamesKeepMutex ==
    \A q \in Games :
        /\ game[q].pc \in {"load", "spawn", "free", "release"}
              <=> game'[q].pc \in {"load", "spawn", "free", "release"}
        /\ game'[q].pc = "release" <=> game[q].pc = "release"
        /\ game'[q].pc \in {"load", "spawn", "free", "release"} =>
              game'[q].call = game[q].call
        /\ game'[q].g_Abstraction = game[q].g_Abstraction
WorkersKeepMutex ==
    \A d \in Calls :
        /\ worker'[d].pc = "work" <=> worker[d].pc = "work"
        /\ worker'[d].pc = "wait" => worker[d].pc = "wait"
        /\ worker'[d].pc \in {"none", "start", "wait"} =>
              worker[d].pc \in {"none", "start", "wait"}

LEMMA MutexPartKept ==
    ASSUME MutexPart, GamesKeepMutex, WorkersKeepMutex,
           mutex' = mutex, kept' = kept
    PROVE  MutexPart'
<1>1. MutexOK' /\ KeptInv'
    BY SMT DEF MutexPart, MutexOK, KeptInv
<1>2. HolderInv'
    BY SMTT(30) DEF MutexPart, HolderInv, GamesKeepMutex, WorkersKeepMutex, ThisCall, Is
<1>3. LiveInv'
    BY GameOfCall, SMTT(30)
       DEF MutexPart, LiveInv, GamesKeepMutex, WorkersKeepMutex, Is
<1>4. OwnerInv'
    BY SMTT(30) DEF MutexPart, OwnerInv, GamesKeepMutex, WorkersKeepMutex
<1> QED
    BY <1>1, <1>2, <1>3, <1>4 DEF MutexPart

\* No call begins or ends; a worker can only take over its game's handle.
GamesKeepCalls ==
    \A q \in Games :
        /\ game'[q].call = game[q].call
        /\ game'[q].g_hFzLoaderSemaphore
               \in {game[q].g_hFzLoaderSemaphore, Nobody}
        /\ game'[q].pc = "out" <=> game[q].pc = "out"
        /\ game'[q].pc = "semaphore" => game[q].pc = "semaphore"
WorkersKeepCalls ==
    \A d \in Calls : worker'[d].close \in
        {worker[d].close, Nobody, game[gameOf(d)].g_hFzLoaderSemaphore}

LEMMA CallPartKept ==
    ASSUME CallPart, GamesKeepCalls, WorkersKeepCalls,
           semaphore' = semaphore, loads' = loads
    PROVE  CallPart'
<1>1. CallInv'
    BY SMTT(30) DEF CallPart, CallInv, GamesKeepCalls, OwnCall, At
<1>2. UsedInv'
    BY GameOfCall, SMTT(30)
       DEF CallPart, UsedInv, Used, GamesKeepCalls, WorkersKeepCalls
<1>3. HandleInv'
    BY GameOfCall, SMTT(30) DEF CallPart, HandleInv, GamesKeepCalls, SemaphoreStates
<1>4. AskingInv'
    BY GameOfCall, ThreadsDiffer, SMTT(30)
       DEF CallPart, CallInv, AskingInv, GamesKeepCalls, WorkersKeepCalls,
           OwnCall, ThisCall, At
<1> QED
    BY <1>1, <1>2, <1>3, <1>4 DEF CallPart

\* No reference is taken or given back, and no worker starts or ends.
GamesKeepDll ==
    \A q \in Games :
        /\ game'[q].dllRefs = game[q].dllRefs
        /\ game'[q].pc = "spawn" => game[q].pc = "spawn"
        /\ game'[q].pc \in {"mutex", "load", "free", "release", "end"}
              /\ ~game'[q].result /\ game'[q].g_hDll
           => /\ game[q].pc \in {"mutex", "load", "free", "release", "end"}
              /\ ~game[q].result /\ game[q].g_hDll
WorkersKeepDll ==
    \A d \in Calls : worker'[d].pc = "none" <=> worker[d].pc = "none"

LEMMA DllPartKept ==
    ASSUME DllPart, GamesKeepDll, WorkersKeepDll
    PROVE  DllPart'
<1>1. \A q \in Games : Workers(q)' = Workers(q)
    BY SMT DEF WorkersKeepDll, Workers, CallsOf, Is
<1>2. DllStaysLoaded'
    BY <1>1, SMT DEF DllPart, DllStaysLoaded, GamesKeepDll
<1>3. DllInv'
    BY <1>1, SMT DEF DllPart, DllInv, GamesKeepDll, At
<1> QED
    BY <1>2, <1>3 DEF DllPart

-------------------------------------------------------------------------------
(* Types *)

\* Every step keeps the types of the games.
LEMMA GameTypes == IInv /\ [Next]_vars => game' \in [Games -> MainStates]
<1> SUFFICES ASSUME IInv, [Next]_vars PROVE game' \in [Games -> MainStates]
    OBVIOUS
<1>0. game \in [Games -> MainStates] /\ worker \in [Calls -> WorkerStates]
    BY DEF IInv, TypeOK
<1>1. ASSUME NEW p \in Games, ModLoad(p) PROVE game' \in [Games -> MainStates]
    <2>1. game' = [game EXCEPT ![p] = [@ EXCEPT !.pc = "semaphore",
              !.call = NextCall(p)]]
        BY <1>1, Zenon DEF ModLoad
    <2>2. game[p] \in MainStates
        BY <1>0, Zenon
    <2>3. NextCall(p) \in Handles
        BY <1>1, Zenon DEF ModLoad, Handles
    <2>4. [game[p] EXCEPT !.pc = "semaphore",
              !.call = NextCall(p)] \in MainStates
        BY <2>2, <2>3, ZenonT(30) DEF MainStates, MainLabels
    <2> QED
        BY <2>1, <2>4, <1>0, Zenon
<1>2. ASSUME NEW p \in Games, SemaphoreBusy(p)
      PROVE  game' \in [Games -> MainStates]
    <2>1. game' = [game EXCEPT ![p] = Return(@)]
        BY <1>2, Zenon DEF SemaphoreBusy, Return
    <2>2. game[p] \in MainStates
        BY <1>0, Zenon
    <2>3. Return(game[p]) \in MainStates
        BY <2>2, ZenonT(30) DEF MainStates, MainLabels, Return, Handles
    <2> QED
        BY <2>1, <2>3, <1>0, Zenon
<1>3. ASSUME NEW p \in Games, TakeSemaphore(p)
      PROVE  game' \in [Games -> MainStates]
    <2>1. game' = [game EXCEPT ![p] = [@ EXCEPT !.pc = "clear",
              !.g_hFzLoaderSemaphore = ThisCall(p)]]
        BY <1>3, Zenon DEF TakeSemaphore
    <2>2. game[p] \in MainStates
        BY <1>0, Zenon
    <2>3. ThisCall(p) \in Handles
        BY <2>2, Zenon DEF MainStates, ThisCall
    <2>4. [game[p] EXCEPT !.pc = "clear",
              !.g_hFzLoaderSemaphore = ThisCall(p)] \in MainStates
        BY <2>2, <2>3, ZenonT(30) DEF MainStates, MainLabels
    <2> QED
        BY <2>1, <2>4, <1>0, Zenon
<1>4. ASSUME NEW p \in Games, ClearDll(p) PROVE game' \in [Games -> MainStates]
    <2>1. game' = [game EXCEPT ![p] = [@ EXCEPT !.pc = "mutex",
              !.g_hDll = FALSE]]
        BY <1>4, Zenon DEF ClearDll
    <2>2. game[p] \in MainStates
        BY <1>0, Zenon
    <2>3. [game[p] EXCEPT !.pc = "mutex", !.g_hDll = FALSE] \in MainStates
        BY <2>2, ZenonT(30) DEF MainStates, MainLabels
    <2> QED
        BY <2>1, <2>3, <1>0, Zenon
<1>5. ASSUME NEW p \in Games, MutexRefused(p)
      PROVE  game' \in [Games -> MainStates]
    <2>1. game' = [game EXCEPT ![p] = [@ EXCEPT !.pc = "end"]]
        BY <1>5, Zenon DEF MutexRefused, GoTo
    <2>2. game[p] \in MainStates
        BY <1>0, Zenon
    <2>3. [game[p] EXCEPT !.pc = "end"] \in MainStates
        BY <2>2, ZenonT(30) DEF MainStates, MainLabels
    <2> QED
        BY <2>1, <2>3, <1>0, Zenon
<1>6. ASSUME NEW p \in Games, MutexTaken(p)
      PROVE  game' \in [Games -> MainStates]
    <2>1. \/ game' = [game EXCEPT ![p] = [@ EXCEPT !.pc = "release"]]
          \/ game' = [game EXCEPT ![p] = [@ EXCEPT !.pc = "free",
                 !.g_Abstraction = "live"]]
          \/ game' = [game EXCEPT ![p] = [@ EXCEPT !.pc = "load",
                 !.g_Abstraction = "live", !.g_ModName = ThisCall(p)]]
        BY <1>6, Zenon DEF MutexTaken, GoTo
    <2>2. game[p] \in MainStates
        BY <1>0, Zenon
    <2>3. ThisCall(p) \in Handles
        BY <2>2, Zenon DEF MainStates, ThisCall
    <2>4. /\ [game[p] EXCEPT !.pc = "release"] \in MainStates
          /\ [game[p] EXCEPT !.pc = "free",
                 !.g_Abstraction = "live"] \in MainStates
          /\ [game[p] EXCEPT !.pc = "load", !.g_Abstraction = "live",
                 !.g_ModName = ThisCall(p)] \in MainStates
        BY <2>2, <2>3, ZenonT(30) DEF MainStates, MainLabels
    <2> QED
        BY <2>1, <2>4, <1>0, Zenon
<1>7. ASSUME NEW p \in Games, LoadDll(p) PROVE game' \in [Games -> MainStates]
    <2>1. \/ game' = [game EXCEPT ![p] = [@ EXCEPT !.pc = "spawn",
                 !.g_hDll = TRUE, !.dllRefs = game[p].dllRefs + 1]]
          \/ game' = [game EXCEPT ![p] = [@ EXCEPT !.pc = "free",
                 !.g_hDll = FALSE]]
        BY <1>7, Zenon DEF LoadDll
    <2>2. game[p] \in MainStates
        BY <1>0, Zenon
    <2>3. game[p].dllRefs + 1 \in Nat
        BY <2>2, SMT DEF MainStates
    <2>4. /\ [game[p] EXCEPT !.pc = "spawn", !.g_hDll = TRUE,
                 !.dllRefs = game[p].dllRefs + 1] \in MainStates
          /\ [game[p] EXCEPT !.pc = "free", !.g_hDll = FALSE] \in MainStates
        BY <2>2, <2>3, ZenonT(30) DEF MainStates, MainLabels
    <2> QED
        BY <2>1, <2>4, <1>0, Zenon
<1>8. ASSUME NEW p \in Games, Spawn(p) PROVE game' \in [Games -> MainStates]
    <2>1. game' = [game EXCEPT ![p] = [@ EXCEPT !.pc = "free",
              !.result = TRUE]]
        BY <1>8, Zenon DEF Spawn
    <2>2. game[p] \in MainStates
        BY <1>0, Zenon
    <2>3. [game[p] EXCEPT !.pc = "free", !.result = TRUE] \in MainStates
        BY <2>2, ZenonT(30) DEF MainStates, MainLabels
    <2> QED
        BY <2>1, <2>3, <1>0, Zenon
<1>9. ASSUME NEW p \in Games, LetMutexGo(p)
      PROVE  game' \in [Games -> MainStates]
    <2>1. game' = [game EXCEPT ![p] = [@ EXCEPT !.pc = "end",
              !.g_Abstraction = IF At(p, "free") THEN "freed"
                  ELSE game[p].g_Abstraction]]
        BY <1>9, Zenon DEF LetMutexGo
    <2>2. game[p] \in MainStates
        BY <1>0, Zenon
    <2>3. game[p].g_Abstraction \in {"none", "live", "freed"}
        BY <2>2, Zenon DEF MainStates
    <2>4. [game[p] EXCEPT !.pc = "end",
              !.g_Abstraction = IF At(p, "free") THEN "freed"
                  ELSE game[p].g_Abstraction] \in MainStates
        BY <2>2, <2>3, ZenonT(30) DEF MainStates, MainLabels
    <2> QED
        BY <2>1, <2>4, <1>0, Zenon
<1>10. ASSUME NEW p \in Games, End(p) PROVE game' \in [Games -> MainStates]
    <2> DEFINE frees == ~game[p].result /\ game[p].g_hDll
               back  == Return(game[p])
    <2>1. game' = [game EXCEPT ![p] =
                     [back EXCEPT !.g_hFzLoaderSemaphore = Nobody,
                                  !.g_hDll = back.g_hDll /\ ~frees,
                                  !.dllRefs = IF frees THEN back.dllRefs - 1
                                              ELSE back.dllRefs]]
        BY <1>10 DEF End
    <2>2. game[p] \in MainStates
        BY <1>0, Zenon
    <2>3. back \in MainStates
        BY <2>2, ZenonT(30) DEF Return, MainStates, MainLabels, Handles
    <2>4. ~frees
        BY <1>10, SMT DEF IInv, DllInv, End, At
    <2>5. (IF frees THEN back.dllRefs - 1 ELSE back.dllRefs) \in Nat
        BY <2>3, <2>4, SMT DEF MainStates
    <2> HIDE DEF frees, back
    <2>6. [back EXCEPT !.g_hFzLoaderSemaphore = Nobody,
                       !.g_hDll = back.g_hDll /\ ~frees,
                       !.dllRefs = IF frees THEN back.dllRefs - 1
                                   ELSE back.dllRefs] \in MainStates
        BY <2>3, <2>5, ZenonT(30) DEF MainStates, MainLabels, Handles
    <2> QED
        BY <2>1, <2>6, <1>0, Zenon
<1>11. ASSUME NEW p \in Games, ProcessEnds(p)
       PROVE  game' \in [Games -> MainStates]
    <2>1. game' = [game EXCEPT ![p] = NewGame]
        BY <1>11, Zenon DEF ProcessEnds
    <2>2. NewGame \in MainStates
        BY SMT DEF NewGame, MainStates, MainLabels, Handles
    <2> QED
        BY <2>1, <2>2, <1>0, Zenon
<1>12. ASSUME NEW p \in Games, Crash(p) PROVE game' \in [Games -> MainStates]
    BY <1>12, <1>11 DEF Crash
<1>13. ASSUME NEW c \in Calls, AwaitMutex(c)
       PROVE  game' \in [Games -> MainStates]
    <2>1. game' = game \/ game' = [game EXCEPT ![gameOf(c)] =
              [@ EXCEPT !.g_Abstraction = "live"]]
        BY <1>13, Zenon DEF AwaitMutex, Go, Returns
    <2>2. game[gameOf(c)] \in MainStates
        BY <1>0, GameOfCall, Zenon
    <2>3. [game[gameOf(c)] EXCEPT !.g_Abstraction = "live"] \in MainStates
        BY <2>2, ZenonT(30) DEF MainStates, MainLabels
    <2> QED
        BY <2>1, <2>3, <1>0, GameOfCall, Zenon
<1>14. ASSUME NEW c \in Calls, DoWork(c) PROVE game' \in [Games -> MainStates]
    <2>1. game' = [game EXCEPT ![gameOf(c)] =
              [@ EXCEPT !.g_Abstraction = "freed"]]
        BY <1>14, Zenon DEF DoWork
    <2>2. game[gameOf(c)] \in MainStates
        BY <1>0, GameOfCall, Zenon
    <2>3. [game[gameOf(c)] EXCEPT !.g_Abstraction = "freed"] \in MainStates
        BY <2>2, ZenonT(30) DEF MainStates, MainLabels
    <2> QED
        BY <2>1, <2>3, <1>0, Zenon
<1>15. ASSUME NEW c \in Calls, ZeroDll(c) PROVE game' \in [Games -> MainStates]
    <2>1. game' = [game EXCEPT ![gameOf(c)] = [@ EXCEPT !.g_hDll = FALSE]]
        BY <1>15, Zenon DEF ZeroDll, Go
    <2>2. game[gameOf(c)] \in MainStates
        BY <1>0, GameOfCall, Zenon
    <2>3. [game[gameOf(c)] EXCEPT !.g_hDll = FALSE] \in MainStates
        BY <2>2, ZenonT(30) DEF MainStates, MainLabels
    <2> QED
        BY <2>1, <2>3, <1>0, Zenon
<1>16. ASSUME NEW c \in Calls, ZeroSemaphore(c)
       PROVE  game' \in [Games -> MainStates]
    <2>1. game' = [game EXCEPT ![gameOf(c)] =
              [@ EXCEPT !.g_hFzLoaderSemaphore = Nobody]]
        BY <1>16, Zenon DEF ZeroSemaphore, Go
    <2>2. game[gameOf(c)] \in MainStates
        BY <1>0, GameOfCall, Zenon
    <2>3. [game[gameOf(c)] EXCEPT !.g_hFzLoaderSemaphore = Nobody]
              \in MainStates
        BY <2>2, ZenonT(30) DEF MainStates, MainLabels, Handles
    <2> QED
        BY <2>1, <2>3, <1>0, Zenon
<1>17. ASSUME NEW c \in Calls, ExitThread(c)
       PROVE  game' \in [Games -> MainStates]
    <2>1. game' = [game EXCEPT ![gameOf(c)] = [@ EXCEPT !.dllRefs =
              IF worker[c].dll THEN game[gameOf(c)].dllRefs - 1
                  ELSE game[gameOf(c)].dllRefs]]
        BY <1>17, Zenon DEF ExitThread, NoWorker
    <2>2. game[gameOf(c)] \in MainStates
        BY <1>0, GameOfCall, Zenon
    <2>3. (IF worker[c].dll THEN game[gameOf(c)].dllRefs - 1
              ELSE game[gameOf(c)].dllRefs) \in Nat
        BY <1>17, <2>2, WorkerCounted, SMT DEF MainStates, ExitThread, Is
    <2>4. [game[gameOf(c)] EXCEPT !.dllRefs = IF worker[c].dll
              THEN game[gameOf(c)].dllRefs - 1 ELSE game[gameOf(c)].dllRefs]
                  \in MainStates
        BY <2>2, <2>3, ZenonT(30) DEF MainStates, MainLabels
    <2> QED
        BY <2>1, <2>4, <1>0, Zenon
<1>18. ASSUME NEW c \in Calls, Terminate(c)
       PROVE  game' \in [Games -> MainStates]
    BY <1>18, <1>11, GameOfCall DEF Terminate
<1>19. ASSUME NEW c \in Calls, OpenMutex(c) \/ MutexAbandoned(c) \/ PushDll(c)
    \/ PushSemaphore(c) \/ SignalSemaphore(c) \/ CloseSemaphore(c)
       PROVE  game' \in [Games -> MainStates]
    BY <1>19, <1>0, Zenon
       DEF OpenMutex, MutexAbandoned, PushDll, PushSemaphore, SignalSemaphore,
           CloseSemaphore
<1>20. CASE UNCHANGED vars
    BY <1>20, <1>0, Zenon DEF vars
<1> QED
    BY <1>1, <1>2, <1>3, <1>4, <1>5, <1>6, <1>7, <1>8, <1>9, <1>10, <1>11,
       <1>12, <1>13, <1>14, <1>15, <1>16, <1>17, <1>18, <1>19, <1>20, Zenon
       DEF Next, Main, Worker

\* Every step keeps the types of the workers.
LEMMA WorkerTypes == IInv /\ [Next]_vars => worker' \in [Calls -> WorkerStates]
<1> SUFFICES ASSUME IInv, [Next]_vars PROVE worker' \in [Calls -> WorkerStates]
    OBVIOUS
<1>0. game \in [Games -> MainStates] /\ worker \in [Calls -> WorkerStates]
    BY DEF IInv, TypeOK
<1>1. ASSUME NEW p \in Games, Spawn(p)
      PROVE  worker' \in [Calls -> WorkerStates]
    <2>1. worker' = [worker EXCEPT ![ThisCall(p)] = [@ EXCEPT !.pc = "start"]]
        BY <1>1, Zenon DEF Spawn
    <2>2. worker[ThisCall(p)] \in WorkerStates
        BY <1>0, <1>1, Zenon DEF IInv, CallInv, OwnCall, Spawn, At, ThisCall
    <2>3. [worker[ThisCall(p)] EXCEPT !.pc = "start"] \in WorkerStates
        BY <2>2, ZenonT(30) DEF WorkerStates, WorkerLabels
    <2> QED
        BY <2>1, <2>3, <1>0, Zenon
<1>2. ASSUME NEW p \in Games, ProcessEnds(p)
      PROVE  worker' \in [Calls -> WorkerStates]
    <2>1. worker' = [d \in Calls |-> IF gameOf(d) = p THEN NoWorker
              ELSE worker[d]]
        BY <1>2, Zenon DEF ProcessEnds
    <2>2. NoWorker \in WorkerStates
        BY SMT DEF NoWorker, WorkerStates, WorkerLabels, Handles
    <2> QED
        BY <2>1, <2>2, <1>0, Zenon
<1>3. ASSUME NEW p \in Games, Crash(p)
      PROVE  worker' \in [Calls -> WorkerStates]
    BY <1>3, <1>2 DEF Crash
<1>4. ASSUME NEW c \in Calls, OpenMutex(c)
      PROVE  worker' \in [Calls -> WorkerStates]
    <2>1. \/ worker' = [worker EXCEPT ![c] = [@ EXCEPT !.pc = "wait"]]
          \/ worker' = [worker EXCEPT ![c] = [@ EXCEPT !.pc = "push_dll",
                 !.result = FALSE]]
        BY <1>4, Zenon DEF OpenMutex, Go, Returns
    <2>2. worker[c] \in WorkerStates
        BY <1>0, Zenon
    <2>3. /\ [worker[c] EXCEPT !.pc = "wait"] \in WorkerStates
          /\ [worker[c] EXCEPT !.pc = "push_dll",
                 !.result = FALSE] \in WorkerStates
        BY <2>2, ZenonT(30) DEF WorkerStates, WorkerLabels
    <2> QED
        BY <2>1, <2>3, <1>0, Zenon
<1>5. ASSUME NEW c \in Calls, AwaitMutex(c)
      PROVE  worker' \in [Calls -> WorkerStates]
    <2>1. \/ worker' = [worker EXCEPT ![c] = [@ EXCEPT !.pc = "work"]]
          \/ worker' = [worker EXCEPT ![c] = [@ EXCEPT !.pc = "push_dll",
                 !.result = FALSE]]
        BY <1>5, Zenon DEF AwaitMutex, Go, Returns
    <2>2. worker[c] \in WorkerStates
        BY <1>0, Zenon
    <2>3. /\ [worker[c] EXCEPT !.pc = "work"] \in WorkerStates
          /\ [worker[c] EXCEPT !.pc = "push_dll",
                 !.result = FALSE] \in WorkerStates
        BY <2>2, ZenonT(30) DEF WorkerStates, WorkerLabels
    <2> QED
        BY <2>1, <2>3, <1>0, Zenon
<1>6. ASSUME NEW c \in Calls, MutexAbandoned(c)
      PROVE  worker' \in [Calls -> WorkerStates]
    <2>1. worker' = [worker EXCEPT ![c] = [@ EXCEPT !.pc = "push_dll",
              !.result = FALSE]]
        BY <1>6, Zenon DEF MutexAbandoned, Returns
    <2>2. worker[c] \in WorkerStates
        BY <1>0, Zenon
    <2>3. [worker[c] EXCEPT !.pc = "push_dll",
              !.result = FALSE] \in WorkerStates
        BY <2>2, ZenonT(30) DEF WorkerStates, WorkerLabels
    <2> QED
        BY <2>1, <2>3, <1>0, Zenon
<1>7. ASSUME NEW c \in Calls, DoWork(c)
      PROVE  worker' \in [Calls -> WorkerStates]
    <2>1. worker' = [worker EXCEPT ![c] = [@ EXCEPT !.pc = "push_dll",
              !.result = TRUE]]
        BY <1>7, Zenon DEF DoWork
    <2>2. worker[c] \in WorkerStates
        BY <1>0, Zenon
    <2>3. [worker[c] EXCEPT !.pc = "push_dll",
              !.result = TRUE] \in WorkerStates
        BY <2>2, ZenonT(30) DEF WorkerStates, WorkerLabels
    <2> QED
        BY <2>1, <2>3, <1>0, Zenon
<1>8. ASSUME NEW c \in Calls, PushDll(c)
      PROVE  worker' \in [Calls -> WorkerStates]
    <2>1. worker' = [worker EXCEPT ![c] = [@ EXCEPT !.pc = "zero_dll",
              !.dll = game[gameOf(c)].g_hDll]]
        BY <1>8, Zenon DEF PushDll
    <2>2. worker[c] \in WorkerStates
        BY <1>0, Zenon
    <2>3. game[gameOf(c)].g_hDll \in BOOLEAN
        BY <1>0, GameOfCall, Zenon DEF MainStates
    <2>4. [worker[c] EXCEPT !.pc = "zero_dll",
              !.dll = game[gameOf(c)].g_hDll] \in WorkerStates
        BY <2>2, <2>3, ZenonT(30) DEF WorkerStates, WorkerLabels
    <2> QED
        BY <2>1, <2>4, <1>0, Zenon
<1>9. ASSUME NEW c \in Calls, ZeroDll(c)
      PROVE  worker' \in [Calls -> WorkerStates]
    <2>1. worker' = [worker EXCEPT ![c] = [@ EXCEPT !.pc = "push_close"]]
        BY <1>9, Zenon DEF ZeroDll, Go
    <2>2. worker[c] \in WorkerStates
        BY <1>0, Zenon
    <2>3. [worker[c] EXCEPT !.pc = "push_close"] \in WorkerStates
        BY <2>2, ZenonT(30) DEF WorkerStates, WorkerLabels
    <2> QED
        BY <2>1, <2>3, <1>0, Zenon
<1>10. ASSUME NEW c \in Calls, PushSemaphore(c)
       PROVE  worker' \in [Calls -> WorkerStates]
    <2>1. \/ worker' = [worker EXCEPT ![c] = [@ EXCEPT !.pc = "push_release",
                 !.close = game[gameOf(c)].g_hFzLoaderSemaphore]]
          \/ worker' = [worker EXCEPT ![c] = [@ EXCEPT !.pc = "zero_semaphore",
                 !.release = game[gameOf(c)].g_hFzLoaderSemaphore]]
        BY <1>10, Zenon DEF PushSemaphore
    <2>2. worker[c] \in WorkerStates
        BY <1>0, Zenon
    <2>3. game[gameOf(c)].g_hFzLoaderSemaphore \in Handles
        BY <1>0, GameOfCall, Zenon DEF MainStates
    <2>4. /\ [worker[c] EXCEPT !.pc = "push_release",
                 !.close = game[gameOf(c)].g_hFzLoaderSemaphore]
                     \in WorkerStates
          /\ [worker[c] EXCEPT !.pc = "zero_semaphore",
                 !.release = game[gameOf(c)].g_hFzLoaderSemaphore]
                     \in WorkerStates
        BY <2>2, <2>3, ZenonT(30) DEF WorkerStates, WorkerLabels
    <2> QED
        BY <2>1, <2>4, <1>0, Zenon
<1>11. ASSUME NEW c \in Calls, ZeroSemaphore(c)
       PROVE  worker' \in [Calls -> WorkerStates]
    <2>1. worker' = [worker EXCEPT ![c] = [@ EXCEPT !.pc = "signal"]]
        BY <1>11, Zenon DEF ZeroSemaphore, Go
    <2>2. worker[c] \in WorkerStates
        BY <1>0, Zenon
    <2>3. [worker[c] EXCEPT !.pc = "signal"] \in WorkerStates
        BY <2>2, ZenonT(30) DEF WorkerStates, WorkerLabels
    <2> QED
        BY <2>1, <2>3, <1>0, Zenon
<1>12. ASSUME NEW c \in Calls, SignalSemaphore(c)
       PROVE  worker' \in [Calls -> WorkerStates]
    <2>1. worker' = [worker EXCEPT ![c] = [@ EXCEPT !.pc = "close",
              !.release = Nobody]]
        BY <1>12, Zenon DEF SignalSemaphore
    <2>2. worker[c] \in WorkerStates
        BY <1>0, Zenon
    <2>3. [worker[c] EXCEPT !.pc = "close",
              !.release = Nobody] \in WorkerStates
        BY <2>2, ZenonT(30) DEF WorkerStates, WorkerLabels, Handles
    <2> QED
        BY <2>1, <2>3, <1>0, Zenon
<1>13. ASSUME NEW c \in Calls, CloseSemaphore(c)
       PROVE  worker' \in [Calls -> WorkerStates]
    <2>1. worker' = [worker EXCEPT ![c] = [@ EXCEPT !.pc = "exit",
              !.close = Nobody]]
        BY <1>13, Zenon DEF CloseSemaphore
    <2>2. worker[c] \in WorkerStates
        BY <1>0, Zenon
    <2>3. [worker[c] EXCEPT !.pc = "exit", !.close = Nobody] \in WorkerStates
        BY <2>2, ZenonT(30) DEF WorkerStates, WorkerLabels, Handles
    <2> QED
        BY <2>1, <2>3, <1>0, Zenon
<1>14. ASSUME NEW c \in Calls, ExitThread(c)
       PROVE  worker' \in [Calls -> WorkerStates]
    <2>1. worker' = [worker EXCEPT ![c] = NoWorker]
        BY <1>14, Zenon DEF ExitThread, NoWorker
    <2>2. worker[c] \in WorkerStates
        BY <1>0, Zenon
    <2>3. NoWorker \in WorkerStates
        BY <2>2, ZenonT(30) DEF WorkerStates, WorkerLabels, NoWorker, Handles
    <2> QED
        BY <2>1, <2>3, <1>0, Zenon
<1>15. ASSUME NEW c \in Calls, Terminate(c)
       PROVE  worker' \in [Calls -> WorkerStates]
    BY <1>15, <1>2, GameOfCall DEF Terminate
<1>16. ASSUME NEW p \in Games, ModLoad(p) \/ SemaphoreBusy(p) \/
    TakeSemaphore(p) \/ ClearDll(p) \/ MutexRefused(p) \/ MutexTaken(p) \/
    LoadDll(p) \/ LetMutexGo(p) \/ End(p)
       PROVE  worker' \in [Calls -> WorkerStates]
    BY <1>16, <1>0, Zenon
       DEF ModLoad, SemaphoreBusy, TakeSemaphore, ClearDll, MutexRefused,
           MutexTaken, LoadDll, LetMutexGo, End
<1>17. CASE UNCHANGED vars
    BY <1>17, <1>0, Zenon DEF vars
<1> QED
    BY <1>1, <1>2, <1>3, <1>4, <1>5, <1>6, <1>7, <1>8, <1>9, <1>10, <1>11,
       <1>12, <1>13, <1>14, <1>15, <1>16, <1>17, Zenon
       DEF Next, Main, Worker

\* Every step keeps the mutex with the thread that is inside.
LEMMA HolderNext == IInv /\ [Next]_vars => MutexPart'
<1> SUFFICES ASSUME IInv, [Next]_vars PROVE MutexPart'
    OBVIOUS
<1>0. /\ game \in [Games -> MainStates] /\ worker \in [Calls -> WorkerStates]
      /\ MutexPart /\ CallInv
    BY DEF IInv, TypeOK, MutexPart
<1>b. /\ MutexOK /\ HolderInv /\ KeptInv /\ LiveInv /\ OwnerInv
      /\ CallInv
    BY <1>0 DEF MutexPart
<1>1. ASSUME NEW p \in Games, ModLoad(p) PROVE MutexPart'
    <2>1. GamesKeepMutex
        BY <1>1, <1>0, SMTT(30)
           DEF GamesKeepMutex, ModLoad, MainStates, ThisCall, At
    <2>2. WorkersKeepMutex
        BY <1>1, <1>0, SMTT(30) DEF WorkersKeepMutex, ModLoad
    <2>3. mutex' = mutex /\ kept' = kept
        BY <1>1, Zenon DEF ModLoad
    <2> QED
        BY <1>0, <2>1, <2>2, <2>3, MutexPartKept
<1>2. ASSUME NEW p \in Games, SemaphoreBusy(p) PROVE MutexPart'
    <2>1. GamesKeepMutex
        BY <1>2, <1>0, SMTT(30)
           DEF GamesKeepMutex, SemaphoreBusy, Return, MainStates, ThisCall, At
    <2>2. WorkersKeepMutex
        BY <1>2, <1>0, SMTT(30) DEF WorkersKeepMutex, SemaphoreBusy
    <2>3. mutex' = mutex /\ kept' = kept
        BY <1>2, Zenon DEF SemaphoreBusy
    <2> QED
        BY <1>0, <2>1, <2>2, <2>3, MutexPartKept
<1>3. ASSUME NEW p \in Games, TakeSemaphore(p) PROVE MutexPart'
    <2>1. GamesKeepMutex
        BY <1>3, <1>0, SMTT(30)
           DEF GamesKeepMutex, TakeSemaphore, MainStates, ThisCall, At
    <2>2. WorkersKeepMutex
        BY <1>3, <1>0, SMTT(30) DEF WorkersKeepMutex, TakeSemaphore
    <2>3. mutex' = mutex /\ kept' = kept
        BY <1>3, Zenon DEF TakeSemaphore
    <2> QED
        BY <1>0, <2>1, <2>2, <2>3, MutexPartKept
<1>4. ASSUME NEW p \in Games, ClearDll(p) PROVE MutexPart'
    <2>1. GamesKeepMutex
        BY <1>4, <1>0, SMTT(30)
           DEF GamesKeepMutex, ClearDll, MainStates, ThisCall, At
    <2>2. WorkersKeepMutex
        BY <1>4, <1>0, SMTT(30) DEF WorkersKeepMutex, ClearDll
    <2>3. mutex' = mutex /\ kept' = kept
        BY <1>4, Zenon DEF ClearDll
    <2> QED
        BY <1>0, <2>1, <2>2, <2>3, MutexPartKept
<1>5. ASSUME NEW p \in Games, MutexRefused(p) PROVE MutexPart'
    <2>1. /\ game[p].pc = "mutex"
          /\ \A q \in Games : q # p => game'[q] = game[q]
          /\ game'[p].pc = "end"
          /\ game'[p].call = game[p].call
          /\ game'[p].g_Abstraction = game[p].g_Abstraction
        BY <1>5, <1>0, GameOfCall, SMTT(30)
           DEF MutexRefused, GoTo, MainStates, ThisCall, At
    <2>2. worker' = worker
        BY <1>5, Zenon DEF MutexRefused
    <2>3. ThisCall(p) \in Calls
        BY <2>1, <1>b, CallOfThis, SMT DEF At
    <2>4. HandleOf(p, ThisCall(p)) \in Threads \X Calls
        BY <2>3, SMT DEF Threads, HandleOf
    <2>5. p \in Threads
        BY Zenon DEF Threads
    <2>6. /\ Opened(mutex, HandleOf(p, ThisCall(p))) \in MutexStates
          /\ Opened(mutex, HandleOf(p, ThisCall(p))).owner = mutex.owner
          /\ Opened(mutex, HandleOf(p, ThisCall(p))).depth = mutex.depth
          /\ mutex.handles \subseteq Opened(mutex, HandleOf(p, ThisCall(p))).handles
        BY <1>b, <2>4, MutexOpened, SMT DEF MutexOK
    <2>7. \/ mutex' = mutex /\ kept' = kept
          \/ mutex' = Opened(mutex, HandleOf(p, ThisCall(p))) /\ kept' = kept
          \/ /\ mutex.owner = Nobody /\ kept' = kept \cup {p}
             /\ mutex' = TakenBy(Opened(mutex, HandleOf(p, ThisCall(p))), p)
        BY <1>5, Zenon DEF MutexRefused, Abandoned
    <2>8. /\ mutex' \in MutexStates
          /\ \/ mutex'.owner = mutex.owner /\ mutex'.depth =
                    mutex.depth /\ kept' = kept
             \/ /\ mutex.owner = Nobody /\ mutex'.owner = p
                /\ mutex'.depth = mutex.depth + 1 /\ kept' = kept \cup {p}
          /\ mutex.handles \subseteq mutex'.handles
        BY <1>b, <2>5, <2>6, <2>7, MutexTakenBy, SMT DEF MutexOK
    <2>9. MutexOK'
        BY <2>8, <1>b, ThreadsDiffer, SMT DEF MutexOK, MutexStates
    <2>10. HolderInv'
        BY <2>1, <2>2, <2>8, <1>b, GameOfCall, ThreadsDiffer, SMTT(30)
           DEF HolderInv, ThisCall, Is
    <2>11. KeptInv'
        BY <2>1, <2>2, <2>8, <1>b, GameOfCall, ThreadsDiffer, SMTT(30)
           DEF KeptInv, MutexOK, MutexStates
    <2>12. LiveInv'
        BY <2>1, <2>2, <2>8, <1>b, GameOfCall, ThreadsDiffer, SMTT(30)
           DEF LiveInv, HolderInv, Is, ThisCall
    <2>13. OwnerInv'
        BY <2>1, <2>2, <2>8, <1>b, GameOfCall, ThreadsDiffer, SMTT(30)
           DEF HolderInv, KeptInv, OwnerInv, MutexOK, MutexStates,
               ThisCall, Is
    <2> QED
        BY <2>9, <2>10, <2>11, <2>12, <2>13 DEF MutexPart
<1>6. ASSUME NEW p \in Games, MutexTaken(p) PROVE MutexPart'
    <2>1. /\ game[p].pc = "mutex"
          /\ \A q \in Games : q # p => game'[q] = game[q]
          /\ \/ game'[p].pc = "release"
             \/ game'[p].pc
                    \in {"free", "load"} /\ game'[p].g_Abstraction = "live"
          /\ game'[p].call = game[p].call
        BY <1>6, <1>0, GameOfCall, SMTT(30)
           DEF MutexTaken, GoTo, MainStates, ThisCall, At
    <2>2. worker' = worker
        BY <1>6, Zenon DEF MutexTaken
    <2>3. ThisCall(p) \in Calls
        BY <2>1, <1>b, CallOfThis, SMT DEF At
    <2>4. HandleOf(p, ThisCall(p)) \in Threads \X Calls
        BY <2>3, SMT DEF Threads, HandleOf
    <2>5. p \in Threads
        BY Zenon DEF Threads
    <2>6. mutex.owner \in {Nobody, p} /\ kept' = kept
             /\ mutex' = TakenBy(Opened(mutex, HandleOf(p, ThisCall(p))), p)
        BY <1>6, Zenon DEF MutexTaken, CanTake
    <2>7. /\ Opened(mutex, HandleOf(p, ThisCall(p))) \in MutexStates
          /\ Opened(mutex, HandleOf(p, ThisCall(p))).depth = mutex.depth
          /\ Opened(mutex, HandleOf(p, ThisCall(p))).handles =
                 mutex.handles \cup {HandleOf(p, ThisCall(p))}
        BY <1>b, <2>4, MutexOpened, Zenon DEF MutexOK
    <2>8. /\ mutex' \in MutexStates /\ mutex'.owner = p
          /\ mutex'.depth = mutex.depth + 1
          /\ mutex'.handles = mutex.handles \cup {HandleOf(p, ThisCall(p))}
        BY <2>5, <2>6, <2>7, MutexTakenBy, Zenon
    <2>9. mutex.depth \in Nat /\ (mutex.owner = p => p \in kept)
          /\ (mutex.owner # p => mutex.depth = 0)
        BY <1>b, <2>1, <2>6, SMT DEF MutexOK, MutexStates, OwnerInv
    <2>10. /\ mutex.owner \in {Nobody, p} /\ kept' = kept
          /\ mutex' \in MutexStates /\ mutex'.owner = p
          /\ mutex'.depth > 0 /\ (mutex'.depth > 1 => p \in kept)
          /\ mutex'.handles = mutex.handles \cup {HandleOf(p, ThisCall(p))}
        BY <2>6, <2>8, <2>9, SMT
    <2>11. MutexOK'
        BY <2>10, <1>b, ThreadsDiffer, SMT DEF MutexOK, MutexStates
    <2>12. HolderInv'
        BY <2>1, <2>2, <2>10, <1>b, GameOfCall, ThreadsDiffer, SMTT(30)
           DEF HolderInv, ThisCall, Is
    <2>13. KeptInv'
        BY <2>1, <2>2, <2>10, <1>b, GameOfCall, ThreadsDiffer, SMTT(30)
           DEF KeptInv, MutexOK, MutexStates
    <2>14. LiveInv'
        BY <2>1, <2>2, <2>10, <1>b, GameOfCall, ThreadsDiffer, SMTT(30)
           DEF LiveInv, HolderInv, Is, ThisCall
    <2>15. OwnerInv'
        BY <2>1, <2>2, <2>10, <1>b, GameOfCall, ThreadsDiffer, SMTT(30)
           DEF HolderInv, KeptInv, OwnerInv, MutexOK, MutexStates,
               ThisCall, Is
    <2> QED
        BY <2>11, <2>12, <2>13, <2>14, <2>15 DEF MutexPart
<1>7. ASSUME NEW p \in Games, LoadDll(p) PROVE MutexPart'
    <2>1. GamesKeepMutex
        BY <1>7, <1>0, SMTT(30)
           DEF GamesKeepMutex, LoadDll, MainStates, ThisCall, At
    <2>2. WorkersKeepMutex
        BY <1>7, <1>0, SMTT(30) DEF WorkersKeepMutex, LoadDll
    <2>3. mutex' = mutex /\ kept' = kept
        BY <1>7, Zenon DEF LoadDll
    <2> QED
        BY <1>0, <2>1, <2>2, <2>3, MutexPartKept
<1>8. ASSUME NEW p \in Games, Spawn(p) PROVE MutexPart'
    <2>1. /\ game[p].pc = "spawn"
          /\ \A q \in Games : q # p => game'[q] = game[q]
          /\ game'[p].pc = "free"
          /\ game'[p].call = game[p].call
          /\ game'[p].g_Abstraction = game[p].g_Abstraction
        BY <1>8, <1>0, GameOfCall, SMTT(30) DEF Spawn, MainStates, ThisCall, At
    <2>2. /\ \A d \in Calls : d # game[p].call => worker'[d] = worker[d]
          /\ game[p].call \in Calls => worker'[game[p].call].pc = "start"
        BY <1>8, <1>0, SMTT(30) DEF Spawn, WorkerStates, ThisCall, Is
    <2>3. mutex' = mutex /\ kept' = kept
        BY <1>8, Zenon DEF Spawn
    <2>4. MutexOK'
        BY <2>3, <1>b, ThreadsDiffer, SMT DEF MutexOK, MutexStates
    <2>5. HolderInv'
        BY <2>1, <2>2, <2>3, <1>b, GameOfCall, ThreadsDiffer, SMTT(30)
           DEF HolderInv, ThisCall, Is
    <2>6. KeptInv'
        BY <2>1, <2>2, <2>3, <1>b, GameOfCall, ThreadsDiffer, SMTT(30)
           DEF KeptInv, MutexOK, MutexStates
    <2>7. LiveInv'
        BY <2>1, <2>2, <2>3, <1>b, GameOfCall, ThreadsDiffer, SMTT(30)
           DEF LiveInv, HolderInv, Is, ThisCall
    <2>8. OwnerInv'
        BY <2>1, <2>2, <2>3, <1>b, GameOfCall, ThreadsDiffer, SMTT(30)
           DEF HolderInv, KeptInv, OwnerInv, MutexOK, MutexStates,
               ThisCall, Is
    <2> QED
        BY <2>4, <2>5, <2>6, <2>7, <2>8 DEF MutexPart
<1>9. ASSUME NEW p \in Games, LetMutexGo(p) PROVE MutexPart'
    <2>1. /\ game[p].pc \in {"free", "release"}
          /\ \A q \in Games : q # p => game'[q] = game[q]
          /\ game'[p].pc = "end"
          /\ game'[p].call = game[p].call
        BY <1>9, <1>0, GameOfCall, SMTT(30)
           DEF LetMutexGo, MainStates, ThisCall, At
    <2>2. worker' = worker
        BY <1>9, Zenon DEF LetMutexGo
    <2>3. kept' = kept /\ mutex' =
              Without(Released(mutex), {HandleOf(p, ThisCall(p))})
        BY <1>9, Zenon DEF LetMutexGo
    <2>4. mutex.owner = p
        BY <1>b, <2>1, SMT DEF HolderInv
    <2>5. mutex.depth \in Nat /\ mutex.depth > 0
        BY <1>b, ThreadsDiffer, <2>4, SMT DEF MutexOK, MutexStates
    <2>6. /\ mutex.owner = p /\ kept' = kept
          /\ mutex' \in MutexStates
          /\ mutex'.handles = mutex.handles \ {HandleOf(p, ThisCall(p))}
          /\ \/ mutex'.owner = Nobody /\ mutex'.depth = 0
             \/ mutex'.owner = p /\ mutex.depth > 1 /\ mutex'.depth =
                    mutex.depth - 1
        BY <1>b, <2>3, <2>4, <2>5, MutexReleased, MutexWithout, SMT DEF MutexOK
    <2>7. MutexOK'
        BY <2>6, <1>b, ThreadsDiffer, SMT DEF MutexOK, MutexStates
    <2>8. HolderInv'
        BY <2>1, <2>2, <2>6, <1>b, GameOfCall, ThreadsDiffer, HandleOwner,
           SMTT(30)
           DEF HolderInv, ThisCall, Is
    <2>9. KeptInv'
        BY <2>1, <2>2, <2>6, <1>b, GameOfCall, ThreadsDiffer, SMTT(30)
           DEF KeptInv, MutexOK, MutexStates
    <2>10. LiveInv'
        BY <2>1, <2>2, <2>6, <1>b, GameOfCall, ThreadsDiffer, SMTT(30)
           DEF LiveInv, HolderInv, Is, ThisCall
    <2>11. OwnerInv'
        BY <2>1, <2>2, <2>6, <1>b, GameOfCall, ThreadsDiffer, SMTT(30)
           DEF HolderInv, KeptInv, OwnerInv, MutexOK, MutexStates,
               ThisCall, Is
    <2> QED
        BY <2>7, <2>8, <2>9, <2>10, <2>11 DEF MutexPart
<1>10. ASSUME NEW p \in Games, End(p) PROVE MutexPart'
    <2>1. GamesKeepMutex
        BY <1>10, <1>0, SMTT(30)
           DEF GamesKeepMutex, End, Return, MainStates, ThisCall, At
    <2>2. WorkersKeepMutex
        BY <1>10, <1>0, SMTT(30) DEF WorkersKeepMutex, End
    <2>3. mutex' = mutex /\ kept' = kept
        BY <1>10, Zenon DEF End
    <2> QED
        BY <1>0, <2>1, <2>2, <2>3, MutexPartKept
<1>11. ASSUME NEW p \in Games, ProcessEnds(p) PROVE MutexPart'
    <2>1. /\ \A q \in Games : q # p => game'[q] = game[q]
          /\ game'[p].pc = "out"
        BY <1>11, <1>0, GameOfCall, SMTT(30)
           DEF ProcessEnds, LeftBy, Without, Kept, NewMutex, NewSemaphore,
               NewGame, NoWorker, MainStates, ThisCall, At
    <2>2. /\ \A d \in Calls : gameOf(d) = p => worker'[d].pc = "none"
          /\ \A d \in Calls : gameOf(d) # p => worker'[d] = worker[d]
        BY <1>11, <1>0, SMTT(30)
           DEF ProcessEnds, LeftBy, Without, Kept, NewMutex, NewSemaphore,
               NewGame, NoWorker, WorkerStates, ThisCall, Is
    <2>3. LET mine == {p} \cup CallsOf(p)
          IN  /\ kept' = kept \ {p}
              /\ mutex' = Without(LeftBy(mutex, mine), {h
                     \in mutex.handles : h[1] \in mine})
        BY <1>11, Zenon DEF ProcessEnds
    <2>4. /\ kept' = kept \ {p} /\ mutex' \in MutexStates
          /\ mutex'.handles = {h
                 \in mutex.handles : h[1] \notin {p} \cup CallsOf(p)}
          /\ \/ mutex'.owner = Nobody /\ mutex'.depth = 0
                /\ (mutex.owner \in {p} \cup CallsOf(p) \/ mutex'.handles = {})
             \/ /\ mutex.owner \notin {p} \cup CallsOf(p)
                /\ mutex'.owner = mutex.owner /\ mutex'.depth = mutex.depth
        BY <1>b, <2>3, MutexLeftBy, MutexWithout, SMT DEF MutexOK
    <2>5. /\ \A q \in Games : q # p => q \notin {p} \cup CallsOf(p)
          /\ \A d \in Calls : d \in {p} \cup CallsOf(p) <=> gameOf(d) = p
        BY ThreadsDiffer, GameOfCall, Zenon DEF CallsOf, gameOf
    <2>6. MutexOK'
        BY <2>5, <2>4, <1>b, ThreadsDiffer, SMT DEF MutexOK, MutexStates
    <2>7. HolderInv'
        BY <2>1, <2>2, <2>5, <2>4, <1>b, GameOfCall, ThreadsDiffer,
           HandleOwner, SMTT(30)
           DEF HolderInv, ThisCall, Is
    <2>8. KeptInv'
        BY <2>1, <2>2, <2>5, <2>4, <1>b, GameOfCall, ThreadsDiffer, SMTT(30)
           DEF KeptInv, MutexOK, MutexStates
    <2>9. LiveInv'
        BY <2>1, <2>2, <2>5, <2>4, <1>b, GameOfCall, ThreadsDiffer, SMTT(30)
           DEF LiveInv, HolderInv, Is, ThisCall
    <2>10. OwnerInv'
        BY <2>1, <2>2, <2>5, <2>4, <1>b, GameOfCall, ThreadsDiffer, SMTT(30)
           DEF HolderInv, KeptInv, OwnerInv, MutexOK, MutexStates,
               ThisCall, Is
    <2> QED
        BY <2>6, <2>7, <2>8, <2>9, <2>10 DEF MutexPart
<1>12. ASSUME NEW p \in Games, Crash(p) PROVE MutexPart'
    BY <1>12, <1>11 DEF Crash
<1>13. ASSUME NEW c \in Calls, OpenMutex(c) PROVE MutexPart'
    <2>1. game' = game
        BY <1>13, Zenon DEF OpenMutex
    <2>2. /\ worker[c].pc = "start"
          /\ \A d \in Calls : d # c => worker'[d] = worker[d]
          /\ worker'[c].pc \in {"wait", "push_dll"}
        BY <1>13, <1>0, SMTT(30)
           DEF OpenMutex, Go, Returns, WorkerStates, ThisCall, Is
    <2>3. HandleOf(c, c) \in Threads \X Calls
        BY SMT DEF Threads, HandleOf
    <2>4. /\ kept' = kept
          /\ \/ mutex' = Opened(mutex, HandleOf(c, c))
             \/ mutex' = mutex /\ worker'[c].pc = "push_dll"
        BY <1>13, <1>0, SMT DEF OpenMutex, Returns, WorkerStates
    <2>5. /\ kept' = kept /\ mutex' \in MutexStates
          /\ mutex'.owner = mutex.owner /\ mutex'.depth = mutex.depth
          /\ mutex.handles \subseteq mutex'.handles
          /\ worker'[c].pc = "wait" => HandleOf(c, c) \in mutex'.handles
        BY <1>b, <2>3, <2>4, MutexOpened, SMT DEF MutexOK
    <2>6. MutexOK'
        BY <2>5, <1>b, ThreadsDiffer, SMT DEF MutexOK, MutexStates
    <2>7. HolderInv'
        BY <2>1, <2>2, <2>5, <1>b, GameOfCall, ThreadsDiffer, SMTT(30)
           DEF HolderInv, ThisCall, Is
    <2>8. KeptInv'
        BY <2>1, <2>2, <2>5, <1>b, GameOfCall, ThreadsDiffer, SMTT(30)
           DEF KeptInv, MutexOK, MutexStates
    <2>9. LiveInv'
        BY <2>1, <2>2, <2>5, <1>b, GameOfCall, ThreadsDiffer, SMTT(30)
           DEF LiveInv, HolderInv, Is, ThisCall
    <2>10. OwnerInv'
        BY <2>1, <2>2, <2>5, <1>b, GameOfCall, ThreadsDiffer, SMTT(30)
           DEF HolderInv, KeptInv, OwnerInv, MutexOK, MutexStates,
               ThisCall, Is
    <2> QED
        BY <2>6, <2>7, <2>8, <2>9, <2>10 DEF MutexPart
<1>14. ASSUME NEW c \in Calls, AwaitMutex(c) PROVE MutexPart'
    <2>1. /\ \A q \in Games : q # gameOf(c) => game'[q] = game[q]
          /\ game'[gameOf(c)].pc = game[gameOf(c)].pc
          /\ game'[gameOf(c)].call = game[gameOf(c)].call
          /\ worker'[c].pc = "work" => game'[gameOf(c)].g_Abstraction = "live"
          /\ worker'[c].pc # "work" => game' = game
        BY <1>14, <1>0, GameOfCall, SMTT(30)
           DEF AwaitMutex, Go, Returns, MainStates, ThisCall, At, WorkerStates,
               Is
    <2>2. /\ worker[c].pc = "wait"
          /\ \A d \in Calls : d # c => worker'[d] = worker[d]
          /\ worker'[c].pc \in {"work", "push_dll"}
        BY <1>14, <1>0, SMTT(30)
           DEF AwaitMutex, Go, Returns, WorkerStates, ThisCall, Is
    <2>3. mutex.owner \in {Nobody, c} /\ kept' = kept
        BY <1>14, Zenon DEF AwaitMutex, CanTake
    <2>4. mutex.owner = Nobody
        BY <2>3, <2>2, <1>b, SMT DEF OwnerInv
    <2>5. \/ worker'[c].pc = "work" /\ mutex' = TakenBy(mutex, c)
          \/ worker'[c].pc = "push_dll" /\ mutex' =
                 Without(mutex, {HandleOf(c, c)})
        BY <1>14, <1>0, SMT DEF AwaitMutex, WorkerStates, Go, Returns
    <2>6. /\ TakenBy(mutex, c)
                 \in MutexStates /\ TakenBy(mutex, c).owner =
                     c /\ TakenBy(mutex, c).depth = mutex.depth + 1
          /\ TakenBy(mutex, c).handles = mutex.handles
        BY <1>b, MutexTakenBy, Zenon DEF MutexOK, Threads
    <2>7. /\ mutex.owner = Nobody /\ kept' = kept /\ mutex' \in MutexStates
          /\ \A d \in Calls : d # c /\ HandleOf(d, d) \in mutex.handles
                 => HandleOf(d, d) \in mutex'.handles
          /\ \/ /\ worker'[c].pc = "work" /\ mutex'.owner = c /\ mutex'.depth =
                       mutex.depth + 1
                /\ mutex'.handles = mutex.handles
             \/ worker'[c].pc = "push_dll" /\ mutex'.owner =
                    Nobody /\ mutex'.depth = 0
        BY <1>b, <2>3, <2>4, <2>5, <2>6, MutexWithout, HandleOwner, SMT
           DEF MutexOK
    <2>8. MutexOK'
        BY <2>7, <1>b, ThreadsDiffer, SMT DEF MutexOK, MutexStates
    <2>9. HolderInv'
        BY <2>1, <2>2, <2>7, <1>b, GameOfCall, ThreadsDiffer, HandleOwner,
           SMTT(30)
           DEF HolderInv, ThisCall, Is
    <2>10. KeptInv'
        BY <2>1, <2>2, <2>7, <1>b, GameOfCall, ThreadsDiffer, SMTT(30)
           DEF KeptInv, MutexOK, MutexStates
    <2>11. LiveInv'
        BY <2>1, <2>2, <2>7, <1>b, GameOfCall, ThreadsDiffer, SMTT(30)
           DEF LiveInv, HolderInv, Is, ThisCall
    <2>12. OwnerInv'
        BY <2>1, <2>2, <2>7, <1>b, GameOfCall, ThreadsDiffer, SMTT(30)
           DEF HolderInv, KeptInv, OwnerInv, MutexOK, MutexStates,
               ThisCall, Is
    <2> QED
        BY <2>8, <2>9, <2>10, <2>11, <2>12 DEF MutexPart
<1>15. ASSUME NEW c \in Calls, MutexAbandoned(c) PROVE MutexPart'
    <2>1. game' = game
        BY <1>15, Zenon DEF MutexAbandoned
    <2>2. /\ worker[c].pc = "wait"
          /\ \A d \in Calls : d # c => worker'[d] = worker[d]
          /\ worker'[c].pc = "push_dll"
        BY <1>15, <1>0, SMTT(30)
           DEF MutexAbandoned, Returns, WorkerStates, ThisCall, Is
    <2>3. mutex.owner = Nobody /\ kept' = kept /\ mutex' =
              Without(TakenBy(mutex, c), {HandleOf(c, c)})
        BY <1>15, Zenon DEF MutexAbandoned, Abandoned
    <2>4. c \in Threads
        BY Zenon DEF Threads
    <2>5. /\ mutex.owner = Nobody /\ kept' = kept /\ mutex' \in MutexStates
          /\ mutex'.handles = mutex.handles \ {HandleOf(c, c)}
          /\ \/ mutex'.owner = Nobody /\ mutex'.depth = 0
             \/ mutex'.owner = c /\ mutex'.depth = mutex.depth + 1
        BY <1>b, <2>3, <2>4, MutexTakenBy, MutexWithout, SMT DEF MutexOK
    <2>6. MutexOK'
        BY <2>5, <1>b, ThreadsDiffer, SMT DEF MutexOK, MutexStates
    <2>7. HolderInv'
        BY <2>1, <2>2, <2>5, <1>b, GameOfCall, ThreadsDiffer, HandleOwner,
           SMTT(30)
           DEF HolderInv, ThisCall, Is
    <2>8. KeptInv'
        BY <2>1, <2>2, <2>5, <1>b, GameOfCall, ThreadsDiffer, SMTT(30)
           DEF KeptInv, MutexOK, MutexStates
    <2>9. LiveInv'
        BY <2>1, <2>2, <2>5, <1>b, GameOfCall, ThreadsDiffer, SMTT(30)
           DEF LiveInv, HolderInv, Is, ThisCall
    <2>10. OwnerInv'
        BY <2>1, <2>2, <2>5, <1>b, GameOfCall, ThreadsDiffer, SMTT(30)
           DEF HolderInv, KeptInv, OwnerInv, MutexOK, MutexStates,
               ThisCall, Is
    <2> QED
        BY <2>6, <2>7, <2>8, <2>9, <2>10 DEF MutexPart
<1>16. ASSUME NEW c \in Calls, DoWork(c) PROVE MutexPart'
    <2>1. /\ \A q \in Games : q # gameOf(c) => game'[q] = game[q]
          /\ game'[gameOf(c)].pc = game[gameOf(c)].pc
          /\ game'[gameOf(c)].call = game[gameOf(c)].call
        BY <1>16, <1>0, GameOfCall, SMTT(30)
           DEF DoWork, MainStates, ThisCall, At
    <2>2. /\ worker[c].pc = "work"
          /\ \A d \in Calls : d # c => worker'[d] = worker[d]
          /\ worker'[c].pc = "push_dll"
        BY <1>16, <1>0, SMTT(30) DEF DoWork, WorkerStates, ThisCall, Is
    <2>3. kept' = kept /\ mutex' = Without(Released(mutex), {HandleOf(c, c)})
        BY <1>16, Zenon DEF DoWork
    <2>4. mutex.owner = c
        BY <1>b, <2>2, SMT DEF HolderInv, Is
    <2>5. mutex.depth \in Nat /\ mutex.depth > 0
        BY <1>b, ThreadsDiffer, <2>4, SMT DEF MutexOK, MutexStates
    <2>6. /\ mutex.owner = c /\ kept' = kept /\ mutex' \in MutexStates
          /\ mutex'.handles = mutex.handles \ {HandleOf(c, c)}
          /\ \/ mutex'.owner = Nobody /\ mutex'.depth = 0
             \/ mutex'.owner = c /\ mutex.depth > 1 /\ mutex'.depth =
                    mutex.depth - 1
        BY <1>b, <2>3, <2>4, <2>5, MutexReleased, MutexWithout, SMT DEF MutexOK
    <2>7. MutexOK'
        BY <2>6, <1>b, ThreadsDiffer, SMT DEF MutexOK, MutexStates
    <2>8. HolderInv'
        BY <2>1, <2>2, <2>6, <1>b, GameOfCall, ThreadsDiffer, HandleOwner,
           SMTT(30)
           DEF HolderInv, ThisCall, Is
    <2>9. KeptInv'
        BY <2>1, <2>2, <2>6, <1>b, GameOfCall, ThreadsDiffer, SMTT(30)
           DEF KeptInv, MutexOK, MutexStates
    <2>10. LiveInv'
        BY <2>1, <2>2, <2>6, <1>b, GameOfCall, ThreadsDiffer, SMTT(30)
           DEF LiveInv, HolderInv, Is, ThisCall
    <2>11. OwnerInv'
        BY <2>1, <2>2, <2>6, <1>b, GameOfCall, ThreadsDiffer, SMTT(30)
           DEF HolderInv, KeptInv, OwnerInv, MutexOK, MutexStates,
               ThisCall, Is
    <2> QED
        BY <2>7, <2>8, <2>9, <2>10, <2>11 DEF MutexPart
<1>17. ASSUME NEW c \in Calls, PushDll(c) PROVE MutexPart'
    <2>1. GamesKeepMutex
        BY <1>17, <1>0, GameOfCall, SMTT(30) DEF GamesKeepMutex, PushDll
    <2>2. WorkersKeepMutex
        BY <1>17, <1>0, SMTT(30)
           DEF WorkersKeepMutex, PushDll, WorkerStates, ThisCall, Is, Go,
               Returns
    <2>3. mutex' = mutex /\ kept' = kept
        BY <1>17, Zenon DEF PushDll
    <2> QED
        BY <1>0, <2>1, <2>2, <2>3, MutexPartKept
<1>18. ASSUME NEW c \in Calls, ZeroDll(c) PROVE MutexPart'
    <2>1. GamesKeepMutex
        BY <1>18, <1>0, GameOfCall, SMTT(30)
           DEF GamesKeepMutex, ZeroDll, Go, MainStates, ThisCall, At
    <2>2. WorkersKeepMutex
        BY <1>18, <1>0, SMTT(30)
           DEF WorkersKeepMutex, ZeroDll, Go, WorkerStates, ThisCall, Is,
               Returns
    <2>3. mutex' = mutex /\ kept' = kept
        BY <1>18, Zenon DEF ZeroDll
    <2> QED
        BY <1>0, <2>1, <2>2, <2>3, MutexPartKept
<1>19. ASSUME NEW c \in Calls, PushSemaphore(c) PROVE MutexPart'
    <2>1. GamesKeepMutex
        BY <1>19, <1>0, GameOfCall, SMTT(30) DEF GamesKeepMutex, PushSemaphore
    <2>2. WorkersKeepMutex
        BY <1>19, <1>0, SMTT(30)
           DEF WorkersKeepMutex, PushSemaphore, WorkerStates, ThisCall, Is, Go,
               Returns
    <2>3. mutex' = mutex /\ kept' = kept
        BY <1>19, Zenon DEF PushSemaphore
    <2> QED
        BY <1>0, <2>1, <2>2, <2>3, MutexPartKept
<1>20. ASSUME NEW c \in Calls, ZeroSemaphore(c) PROVE MutexPart'
    <2>1. GamesKeepMutex
        BY <1>20, <1>0, GameOfCall, SMTT(30)
           DEF GamesKeepMutex, ZeroSemaphore, Go, MainStates, ThisCall, At
    <2>2. WorkersKeepMutex
        BY <1>20, <1>0, SMTT(30)
           DEF WorkersKeepMutex, ZeroSemaphore, Go, WorkerStates, ThisCall, Is,
               Returns
    <2>3. mutex' = mutex /\ kept' = kept
        BY <1>20, Zenon DEF ZeroSemaphore
    <2> QED
        BY <1>0, <2>1, <2>2, <2>3, MutexPartKept
<1>21. ASSUME NEW c \in Calls, SignalSemaphore(c) PROVE MutexPart'
    <2>1. GamesKeepMutex
        BY <1>21, <1>0, GameOfCall, SMTT(30)
           DEF GamesKeepMutex, SignalSemaphore
    <2>2. WorkersKeepMutex
        BY <1>21, <1>0, SMTT(30)
           DEF WorkersKeepMutex, SignalSemaphore, WorkerStates, ThisCall, Is,
               Go, Returns
    <2>3. mutex' = mutex /\ kept' = kept
        BY <1>21, Zenon DEF SignalSemaphore
    <2> QED
        BY <1>0, <2>1, <2>2, <2>3, MutexPartKept
<1>22. ASSUME NEW c \in Calls, CloseSemaphore(c) PROVE MutexPart'
    <2>1. GamesKeepMutex
        BY <1>22, <1>0, GameOfCall, SMTT(30) DEF GamesKeepMutex, CloseSemaphore
    <2>2. WorkersKeepMutex
        BY <1>22, <1>0, SMTT(30)
           DEF WorkersKeepMutex, CloseSemaphore, WorkerStates, ThisCall, Is,
               Go, Returns
    <2>3. mutex' = mutex /\ kept' = kept
        BY <1>22, Zenon DEF CloseSemaphore
    <2> QED
        BY <1>0, <2>1, <2>2, <2>3, MutexPartKept
<1>23. ASSUME NEW c \in Calls, ExitThread(c) PROVE MutexPart'
    <2>1. /\ \A q \in Games : q # gameOf(c) => game'[q] = game[q]
          /\ game'[gameOf(c)].pc = game[gameOf(c)].pc
          /\ game'[gameOf(c)].call = game[gameOf(c)].call
          /\ game'[gameOf(c)].g_Abstraction = game[gameOf(c)].g_Abstraction
        BY <1>23, <1>0, GameOfCall, SMTT(30)
           DEF ExitThread, NoWorker, MainStates, ThisCall, At
    <2>2. /\ worker[c].pc = "exit"
          /\ \A d \in Calls : d # c => worker'[d] = worker[d]
          /\ worker'[c].pc = "none"
        BY <1>23, <1>0, SMTT(30)
           DEF ExitThread, NoWorker, WorkerStates, ThisCall, Is
    <2>3. kept' = kept /\ mutex' = Kept(LeftBy(mutex, {c}), NewMutex)
        BY <1>23, Zenon DEF ExitThread
    <2>4. /\ kept' = kept /\ mutex'
                 \in MutexStates /\ mutex'.handles = mutex.handles
          /\ \/ mutex'.owner = Nobody /\ mutex'.depth = 0
                /\ (mutex.owner = c \/ mutex.handles = {})
             \/ mutex.owner # c /\ mutex'.owner = mutex.owner /\ mutex'.depth =
                    mutex.depth
        BY <1>b, <2>3, MutexLeftBy, MutexKept, SMT DEF MutexOK
    <2>5. MutexOK'
        BY <2>4, <1>b, ThreadsDiffer, SMT DEF MutexOK, MutexStates
    <2>6. HolderInv'
        BY <2>1, <2>2, <2>4, <1>b, GameOfCall, ThreadsDiffer, SMTT(30)
           DEF HolderInv, ThisCall, Is
    <2>7. KeptInv'
        BY <2>1, <2>2, <2>4, <1>b, GameOfCall, ThreadsDiffer, SMTT(30)
           DEF KeptInv, MutexOK, MutexStates
    <2>8. LiveInv'
        BY <2>1, <2>2, <2>4, <1>b, GameOfCall, ThreadsDiffer, SMTT(30)
           DEF LiveInv, HolderInv, Is, ThisCall
    <2>9. OwnerInv'
        BY <2>1, <2>2, <2>4, <1>b, GameOfCall, ThreadsDiffer, SMTT(30)
           DEF HolderInv, KeptInv, OwnerInv, MutexOK, MutexStates,
               ThisCall, Is
    <2> QED
        BY <2>5, <2>6, <2>7, <2>8, <2>9 DEF MutexPart
<1>24. ASSUME NEW c \in Calls, Terminate(c) PROVE MutexPart'
    BY <1>24, <1>11, GameOfCall DEF Terminate
<1>25. CASE UNCHANGED vars
    BY <1>25, <1>0, SMT
       DEF vars, MutexPart, MutexOK, HolderInv, KeptInv, LiveInv,
           OwnerInv, At, Is, ThisCall
<1> QED
    BY <1>1, <1>2, <1>3, <1>4, <1>5, <1>6, <1>7, <1>8, <1>9, <1>10, <1>11,
       <1>12, <1>13, <1>14, <1>15, <1>16, <1>17, <1>18, <1>19, <1>20, <1>21,
       <1>22, <1>23, <1>24, <1>25, Zenon
       DEF Next, Main, Worker

\* Every step keeps the semaphore's handles with the calls under way.
LEMMA CallNext == IInv /\ [Next]_vars => CallPart'
<1> SUFFICES ASSUME IInv, [Next]_vars PROVE CallPart'
    OBVIOUS
<1>0. /\ game \in [Games -> MainStates] /\ worker \in [Calls -> WorkerStates]
      /\ semaphore \in SemaphoreStates /\ loads \in [Games -> Nat] /\ CallPart
    BY DEF IInv, TypeOK, CallPart
<1>b. CallInv /\ UsedInv /\ HandleInv /\ AskingInv
    BY <1>0 DEF CallPart
<1>1. ASSUME NEW p \in Games, ModLoad(p) PROVE CallPart'
    <2>1. /\ game[p].pc = "out"
          /\ \A q \in Games : q # p => game'[q] = game[q]
          /\ game'[p].pc = "semaphore"
          /\ game'[p].call = NextCall(p)
          /\ game'[p].g_hFzLoaderSemaphore = game[p].g_hFzLoaderSemaphore
        BY <1>1, <1>0, GameOfCall, SMTT(30)
           DEF ModLoad, MainStates, ThisCall, At
    <2>2. worker' = worker
        BY <1>1, Zenon DEF ModLoad
    <2>3. /\ gameOf(NextCall(p)) = p /\ numberOf(NextCall(p)) = loads[p] + 1
          /\ loads[p] + 1 <= MaxLoads[p] /\ NextCall(p) \in Calls
        BY <1>1, <1>0, NextCallIsNew, Zenon DEF ModLoad
    <2>4. /\ loads' \in [Games -> Nat] /\ loads'[p] = loads[p] + 1
          /\ \A q \in Games : q # p => loads'[q] = loads[q]
        BY <1>1, <1>0, SMT DEF ModLoad
    <2>5. \A x \in Calls : Used(x) => x # NextCall(p)
        BY <2>3, <1>0, NumberOfCall, ThreadsDiffer, SMT DEF Used
    <2>6. /\ \A x \in Calls : Used(x) => x # NextCall(p)
          /\ semaphore' \in SemaphoreStates
          /\ \A h : h \in semaphore'.handles
                 <=> h \in semaphore.handles \/ h = NextCall(p)
        BY <1>1, <2>5, <1>0, SemaphoreOpened, Zenon DEF ModLoad
    <2>7. CallInv'
        BY <2>1, <2>2, <2>3, <2>4, <2>5, <2>6, <1>b, GameOfCall, ThreadsDiffer,
           SMTT(30)
           DEF CallInv, OwnCall, At
    <2>8. UsedInv'
        BY <2>1, <2>2, <2>3, <2>4, <2>5, <2>6, <1>0, <1>b, GameOfCall,
           NumberOfCall, ThreadsDiffer, SMTT(30)
           DEF CallInv, UsedInv, Used, OwnCall, At, MainStates, WorkerStates,
               Handles
    <2>9. HandleInv'
        BY <2>1, <2>2, <2>3, <2>4, <2>5, <2>6, <1>b, GameOfCall, ThreadsDiffer,
           SMTT(30)
           DEF CallInv, HandleInv, OwnCall, At, SemaphoreStates
    <2>10. AskingInv'
        BY <2>1, <2>2, <2>3, <2>4, <2>5, <2>6, <1>b, GameOfCall, ThreadsDiffer,
           SMTT(30)
           DEF CallInv, AskingInv, OwnCall, At, ThisCall, UsedInv
    <2> QED
        BY <2>1, <2>2, <2>3, <2>4, <2>5, <2>6, <2>7, <2>8, <2>9, <2>10, <1>0
           DEF CallPart
<1>2. ASSUME NEW p \in Games, SemaphoreBusy(p) PROVE CallPart'
    <2>1. /\ game[p].pc = "semaphore"
          /\ \A q \in Games : q # p => game'[q] = game[q]
          /\ game'[p].pc = "out"
          /\ game'[p].call = Nobody
          /\ game'[p].g_hFzLoaderSemaphore = game[p].g_hFzLoaderSemaphore
        BY <1>2, <1>0, GameOfCall, SMTT(30)
           DEF SemaphoreBusy, Return, MainStates, ThisCall, At
    <2>2. worker' = worker
        BY <1>2, Zenon DEF SemaphoreBusy
    <2>3. loads' = loads /\ semaphore' = Closed(semaphore, game[p].call)
        BY <1>2, Zenon DEF SemaphoreBusy, ThisCall
    <2>4. /\ loads' = loads
          /\ semaphore' \in SemaphoreStates
          /\ \A h : h \in semaphore'.handles
                 <=> h \in semaphore.handles /\ h # game[p].call
          /\ (semaphore'.handles = {} => semaphore'.count = 1)
        BY <2>3, <1>0, SemaphoreClosedOnce, Zenon
    <2>5. CallInv'
        BY <2>1, <2>2, <2>3, <2>4, <1>b, GameOfCall, ThreadsDiffer, SMTT(30)
           DEF CallInv, OwnCall, At
    <2>6. UsedInv'
        BY <2>1, <2>2, <2>3, <2>4, <1>b, GameOfCall, ThreadsDiffer, Zenon
           DEF UsedInv, Used
    <2>7. HandleInv'
        BY <2>1, <2>2, <2>3, <2>4, <1>b, GameOfCall, ThreadsDiffer, SMTT(30)
           DEF CallInv, HandleInv, OwnCall, At, SemaphoreStates
    <2>8. AskingInv'
        BY <2>1, <2>2, <2>3, <2>4, <1>b, GameOfCall, ThreadsDiffer, SMTT(30)
           DEF CallInv, AskingInv, OwnCall, At, ThisCall
    <2> QED
        BY <2>1, <2>2, <2>3, <2>4, <2>5, <2>6, <2>7, <2>8, <1>0 DEF CallPart
<1>3. ASSUME NEW p \in Games, TakeSemaphore(p) PROVE CallPart'
    <2>1. /\ game[p].pc = "semaphore"
          /\ \A q \in Games : q # p => game'[q] = game[q]
          /\ game'[p].pc = "clear"
          /\ game'[p].call = game[p].call
          /\ game'[p].g_hFzLoaderSemaphore = game[p].call
        BY <1>3, <1>0, GameOfCall, SMTT(30)
           DEF TakeSemaphore, MainStates, ThisCall, At
    <2>2. worker' = worker
        BY <1>3, Zenon DEF TakeSemaphore
    <2>3. /\ loads' = loads
          /\ semaphore' \in SemaphoreStates
          /\ semaphore'.handles = semaphore.handles
        BY <1>3, <1>0, SMT DEF TakeSemaphore, SemaphoreStates
    <2>4. CallInv'
        BY <2>1, <2>2, <2>3, <1>b, GameOfCall, ThreadsDiffer, SMTT(30)
           DEF CallInv, OwnCall, At
    <2>5. UsedInv'
        BY <2>1, <2>2, <2>3, <1>b, GameOfCall, ThreadsDiffer, Zenon
           DEF UsedInv, Used
    <2>6. HandleInv'
        BY <2>1, <2>2, <2>3, <1>b, GameOfCall, ThreadsDiffer, SMTT(30)
           DEF CallInv, HandleInv, OwnCall, At, SemaphoreStates, AskingInv,
               ThisCall
    <2>7. AskingInv'
        BY <2>1, <2>2, <2>3, <1>b, GameOfCall, ThreadsDiffer, SMTT(30)
           DEF CallInv, AskingInv, OwnCall, At, ThisCall
    <2> QED
        BY <2>1, <2>2, <2>3, <2>4, <2>5, <2>6, <2>7, <1>0 DEF CallPart
<1>4. ASSUME NEW p \in Games, ClearDll(p) PROVE CallPart'
    <2>1. GamesKeepCalls
        BY <1>4, <1>0, SMTT(30)
           DEF GamesKeepCalls, ClearDll, MainStates, ThisCall, At
    <2>2. WorkersKeepCalls
        BY <1>4, <1>0, SMTT(30) DEF WorkersKeepCalls, ClearDll
    <2>3. semaphore' = semaphore /\ loads' = loads
        BY <1>4, Zenon DEF ClearDll
    <2> QED
        BY <1>0, <2>1, <2>2, <2>3, CallPartKept
<1>5. ASSUME NEW p \in Games, MutexRefused(p) PROVE CallPart'
    <2>1. GamesKeepCalls
        BY <1>5, <1>0, SMTT(30)
           DEF GamesKeepCalls, MutexRefused, GoTo, MainStates, ThisCall, At
    <2>2. WorkersKeepCalls
        BY <1>5, <1>0, SMTT(30) DEF WorkersKeepCalls, MutexRefused
    <2>3. semaphore' = semaphore /\ loads' = loads
        BY <1>5, Zenon DEF MutexRefused
    <2> QED
        BY <1>0, <2>1, <2>2, <2>3, CallPartKept
<1>6. ASSUME NEW p \in Games, MutexTaken(p) PROVE CallPart'
    <2>1. GamesKeepCalls
        BY <1>6, <1>0, SMTT(30)
           DEF GamesKeepCalls, MutexTaken, GoTo, MainStates, ThisCall, At
    <2>2. WorkersKeepCalls
        BY <1>6, <1>0, SMTT(30) DEF WorkersKeepCalls, MutexTaken
    <2>3. semaphore' = semaphore /\ loads' = loads
        BY <1>6, Zenon DEF MutexTaken
    <2> QED
        BY <1>0, <2>1, <2>2, <2>3, CallPartKept
<1>7. ASSUME NEW p \in Games, LoadDll(p) PROVE CallPart'
    <2>1. GamesKeepCalls
        BY <1>7, <1>0, SMTT(30)
           DEF GamesKeepCalls, LoadDll, MainStates, ThisCall, At
    <2>2. WorkersKeepCalls
        BY <1>7, <1>0, SMTT(30) DEF WorkersKeepCalls, LoadDll
    <2>3. semaphore' = semaphore /\ loads' = loads
        BY <1>7, Zenon DEF LoadDll
    <2> QED
        BY <1>0, <2>1, <2>2, <2>3, CallPartKept
<1>8. ASSUME NEW p \in Games, Spawn(p) PROVE CallPart'
    <2>1. GamesKeepCalls
        BY <1>8, <1>0, SMTT(30)
           DEF GamesKeepCalls, Spawn, MainStates, ThisCall, At
    <2>2. WorkersKeepCalls
        BY <1>8, <1>0, SMTT(30)
           DEF WorkersKeepCalls, Spawn, WorkerStates, ThisCall, Is, Go, Returns
    <2>3. semaphore' = semaphore /\ loads' = loads
        BY <1>8, Zenon DEF Spawn
    <2> QED
        BY <1>0, <2>1, <2>2, <2>3, CallPartKept
<1>9. ASSUME NEW p \in Games, LetMutexGo(p) PROVE CallPart'
    <2>1. GamesKeepCalls
        BY <1>9, <1>0, SMTT(30)
           DEF GamesKeepCalls, LetMutexGo, MainStates, ThisCall, At
    <2>2. WorkersKeepCalls
        BY <1>9, <1>0, SMTT(30) DEF WorkersKeepCalls, LetMutexGo
    <2>3. semaphore' = semaphore /\ loads' = loads
        BY <1>9, Zenon DEF LetMutexGo
    <2> QED
        BY <1>0, <2>1, <2>2, <2>3, CallPartKept
<1>10. ASSUME NEW p \in Games, End(p) PROVE CallPart'
    <2>1. /\ game[p].pc = "end"
          /\ \A q \in Games : q # p => game'[q] = game[q]
          /\ game'[p].pc = "out"
          /\ game'[p].call = Nobody
          /\ game'[p].g_hFzLoaderSemaphore = Nobody
        BY <1>10, <1>0, GameOfCall, SMTT(30)
           DEF End, Return, MainStates, ThisCall, At
    <2>2. worker' = worker
        BY <1>10, Zenon DEF End
    <2>3. loads' = loads /\ semaphore' =
              Closed(Signalled(semaphore, ThisCall(p)), game[p].call)
        BY <1>10, Zenon DEF End, ThisCall
    <2>4. /\ Signalled(semaphore, ThisCall(p)) \in SemaphoreStates
          /\ Signalled(semaphore, ThisCall(p)).handles = semaphore.handles
        BY <1>0, SemaphoreSignalled, Zenon
    <2>5. /\ loads' = loads
          /\ semaphore' \in SemaphoreStates
          /\ \A h : h \in semaphore'.handles
                 <=> h \in semaphore.handles /\ h # game[p].call
          /\ (semaphore'.handles = {} => semaphore'.count = 1)
        BY <2>4, <2>3, SemaphoreClosedOnce, Zenon
    <2>6. CallInv'
        BY <2>1, <2>2, <2>3, <2>4, <2>5, <1>b, GameOfCall, ThreadsDiffer,
           SMTT(30)
           DEF CallInv, OwnCall, At
    <2>7. UsedInv'
        BY <2>1, <2>2, <2>3, <2>4, <2>5, <1>b, GameOfCall, ThreadsDiffer, Zenon
           DEF UsedInv, Used
    <2>8. HandleInv'
        BY <2>1, <2>2, <2>3, <2>4, <2>5, <1>b, GameOfCall, ThreadsDiffer,
           SMTT(30)
           DEF CallInv, HandleInv, OwnCall, At, SemaphoreStates
    <2>9. AskingInv'
        BY <2>1, <2>2, <2>3, <2>4, <2>5, <1>b, GameOfCall, ThreadsDiffer,
           SMTT(30)
           DEF CallInv, AskingInv, OwnCall, At, ThisCall
    <2> QED
        BY <2>1, <2>2, <2>3, <2>4, <2>5, <2>6, <2>7, <2>8, <2>9, <1>0
           DEF CallPart
<1>11. ASSUME NEW p \in Games, ProcessEnds(p) PROVE CallPart'
    <2>1. /\ \A q \in Games : q # p => game'[q] = game[q]
          /\ game'[p].pc = "out" /\ game'[p].call = Nobody
          /\ game'[p].g_hFzLoaderSemaphore = Nobody
        BY <1>11, <1>0, GameOfCall, SMTT(30)
           DEF ProcessEnds, LeftBy, Without, Kept, NewMutex, NewSemaphore,
               NewGame, NoWorker, MainStates, ThisCall, At
    <2>2. \A d \in Calls : worker'[d].close \in {worker[d].close, Nobody}
        BY <1>11, <1>0, SMTT(30)
           DEF ProcessEnds, LeftBy, Without, Kept, NewMutex, NewSemaphore,
               NewGame, NoWorker, WorkerStates, ThisCall, Is, Go, Returns
    <2>3. loads' = loads /\ semaphore' = ClosedAll(semaphore, CallsOf(p))
        BY <1>11, Zenon DEF ProcessEnds
    <2>4. /\ loads' = loads
          /\ semaphore' \in SemaphoreStates
          /\ \A h : h \in semaphore'.handles
                 <=> h \in semaphore.handles /\ h \notin CallsOf(p)
          /\ (semaphore'.handles = {} => semaphore'.count = 1)
        BY <2>3, <1>0, SemaphoreClosed, Zenon
    <2>5. \A h \in Calls : h \in CallsOf(p) <=> gameOf(h) = p
        BY Zenon DEF CallsOf, gameOf
    <2>6. CallInv'
        BY <2>1, <2>2, <2>3, <2>4, <2>5, <1>b, GameOfCall, ThreadsDiffer,
           SMTT(30)
           DEF CallInv, OwnCall, At
    <2>7. UsedInv'
        BY <2>1, <2>2, <2>3, <2>4, <2>5, <1>b, GameOfCall, ThreadsDiffer, Zenon
           DEF UsedInv, Used
    <2>8. HandleInv'
        BY <2>1, <2>2, <2>3, <2>4, <2>5, <1>b, GameOfCall, ThreadsDiffer,
           SMTT(30)
           DEF CallInv, HandleInv, OwnCall, At, SemaphoreStates
    <2>9. AskingInv'
        BY <2>1, <2>2, <2>3, <2>4, <2>5, <1>b, GameOfCall, ThreadsDiffer,
           SMTT(30)
           DEF CallInv, AskingInv, OwnCall, At, ThisCall
    <2> QED
        BY <2>1, <2>2, <2>3, <2>4, <2>5, <2>6, <2>7, <2>8, <2>9, <1>0
           DEF CallPart
<1>12. ASSUME NEW p \in Games, Crash(p) PROVE CallPart'
    BY <1>12, <1>11 DEF Crash
<1>13. ASSUME NEW c \in Calls, OpenMutex(c) PROVE CallPart'
    <2>1. GamesKeepCalls
        BY <1>13, <1>0, GameOfCall, SMTT(30) DEF GamesKeepCalls, OpenMutex
    <2>2. WorkersKeepCalls
        BY <1>13, <1>0, SMTT(30)
           DEF WorkersKeepCalls, OpenMutex, Go, Returns, WorkerStates,
               ThisCall, Is
    <2>3. semaphore' = semaphore /\ loads' = loads
        BY <1>13, Zenon DEF OpenMutex
    <2> QED
        BY <1>0, <2>1, <2>2, <2>3, CallPartKept
<1>14. ASSUME NEW c \in Calls, AwaitMutex(c) PROVE CallPart'
    <2>1. GamesKeepCalls
        BY <1>14, <1>0, GameOfCall, SMTT(30)
           DEF GamesKeepCalls, AwaitMutex, Go, Returns, MainStates, ThisCall,
               At
    <2>2. WorkersKeepCalls
        BY <1>14, <1>0, SMTT(30)
           DEF WorkersKeepCalls, AwaitMutex, Go, Returns, WorkerStates,
               ThisCall, Is
    <2>3. semaphore' = semaphore /\ loads' = loads
        BY <1>14, Zenon DEF AwaitMutex
    <2> QED
        BY <1>0, <2>1, <2>2, <2>3, CallPartKept
<1>15. ASSUME NEW c \in Calls, MutexAbandoned(c) PROVE CallPart'
    <2>1. GamesKeepCalls
        BY <1>15, <1>0, GameOfCall, SMTT(30) DEF GamesKeepCalls, MutexAbandoned
    <2>2. WorkersKeepCalls
        BY <1>15, <1>0, SMTT(30)
           DEF WorkersKeepCalls, MutexAbandoned, Returns, WorkerStates,
               ThisCall, Is, Go
    <2>3. semaphore' = semaphore /\ loads' = loads
        BY <1>15, Zenon DEF MutexAbandoned
    <2> QED
        BY <1>0, <2>1, <2>2, <2>3, CallPartKept
<1>16. ASSUME NEW c \in Calls, DoWork(c) PROVE CallPart'
    <2>1. GamesKeepCalls
        BY <1>16, <1>0, GameOfCall, SMTT(30)
           DEF GamesKeepCalls, DoWork, MainStates, ThisCall, At
    <2>2. WorkersKeepCalls
        BY <1>16, <1>0, SMTT(30)
           DEF WorkersKeepCalls, DoWork, WorkerStates, ThisCall, Is, Go,
               Returns
    <2>3. semaphore' = semaphore /\ loads' = loads
        BY <1>16, Zenon DEF DoWork
    <2> QED
        BY <1>0, <2>1, <2>2, <2>3, CallPartKept
<1>17. ASSUME NEW c \in Calls, PushDll(c) PROVE CallPart'
    <2>1. GamesKeepCalls
        BY <1>17, <1>0, GameOfCall, SMTT(30) DEF GamesKeepCalls, PushDll
    <2>2. WorkersKeepCalls
        BY <1>17, <1>0, SMTT(30)
           DEF WorkersKeepCalls, PushDll, WorkerStates, ThisCall, Is, Go,
               Returns
    <2>3. semaphore' = semaphore /\ loads' = loads
        BY <1>17, Zenon DEF PushDll
    <2> QED
        BY <1>0, <2>1, <2>2, <2>3, CallPartKept
<1>18. ASSUME NEW c \in Calls, ZeroDll(c) PROVE CallPart'
    <2>1. GamesKeepCalls
        BY <1>18, <1>0, GameOfCall, SMTT(30)
           DEF GamesKeepCalls, ZeroDll, Go, MainStates, ThisCall, At
    <2>2. WorkersKeepCalls
        BY <1>18, <1>0, SMTT(30)
           DEF WorkersKeepCalls, ZeroDll, Go, WorkerStates, ThisCall, Is,
               Returns
    <2>3. semaphore' = semaphore /\ loads' = loads
        BY <1>18, Zenon DEF ZeroDll
    <2> QED
        BY <1>0, <2>1, <2>2, <2>3, CallPartKept
<1>19. ASSUME NEW c \in Calls, PushSemaphore(c) PROVE CallPart'
    <2>1. GamesKeepCalls
        BY <1>19, <1>0, GameOfCall, SMTT(30) DEF GamesKeepCalls, PushSemaphore
    <2>2. WorkersKeepCalls
        BY <1>19, <1>0, SMTT(30)
           DEF WorkersKeepCalls, PushSemaphore, WorkerStates, ThisCall, Is, Go,
               Returns
    <2>3. semaphore' = semaphore /\ loads' = loads
        BY <1>19, Zenon DEF PushSemaphore
    <2> QED
        BY <1>0, <2>1, <2>2, <2>3, CallPartKept
<1>20. ASSUME NEW c \in Calls, ZeroSemaphore(c) PROVE CallPart'
    <2>1. GamesKeepCalls
        BY <1>20, <1>0, GameOfCall, SMTT(30)
           DEF GamesKeepCalls, ZeroSemaphore, Go, MainStates, ThisCall, At
    <2>2. WorkersKeepCalls
        BY <1>20, <1>0, SMTT(30)
           DEF WorkersKeepCalls, ZeroSemaphore, Go, WorkerStates, ThisCall, Is,
               Returns
    <2>3. semaphore' = semaphore /\ loads' = loads
        BY <1>20, Zenon DEF ZeroSemaphore
    <2> QED
        BY <1>0, <2>1, <2>2, <2>3, CallPartKept
<1>21. ASSUME NEW c \in Calls, SignalSemaphore(c) PROVE CallPart'
    <2>1. game' = game
        BY <1>21, Zenon DEF SignalSemaphore
    <2>2. \A d \in Calls : worker'[d].close = worker[d].close
        BY <1>21, <1>0, SMTT(30)
           DEF SignalSemaphore, WorkerStates, ThisCall, Is, Go, Returns
    <2>3. /\ loads' = loads
          /\ semaphore' \in SemaphoreStates
          /\ semaphore'.handles = semaphore.handles
          /\ (semaphore'.handles = {} => semaphore'.count = 1)
        BY <1>21, <1>0, <1>b, SemaphoreSignalled, SMT
           DEF SignalSemaphore, HandleInv
    <2>4. CallInv'
        BY <2>1, <2>2, <2>3, <1>b, GameOfCall, ThreadsDiffer, SMTT(30)
           DEF CallInv, OwnCall, At
    <2>5. UsedInv'
        BY <2>1, <2>2, <2>3, <1>b, GameOfCall, ThreadsDiffer, Zenon
           DEF UsedInv, Used
    <2>6. HandleInv'
        BY <2>1, <2>2, <2>3, <1>b, GameOfCall, ThreadsDiffer, SMTT(30)
           DEF CallInv, HandleInv, OwnCall, At, SemaphoreStates
    <2>7. AskingInv'
        BY <2>1, <2>2, <2>3, <1>b, GameOfCall, ThreadsDiffer, SMTT(30)
           DEF CallInv, AskingInv, OwnCall, At, ThisCall
    <2> QED
        BY <2>1, <2>2, <2>3, <2>4, <2>5, <2>6, <2>7, <1>0 DEF CallPart
<1>22. ASSUME NEW c \in Calls, CloseSemaphore(c) PROVE CallPart'
    <2>1. game' = game
        BY <1>22, Zenon DEF CloseSemaphore
    <2>2. \A d \in Calls : worker'[d].close \in {worker[d].close, Nobody}
        BY <1>22, <1>0, SMTT(30)
           DEF CloseSemaphore, WorkerStates, ThisCall, Is, Go, Returns
    <2>3. loads' = loads /\ semaphore' = Closed(semaphore, worker[c].close)
        BY <1>22, Zenon DEF CloseSemaphore
    <2>4. /\ loads' = loads
          /\ semaphore' \in SemaphoreStates
          /\ \A h : h \in semaphore'.handles
                 <=> h \in semaphore.handles /\ h # worker[c].close
          /\ (semaphore'.handles = {} => semaphore'.count = 1)
        BY <2>3, <1>0, SemaphoreClosedOnce, Zenon
    <2>5. CallInv'
        BY <2>1, <2>2, <2>3, <2>4, <1>b, GameOfCall, ThreadsDiffer, SMTT(30)
           DEF CallInv, OwnCall, At
    <2>6. UsedInv'
        BY <2>1, <2>2, <2>3, <2>4, <1>b, GameOfCall, ThreadsDiffer, Zenon
           DEF UsedInv, Used
    <2>7. HandleInv'
        BY <2>1, <2>2, <2>3, <2>4, <1>b, GameOfCall, ThreadsDiffer, SMTT(30)
           DEF CallInv, HandleInv, OwnCall, At, SemaphoreStates
    <2>8. AskingInv'
        BY <2>1, <2>2, <2>3, <2>4, <1>b, GameOfCall, ThreadsDiffer, SMTT(30)
           DEF CallInv, AskingInv, OwnCall, At, ThisCall
    <2> QED
        BY <2>1, <2>2, <2>3, <2>4, <2>5, <2>6, <2>7, <2>8, <1>0 DEF CallPart
<1>23. ASSUME NEW c \in Calls, ExitThread(c) PROVE CallPart'
    <2>1. GamesKeepCalls
        BY <1>23, <1>0, GameOfCall, SMTT(30)
           DEF GamesKeepCalls, ExitThread, NoWorker, MainStates, ThisCall, At
    <2>2. WorkersKeepCalls
        BY <1>23, <1>0, SMTT(30)
           DEF WorkersKeepCalls, ExitThread, NoWorker, WorkerStates, ThisCall,
               Is, Go, Returns
    <2>3. semaphore' = semaphore /\ loads' = loads
        BY <1>23, Zenon DEF ExitThread
    <2> QED
        BY <1>0, <2>1, <2>2, <2>3, CallPartKept
<1>24. ASSUME NEW c \in Calls, Terminate(c) PROVE CallPart'
    BY <1>24, <1>11, GameOfCall DEF Terminate
<1>25. CASE UNCHANGED vars
    BY <1>25, <1>0, SMT
       DEF vars, CallPart, CallInv, UsedInv, HandleInv, AskingInv, Used,
           OwnCall, At, ThisCall
<1> QED
    BY <1>1, <1>2, <1>3, <1>4, <1>5, <1>6, <1>7, <1>8, <1>9, <1>10, <1>11,
       <1>12, <1>13, <1>14, <1>15, <1>16, <1>17, <1>18, <1>19, <1>20, <1>21,
       <1>22, <1>23, <1>24, <1>25, Zenon
       DEF Next, Main, Worker

\* Every step keeps a reference to the DLL for each worker.
LEMMA DllNext == IInv /\ [Next]_vars => DllPart'
<1> SUFFICES ASSUME IInv, [Next]_vars PROVE DllPart'
    OBVIOUS
<1>0. /\ game \in [Games -> MainStates] /\ worker \in [Calls -> WorkerStates]
      /\ CallInv /\ DllPart
    BY DEF IInv, TypeOK, DllPart
<1>a. DllStaysLoaded /\ DllInv
    BY <1>0 DEF DllPart
<1>b. \A q \in Games : Cardinality(Workers(q)) \in Nat /\ game[q].dllRefs
    \in Nat
    BY <1>0, WorkersFinite, FS_CardinalityType, SMT DEF MainStates
<1>1. ASSUME NEW p \in Games, ModLoad(p) PROVE DllPart'
    <2>1. GamesKeepDll
        BY <1>1, <1>0, SMTT(30)
           DEF GamesKeepDll, ModLoad, MainStates, ThisCall, At
    <2>2. WorkersKeepDll
        BY <1>1, <1>0, SMTT(30) DEF WorkersKeepDll, ModLoad
    <2> QED
        BY <1>0, <2>1, <2>2, DllPartKept
<1>2. ASSUME NEW p \in Games, SemaphoreBusy(p) PROVE DllPart'
    <2>1. GamesKeepDll
        BY <1>2, <1>0, SMTT(30)
           DEF GamesKeepDll, SemaphoreBusy, Return, MainStates, ThisCall, At
    <2>2. WorkersKeepDll
        BY <1>2, <1>0, SMTT(30) DEF WorkersKeepDll, SemaphoreBusy
    <2> QED
        BY <1>0, <2>1, <2>2, DllPartKept
<1>3. ASSUME NEW p \in Games, TakeSemaphore(p) PROVE DllPart'
    <2>1. GamesKeepDll
        BY <1>3, <1>0, SMTT(30)
           DEF GamesKeepDll, TakeSemaphore, MainStates, ThisCall, At
    <2>2. WorkersKeepDll
        BY <1>3, <1>0, SMTT(30) DEF WorkersKeepDll, TakeSemaphore
    <2> QED
        BY <1>0, <2>1, <2>2, DllPartKept
<1>4. ASSUME NEW p \in Games, ClearDll(p) PROVE DllPart'
    <2>1. GamesKeepDll
        BY <1>4, <1>0, SMTT(30)
           DEF GamesKeepDll, ClearDll, MainStates, ThisCall, At
    <2>2. WorkersKeepDll
        BY <1>4, <1>0, SMTT(30) DEF WorkersKeepDll, ClearDll
    <2> QED
        BY <1>0, <2>1, <2>2, DllPartKept
<1>5. ASSUME NEW p \in Games, MutexRefused(p) PROVE DllPart'
    <2>1. GamesKeepDll
        BY <1>5, <1>0, SMTT(30)
           DEF GamesKeepDll, MutexRefused, GoTo, MainStates, ThisCall, At
    <2>2. WorkersKeepDll
        BY <1>5, <1>0, SMTT(30) DEF WorkersKeepDll, MutexRefused
    <2> QED
        BY <1>0, <2>1, <2>2, DllPartKept
<1>6. ASSUME NEW p \in Games, MutexTaken(p) PROVE DllPart'
    <2>1. GamesKeepDll
        BY <1>6, <1>0, SMTT(30)
           DEF GamesKeepDll, MutexTaken, GoTo, MainStates, ThisCall, At
    <2>2. WorkersKeepDll
        BY <1>6, <1>0, SMTT(30) DEF WorkersKeepDll, MutexTaken
    <2> QED
        BY <1>0, <2>1, <2>2, DllPartKept
<1>7. ASSUME NEW p \in Games, LoadDll(p) PROVE DllPart'
    <2>1. /\ game[p].pc = "load"
          /\ \A q \in Games : q # p => game'[q] = game[q]
          /\ \/ game'[p].pc = "spawn" /\ game'[p].dllRefs = game[p].dllRefs + 1
             \/ game'[p].pc = "free" /\ game'[p].dllRefs = game[p].dllRefs
                /\ ~game'[p].g_hDll
        BY <1>7, <1>0, GameOfCall, SMTT(30)
           DEF LoadDll, MainStates, ThisCall, At
    <2>2. worker' = worker
        BY <1>7, Zenon DEF LoadDll
    <2>3. \A q \in Games : Workers(q)' = Workers(q)
        BY <2>2, Zenon DEF Workers, Is
    <2>4. DllStaysLoaded'
        BY <2>1, <2>2, <2>3, <1>0, <1>a, <1>b, GameOfCall, SMTT(30)
           DEF DllStaysLoaded, DllInv, At
    <2>5. DllInv'
        BY <2>1, <2>2, <2>3, <1>0, <1>a, <1>b, GameOfCall, SMTT(30)
           DEF DllStaysLoaded, DllInv, At
    <2> QED
        BY <2>4, <2>5 DEF DllPart
<1>8. ASSUME NEW p \in Games, Spawn(p) PROVE DllPart'
    <2>1. /\ game[p].pc = "spawn"
          /\ \A q \in Games : q # p => game'[q] = game[q]
          /\ game'[p].pc = "free"
          /\ game'[p].dllRefs = game[p].dllRefs
          /\ game'[p].result
        BY <1>8, <1>0, GameOfCall, SMTT(30) DEF Spawn, MainStates, ThisCall, At
    <2>2. ThisCall(p) \in Calls /\ gameOf(ThisCall(p)) = p
        BY <2>1, <1>0, SMT DEF CallInv, OwnCall, At, ThisCall
    <2>3. worker' = [worker EXCEPT ![ThisCall(p)].pc = "start"]
        BY <1>8, Zenon DEF Spawn
    <2>4. \A q \in Games : q # p => Workers(q)' = Workers(q)
        BY <2>2, <2>3, <1>0, SMT DEF Workers, CallsOf, gameOf, Is, WorkerStates
    <2>5. Workers(p)' = Workers(p) \cup {ThisCall(p)}
        BY <2>2, <2>3, <1>0, SMT DEF Workers, CallsOf, gameOf, Is, WorkerStates
    <2>6. /\ Cardinality(Workers(p) \cup {ThisCall(p)}) \in Nat
          /\ Cardinality(Workers(p) \cup {ThisCall(p)})
                 <= Cardinality(Workers(p)) + 1
        BY WorkersFinite, OneMore
    <2>7. Cardinality(Workers(p)') \in Nat /\ Cardinality(Workers(p)')
              <= Cardinality(Workers(p)) + 1
        BY <2>5, <2>6, Zenon
    <2>8. DllStaysLoaded'
        BY <2>1, <2>4, <2>7, <1>0, <1>a, <1>b, GameOfCall, SMTT(30)
           DEF DllStaysLoaded, DllInv, At
    <2>9. DllInv'
        BY <2>1, <2>4, <2>7, <1>0, <1>a, <1>b, GameOfCall, SMTT(30)
           DEF DllStaysLoaded, DllInv, At
    <2> QED
        BY <2>8, <2>9 DEF DllPart
<1>9. ASSUME NEW p \in Games, LetMutexGo(p) PROVE DllPart'
    <2>1. GamesKeepDll
        BY <1>9, <1>0, SMTT(30)
           DEF GamesKeepDll, LetMutexGo, MainStates, ThisCall, At
    <2>2. WorkersKeepDll
        BY <1>9, <1>0, SMTT(30) DEF WorkersKeepDll, LetMutexGo
    <2> QED
        BY <1>0, <2>1, <2>2, DllPartKept
<1>10. ASSUME NEW p \in Games, End(p) PROVE DllPart'
    <2>1. game[p].pc = "end" /\ ~(~game[p].result /\ game[p].g_hDll)
        BY <1>10, <1>a, SMT DEF End, DllInv, At
    <2>2. /\ \A q \in Games : q # p => game'[q] = game[q]
          /\ game'[p].pc = "out"
          /\ game'[p].dllRefs = game[p].dllRefs
        BY <1>10, <2>1, <1>0, SMT DEF End, Return, MainStates
    <2>3. worker' = worker
        BY <1>10, Zenon DEF End
    <2>4. \A q \in Games : Workers(q)' = Workers(q)
        BY <2>3, Zenon DEF Workers, Is
    <2>5. DllStaysLoaded'
        BY <2>1, <2>2, <2>3, <2>4, <1>0, <1>a, <1>b, GameOfCall, SMTT(30)
           DEF DllStaysLoaded, DllInv, At
    <2>6. DllInv'
        BY <2>1, <2>2, <2>3, <2>4, <1>0, <1>a, <1>b, GameOfCall, SMTT(30)
           DEF DllStaysLoaded, DllInv, At
    <2> QED
        BY <2>5, <2>6 DEF DllPart
<1>11. ASSUME NEW p \in Games, ProcessEnds(p) PROVE DllPart'
    <2>1. /\ \A q \in Games : q # p => game'[q] = game[q]
          /\ game'[p].pc = "out" /\ game'[p].dllRefs = 0
        BY <1>11, <1>0, GameOfCall, SMTT(30)
           DEF ProcessEnds, LeftBy, Without, Kept, NewMutex, NewSemaphore,
               NewGame, NoWorker, MainStates, ThisCall, At
    <2>2. \A d \in Calls : worker'[d].pc = IF gameOf(d) = p THEN "none"
              ELSE worker[d].pc
        BY <1>11, <1>0, SMT DEF ProcessEnds, NoWorker
    <2>3. \A q \in Games : q # p => Workers(q)' = Workers(q)
        BY <2>2, SMT DEF Workers, Is, CallsOf, gameOf
    <2>4. Workers(p)' = {}
        BY <2>2, SMT DEF Workers, Is, CallsOf, gameOf
    <2>5. Cardinality(Workers(p)') = 0
        BY <2>4, FS_EmptySet, Zenon
    <2>6. DllStaysLoaded'
        BY <2>1, <2>3, <2>5, <1>0, <1>a, <1>b, GameOfCall, SMTT(30)
           DEF DllStaysLoaded, DllInv, At
    <2>7. DllInv'
        BY <2>1, <2>3, <2>5, <1>0, <1>a, <1>b, GameOfCall, SMTT(30)
           DEF DllStaysLoaded, DllInv, At
    <2> QED
        BY <2>6, <2>7 DEF DllPart
<1>12. ASSUME NEW p \in Games, Crash(p) PROVE DllPart'
    BY <1>12, <1>11 DEF Crash
<1>13. ASSUME NEW c \in Calls, OpenMutex(c) PROVE DllPart'
    <2>1. GamesKeepDll
        BY <1>13, <1>0, GameOfCall, SMTT(30) DEF GamesKeepDll, OpenMutex
    <2>2. WorkersKeepDll
        BY <1>13, <1>0, SMTT(30)
           DEF WorkersKeepDll, OpenMutex, Go, Returns, WorkerStates, ThisCall,
               Is
    <2> QED
        BY <1>0, <2>1, <2>2, DllPartKept
<1>14. ASSUME NEW c \in Calls, AwaitMutex(c) PROVE DllPart'
    <2>1. GamesKeepDll
        BY <1>14, <1>0, GameOfCall, SMTT(30)
           DEF GamesKeepDll, AwaitMutex, Go, Returns, MainStates, ThisCall, At
    <2>2. WorkersKeepDll
        BY <1>14, <1>0, SMTT(30)
           DEF WorkersKeepDll, AwaitMutex, Go, Returns, WorkerStates, ThisCall,
               Is
    <2> QED
        BY <1>0, <2>1, <2>2, DllPartKept
<1>15. ASSUME NEW c \in Calls, MutexAbandoned(c) PROVE DllPart'
    <2>1. GamesKeepDll
        BY <1>15, <1>0, GameOfCall, SMTT(30) DEF GamesKeepDll, MutexAbandoned
    <2>2. WorkersKeepDll
        BY <1>15, <1>0, SMTT(30)
           DEF WorkersKeepDll, MutexAbandoned, Returns, WorkerStates, ThisCall,
               Is, Go
    <2> QED
        BY <1>0, <2>1, <2>2, DllPartKept
<1>16. ASSUME NEW c \in Calls, DoWork(c) PROVE DllPart'
    <2>1. GamesKeepDll
        BY <1>16, <1>0, GameOfCall, SMTT(30)
           DEF GamesKeepDll, DoWork, MainStates, ThisCall, At
    <2>2. WorkersKeepDll
        BY <1>16, <1>0, SMTT(30)
           DEF WorkersKeepDll, DoWork, WorkerStates, ThisCall, Is, Go, Returns
    <2> QED
        BY <1>0, <2>1, <2>2, DllPartKept
<1>17. ASSUME NEW c \in Calls, PushDll(c) PROVE DllPart'
    <2>1. GamesKeepDll
        BY <1>17, <1>0, GameOfCall, SMTT(30) DEF GamesKeepDll, PushDll
    <2>2. WorkersKeepDll
        BY <1>17, <1>0, SMTT(30)
           DEF WorkersKeepDll, PushDll, WorkerStates, ThisCall, Is, Go, Returns
    <2> QED
        BY <1>0, <2>1, <2>2, DllPartKept
<1>18. ASSUME NEW c \in Calls, ZeroDll(c) PROVE DllPart'
    <2>1. GamesKeepDll
        BY <1>18, <1>0, GameOfCall, SMTT(30)
           DEF GamesKeepDll, ZeroDll, Go, MainStates, ThisCall, At
    <2>2. WorkersKeepDll
        BY <1>18, <1>0, SMTT(30)
           DEF WorkersKeepDll, ZeroDll, Go, WorkerStates, ThisCall, Is, Returns
    <2> QED
        BY <1>0, <2>1, <2>2, DllPartKept
<1>19. ASSUME NEW c \in Calls, PushSemaphore(c) PROVE DllPart'
    <2>1. GamesKeepDll
        BY <1>19, <1>0, GameOfCall, SMTT(30) DEF GamesKeepDll, PushSemaphore
    <2>2. WorkersKeepDll
        BY <1>19, <1>0, SMTT(30)
           DEF WorkersKeepDll, PushSemaphore, WorkerStates, ThisCall, Is, Go,
               Returns
    <2> QED
        BY <1>0, <2>1, <2>2, DllPartKept
<1>20. ASSUME NEW c \in Calls, ZeroSemaphore(c) PROVE DllPart'
    <2>1. GamesKeepDll
        BY <1>20, <1>0, GameOfCall, SMTT(30)
           DEF GamesKeepDll, ZeroSemaphore, Go, MainStates, ThisCall, At
    <2>2. WorkersKeepDll
        BY <1>20, <1>0, SMTT(30)
           DEF WorkersKeepDll, ZeroSemaphore, Go, WorkerStates, ThisCall, Is,
               Returns
    <2> QED
        BY <1>0, <2>1, <2>2, DllPartKept
<1>21. ASSUME NEW c \in Calls, SignalSemaphore(c) PROVE DllPart'
    <2>1. GamesKeepDll
        BY <1>21, <1>0, GameOfCall, SMTT(30) DEF GamesKeepDll, SignalSemaphore
    <2>2. WorkersKeepDll
        BY <1>21, <1>0, SMTT(30)
           DEF WorkersKeepDll, SignalSemaphore, WorkerStates, ThisCall, Is, Go,
               Returns
    <2> QED
        BY <1>0, <2>1, <2>2, DllPartKept
<1>22. ASSUME NEW c \in Calls, CloseSemaphore(c) PROVE DllPart'
    <2>1. GamesKeepDll
        BY <1>22, <1>0, GameOfCall, SMTT(30) DEF GamesKeepDll, CloseSemaphore
    <2>2. WorkersKeepDll
        BY <1>22, <1>0, SMTT(30)
           DEF WorkersKeepDll, CloseSemaphore, WorkerStates, ThisCall, Is, Go,
               Returns
    <2> QED
        BY <1>0, <2>1, <2>2, DllPartKept
<1>23. ASSUME NEW c \in Calls, ExitThread(c) PROVE DllPart'
    <2>1. /\ \A q \in Games : q # gameOf(c) => game'[q] = game[q]
          /\ game'[gameOf(c)].pc = game[gameOf(c)].pc
          /\ game'[gameOf(c)].result =
                 game[gameOf(c)].result /\ game'[gameOf(c)].g_hDll =
                     game[gameOf(c)].g_hDll
          /\ game'[gameOf(c)].dllRefs
                 \in {game[gameOf(c)].dllRefs, game[gameOf(c)].dllRefs - 1}
        BY <1>23, <1>0, GameOfCall, SMTT(30)
           DEF ExitThread, NoWorker, MainStates, ThisCall, At
    <2>2. /\ \A d \in Calls : d # c => worker'[d] = worker[d]
          /\ worker[c].pc # "none" /\ worker'[c].pc = "none"
        BY <1>23, <1>0, SMT DEF ExitThread, NoWorker, Is
    <2>3. \A q \in Games : q # gameOf(c) => Workers(q)' = Workers(q)
        BY <2>2, SMT DEF Workers, Is, CallsOf, gameOf
    <2>4. c \in Workers(gameOf(c)) /\ Workers(gameOf(c))' =
              Workers(gameOf(c)) \ {c}
        BY <2>2, SMT DEF Workers, Is, CallsOf, gameOf
    <2>5. Cardinality(Workers(gameOf(c)) \ {c}) =
              Cardinality(Workers(gameOf(c))) - 1
        BY <2>4, WorkersFinite, GameOfCall, OneLess
    <2>6. Cardinality(Workers(gameOf(c))') =
              Cardinality(Workers(gameOf(c))) - 1
        BY <2>4, <2>5, Zenon
    <2>7. DllStaysLoaded'
        BY <2>1, <2>3, <2>6, <1>0, <1>a, <1>b, GameOfCall, SMTT(30)
           DEF DllStaysLoaded, DllInv, At
    <2>8. DllInv'
        BY <2>1, <2>3, <2>6, <1>0, <1>a, <1>b, GameOfCall, SMTT(30)
           DEF DllStaysLoaded, DllInv, At
    <2> QED
        BY <2>7, <2>8 DEF DllPart
<1>24. ASSUME NEW c \in Calls, Terminate(c) PROVE DllPart'
    BY <1>24, <1>11, GameOfCall DEF Terminate
<1>25. CASE UNCHANGED vars
    BY <1>25, <1>0, SMT
       DEF vars, DllPart, DllStaysLoaded, DllInv, At, Workers, Is
<1> QED
    BY <1>1, <1>2, <1>3, <1>4, <1>5, <1>6, <1>7, <1>8, <1>9, <1>10, <1>11,
       <1>12, <1>13, <1>14, <1>15, <1>16, <1>17, <1>18, <1>19, <1>20, <1>21,
       <1>22, <1>23, <1>24, <1>25, Zenon
       DEF Next, Main, Worker

\* The counts stay within their bounds.
LEMMA CountTypes ==
    IInv /\ [Next]_vars =>
        /\ loads' \in [Games -> Nat] /\ \A p \in Games : loads'[p]
               <= MaxLoads[p]
        /\ crashes' \in 0..MaxCrashes /\ kept' \subseteq Games
<1> SUFFICES ASSUME IInv, [Next]_vars
             PROVE  /\ loads' \in [Games -> Nat]
                    /\ \A p \in Games : loads'[p] <= MaxLoads[p]
                    /\ crashes' \in 0..MaxCrashes /\ kept' \subseteq Games
    OBVIOUS
<1>0. /\ loads \in [Games -> Nat] /\ \A p \in Games : loads[p] <= MaxLoads[p]
      /\ crashes \in 0..MaxCrashes /\ kept \subseteq Games /\ MaxCrashes
             \in Nat
    BY KernelAssumption DEF IInv, TypeOK
<1>1. ASSUME NEW p \in Games, ModLoad(p)
      PROVE  /\ loads' \in [Games -> Nat]
             /\ \A q \in Games : loads'[q] <= MaxLoads[q]
             /\ UNCHANGED <<crashes, kept>>
    <2>1. NextCall(p) \in Calls /\ loads' = [loads EXCEPT ![p] = @ + 1]
        BY <1>1, Zenon DEF ModLoad
    <2>2. loads[p] + 1 <= MaxLoads[p]
        BY <2>1, <1>0, NextCallIsNew
    <2>3. UNCHANGED <<crashes, kept>>
        BY <1>1, Zenon DEF ModLoad
    <2> QED
        BY <1>0, <2>1, <2>2, <2>3, SMT
<1>2. ASSUME NEW p \in Games, MutexRefused(p)
      PROVE  UNCHANGED <<loads, crashes>> /\ kept' \subseteq Games
    BY <1>0, <1>2, Zenon DEF MutexRefused
<1>3. ASSUME NEW p \in Games,
             \/ SemaphoreBusy(p) \/ TakeSemaphore(p) \/ ClearDll(p) \/ MutexTaken(p)
             \/ LoadDll(p) \/ Spawn(p) \/ LetMutexGo(p) \/ End(p)
      PROVE  UNCHANGED <<loads, crashes, kept>>
    BY <1>3, Zenon
       DEF SemaphoreBusy, TakeSemaphore, ClearDll, MutexTaken, LoadDll, Spawn,
           LetMutexGo, End
<1>4. ASSUME NEW p \in Games, ProcessEnds(p)
      PROVE  UNCHANGED loads /\ kept' \subseteq Games
    BY <1>0, <1>4, Zenon DEF ProcessEnds
<1>5. ASSUME NEW p \in Games, Crash(p)
      PROVE  UNCHANGED loads /\ crashes'
          \in 0..MaxCrashes /\ kept' \subseteq Games
    <2>1. crashes < MaxCrashes /\ crashes' = crashes + 1 /\ ProcessEnds(p)
        BY <1>5, Zenon DEF Crash
    <2> QED
        BY <1>0, <1>4, <2>1, SMT
<1>6. ASSUME NEW c \in Calls,
             \/ OpenMutex(c) \/ AwaitMutex(c) \/ MutexAbandoned(c) \/ DoWork(c)
             \/ PushDll(c) \/ ZeroDll(c) \/ PushSemaphore(c) \/ ZeroSemaphore(c)
             \/ SignalSemaphore(c) \/ CloseSemaphore(c) \/ ExitThread(c)
      PROVE  UNCHANGED <<loads, crashes, kept>>
    BY <1>6, Zenon
       DEF OpenMutex, AwaitMutex, MutexAbandoned, DoWork, PushDll, ZeroDll,
           PushSemaphore, ZeroSemaphore, SignalSemaphore, CloseSemaphore, ExitThread
<1>7. ASSUME NEW c \in Calls, Terminate(c)
      PROVE  UNCHANGED <<loads, crashes>> /\ kept' \subseteq Games
    BY <1>4, <1>7, GameOfCall DEF Terminate
<1>8. CASE UNCHANGED vars
    BY <1>0, <1>8, Zenon DEF vars
<1> QED
    BY <1>0, <1>1, <1>2, <1>3, <1>5, <1>6, <1>7, <1>8, Zenon
       DEF Next, Main, Worker

-------------------------------------------------------------------------------
(* The theorems *)

LEMMA InitIInv == Init => IInv
<1> SUFFICES ASSUME Init PROVE IInv
    OBVIOUS
<1>0. /\ game = [p \in Games |-> NewGame] /\ worker =
             [c \in Calls |-> NoWorker]
      /\ semaphore = NewSemaphore /\ mutex = NewMutex
      /\ loads = [p \in Games |-> 0] /\ crashes = 0 /\ kept = {}
    BY DEF Init
<1>1. /\ \A p \in Games : /\ game[p].pc = "out" /\ game[p].call = Nobody
                          /\ game[p].g_hFzLoaderSemaphore = Nobody
                          /\ game[p].dllRefs = 0
      /\ \A c \in Calls : worker[c].pc = "none" /\ worker[c].close = Nobody
    BY <1>0 DEF NewGame, NoWorker
<1>2. game \in [Games -> MainStates] /\ worker \in [Calls -> WorkerStates]
    <2>1. NewGame \in MainStates
        BY SMT DEF NewGame, MainStates, MainLabels, Handles
    <2>2. NoWorker \in WorkerStates
        BY SMT DEF NoWorker, WorkerStates, WorkerLabels, Handles
    <2> QED
        BY <1>0, <2>1, <2>2, Zenon
<1>3. semaphore \in SemaphoreStates /\ semaphore.handles =
          {} /\ semaphore.count = 1
    BY <1>0, SMT DEF NewSemaphore, SemaphoreStates
<1>4. MutexOK /\ mutex.owner = Nobody
    BY <1>0, SMT DEF NewMutex, MutexOK, MutexStates
<1>5. TypeOK
    BY <1>0, <1>2, <1>3, <1>4, KernelAssumption, SMT DEF TypeOK
<1>6. CallInv /\ UsedInv /\ HandleInv /\ AskingInv
    BY <1>1, <1>3, SMT DEF CallInv, UsedInv, Used, HandleInv, AskingInv, At
<1>7. HolderInv /\ KeptInv /\ LiveInv /\ OwnerInv
    BY <1>1, <1>4, ThreadsDiffer, SMT
       DEF HolderInv, KeptInv, LiveInv, OwnerInv, Is
<1>8. DllStaysLoaded
    <2>1. \A p \in Games : Workers(p) = {}
        BY <1>1, SMT DEF Workers, CallsOf, Is
    <2>2. \A p \in Games : Cardinality(Workers(p)) = 0
        BY <2>1, FS_EmptySet, Zenon
    <2> QED
        BY <1>1, <2>2, SMT DEF DllStaysLoaded
<1>9. DllInv
    BY <1>1, SMT DEF DllInv, At
<1> QED
    BY <1>5, <1>6, <1>7, <1>8, <1>9 DEF IInv

LEMMA NextIInv == IInv /\ [Next]_vars => IInv'
<1> SUFFICES ASSUME IInv, [Next]_vars PROVE IInv'
    OBVIOUS
<1>1. MutexPart' /\ CallPart' /\ DllPart'
    BY HolderNext, CallNext, DllNext
<1>2. TypeOK'
    BY <1>1, GameTypes, WorkerTypes, CountTypes, Zenon DEF TypeOK, MutexPart, CallPart
<1> QED
    BY <1>1, <1>2 DEF IInv, MutexPart, CallPart, DllPart

\* Main threads, workers and the two objects keep to the invariant, however many
\* games there are and however their steps come between each other.
THEOREM Inductive == Spec => []IInv
<1> QED
    BY InitIInv, NextIInv, PTL DEF Spec

\* Every variable of ModLoad and of the workers keeps to its type; the
\* semaphore is never above its maximum, and a mutex with no owner is not held.
THEOREM TypeCorrect == Spec => []TypeOK
<1>1. IInv => TypeOK
    BY DEF IInv
<1> QED
    BY <1>1, Inductive, PTL

\* The reference that LoadLibrary gives in InitModLoader is not given back
\* before the worker that runs the DLL's code leaves it.
THEOREM DllStays == Spec => []DllStaysLoaded
<1>1. IInv => DllStaysLoaded
    BY DEF IInv
<1> QED
    BY <1>1, Inductive, PTL

\* When no ModLoad is under way the semaphore can be had: whoever has taken it
\* has closed its last handle, if not released it.
THEOREM SemaphoreBack == Spec => []SemaphoreRecovers
<1>1. ASSUME IInv PROVE SemaphoreRecovers
    <2> SUFFICES ASSUME \A p \in Games : At(p, "out") PROVE semaphore.count = 1
        BY DEF SemaphoreRecovers
    <2>1. \A p \in Games : game[p].call = Nobody
        BY <1>1, SMT DEF IInv, CallInv
    <2>2. \A h \in semaphore.handles : h \in Calls
        BY <1>1, SMT DEF IInv, TypeOK, SemaphoreStates
    <2>3. semaphore.handles = {}
        BY <1>1, <2>1, <2>2, GameOfCall, ThreadsDiffer, SMT DEF IInv, HandleInv
    <2> QED
        BY <1>1, <2>3 DEF IInv, HandleInv
<1> QED
    BY <1>1, Inductive, PTL

\* One thread of all games is between InitAbstractions and FreeAbstractions:
\* whoever is there owns the mutex, and what it uses has not been freed.
THEOREM OneInside == Spec => []OneThreadInside
<1>1. ASSUME IInv PROVE OneThreadInside
    <2>1. Inside \subseteq {mutex.owner}
        BY <1>1, SMT DEF IInv, HolderInv, Inside
    <2>2. IsFiniteSet({mutex.owner}) /\ Cardinality({mutex.owner}) = 1
        BY FS_Singleton
    <2>3. Cardinality(Inside) <= 1
        BY <2>1, <2>2, FS_Subset
    <2>4. \A p \in Games \cap Inside : game[p].g_Abstraction = "live"
        BY <1>1, ThreadsDiffer, SMT DEF IInv, LiveInv, Inside
    <2>5. \A c \in Calls \cap Inside : game[gameOf(c)].g_Abstraction = "live"
        BY <1>1, ThreadsDiffer, SMT DEF IInv, LiveInv, Inside
    <2> QED
        BY <2>3, <2>4, <2>5 DEF OneThreadInside
<1> QED
    BY <1>1, Inductive, PTL

\* The mod that the worker reads from g_ModName is not replaced under it: the
\* call that would replace it cannot have the mutex.
THEOREM NameStays == Spec => NameStaysForWorker
<1>1. ASSUME IInv, [Next]_vars, NEW c \in Calls, Is(c, "work"), Is(c, "work")'
      PROVE  UNCHANGED game[gameOf(c)].g_ModName
    <2>0. /\ game \in [Games -> MainStates] /\ mutex.owner = c
          /\ gameOf(c) \in Games /\ worker[c].pc = "work" /\ worker'[c].pc =
                 "work"
        BY <1>1, GameOfCall DEF IInv, TypeOK, HolderInv, Is
    <2>1. ASSUME NEW p \in Games, MutexTaken(p)
          PROVE  FALSE
        BY <2>0, <2>1, ThreadsDiffer, Zenon DEF MutexTaken, CanTake
    <2>2. ASSUME NEW p \in Games, ProcessEnds(p)
          PROVE  UNCHANGED game[gameOf(c)].g_ModName
        <3>1. p # gameOf(c)
            BY <2>0, <2>2, SMT DEF ProcessEnds, NoWorker
        <3>2. game' = [game EXCEPT ![p] = NewGame]
            BY <2>2, Zenon DEF ProcessEnds
        <3> QED
            BY <2>0, <3>1, <3>2, SMT
    <2>3. ASSUME NEW p \in Games, Crash(p)
          PROVE  UNCHANGED game[gameOf(c)].g_ModName
        BY <2>2, <2>3 DEF Crash
    <2>4. ASSUME NEW p \in Games,
                 \/ ModLoad(p) \/ SemaphoreBusy(p) \/ TakeSemaphore(p) \/ ClearDll(p)
                 \/ MutexRefused(p) \/ LoadDll(p) \/ Spawn(p) \/ LetMutexGo(p)
          PROVE  UNCHANGED game[gameOf(c)].g_ModName
        <3>1. CASE ModLoad(p)
            BY <2>0, <3>1, SMT DEF ModLoad, MainStates
        <3>2. CASE SemaphoreBusy(p)
            BY <2>0, <3>2, SMT DEF SemaphoreBusy, Return, MainStates
        <3>3. CASE TakeSemaphore(p)
            BY <2>0, <3>3, SMT DEF TakeSemaphore, MainStates
        <3>4. CASE ClearDll(p)
            BY <2>0, <3>4, SMT DEF ClearDll, MainStates
        <3>5. CASE MutexRefused(p)
            BY <2>0, <3>5, SMT DEF MutexRefused, GoTo, MainStates
        <3>6. CASE LoadDll(p)
            BY <2>0, <3>6, SMT DEF LoadDll, MainStates
        <3>7. CASE Spawn(p)
            BY <2>0, <3>7, SMT DEF Spawn, MainStates
        <3>8. CASE LetMutexGo(p)
            BY <2>0, <3>8, SMT DEF LetMutexGo, MainStates
        <3> QED
            BY <2>4, <3>1, <3>2, <3>3, <3>4, <3>5, <3>6, <3>7, <3>8
    <2>5. ASSUME NEW p \in Games, End(p)
          PROVE  UNCHANGED game[gameOf(c)].g_ModName
        BY <2>0, <2>5, SMTT(30) DEF End, Return, MainStates
    <2>6. ASSUME NEW d \in Calls,
                 \/ OpenMutex(d) \/ MutexAbandoned(d) \/ PushDll(d)
                 \/ PushSemaphore(d) \/ SignalSemaphore(d) \/ CloseSemaphore(d)
          PROVE  UNCHANGED game[gameOf(c)].g_ModName
        BY <2>6, Zenon
           DEF OpenMutex, MutexAbandoned, PushDll, PushSemaphore,
               SignalSemaphore, CloseSemaphore
    <2>7. ASSUME NEW d \in Calls,
                 AwaitMutex(d) \/ DoWork(d) \/ ZeroDll(d) \/ ZeroSemaphore(d)
                     \/ ExitThread(d)
          PROVE  UNCHANGED game[gameOf(c)].g_ModName
        <3>1. CASE AwaitMutex(d)
            <4>1. \/ game' = [game EXCEPT ![gameOf(d)].g_Abstraction = "live"]
                  \/ game' = game
                BY <3>1, Zenon DEF AwaitMutex
            <4> QED
                BY <2>0, <4>1, GameOfCall, SMT DEF MainStates
        <3>2. CASE DoWork(d)
            BY <2>0, <3>2, GameOfCall, SMT DEF DoWork, MainStates
        <3>3. CASE ZeroDll(d)
            BY <2>0, <3>3, GameOfCall, SMT DEF ZeroDll, MainStates
        <3>4. CASE ZeroSemaphore(d)
            BY <2>0, <3>4, GameOfCall, SMT DEF ZeroSemaphore, MainStates
        <3>5. CASE ExitThread(d)
            BY <2>0, <3>5, GameOfCall, SMT DEF ExitThread, MainStates
        <3> QED
            BY <2>7, <3>1, <3>2, <3>3, <3>4, <3>5
    <2>8. ASSUME NEW d \in Calls, Terminate(d)
          PROVE  UNCHANGED game[gameOf(c)].g_ModName
        BY <2>2, <2>8, GameOfCall DEF Terminate
    <2>9. CASE UNCHANGED vars
        BY <2>9, Zenon DEF vars
    <2> QED
        BY <1>1, <2>1, <2>3, <2>4, <2>5, <2>6, <2>7, <2>8, <2>9, Zenon
           DEF Next, Main, Worker
<1>2. IInv /\ [Next]_vars =>
        [\A c \in Calls : Is(c, "work") /\ Is(c, "work")'
            => UNCHANGED game[gameOf(c)].g_ModName]_vars
    BY <1>1
<1> QED
    BY <1>2, Inductive, PTL DEF Spec, NameStaysForWorker
===============================================================================
