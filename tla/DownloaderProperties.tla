------------------------ MODULE DownloaderProperties -------------------------
(***************************************************************************)
(* What the downloader of HttpDownloader.cpp must guarantee to its callers *)
(* and to itself, over the steps of module Downloader.                     *)
(***************************************************************************)
EXTENDS Downloader, Occurrences, Integers

CommandSteps == {"command", "requesting", "registering", "cancelling",
                 "cancelfinish", "cancelled"}
CancelSteps  == {"cancelling", "cancelfinish", "cancelled"}

ObjectTypes ==
    /\ obj \in [Downloaders -> {"unborn", "live", "freed"}]
    /\ acquires \in [Downloaders -> Int]
    /\ request \in [Downloaders -> BOOLEAN]
    /\ status \in [Downloaders -> {"DOWNLOAD_SUCCESS", "DOWNLOAD_ERROR"}]
    /\ lock \in [Downloaders -> Owners]

ThreadTypes ==
    /\ recLock \in Owners
    /\ queue \in Seq(Commands) /\ active \in Seq(Downloaders)
    /\ good \in BOOLEAN /\ needTerminate \in BOOLEAN /\ threadActive \in BOOLEAN
    /\ wpc \in {"idle", "adding", "stopping", "queueing", "releasing",
                "deleting", "joining", "done"}
    /\ wdl \in Downloaders \cup {Nobody}
    /\ tpc \in CommandSteps \cup {"commands", "flush", "scan", "removing",
                "process", "thinking", "evaluate", "exit", "done"}
    /\ idx \in Nat

LibraryTypes ==
    /\ gsLock \in {"dl", "menu", Nobody}
    /\ conn \in [Downloaders -> BOOLEAN]
    /\ callback \in {<< >>} \cup (Downloaders \X
                {"progress", "DOWNLOAD_SUCCESS", "DOWNLOAD_ERROR"})
    /\ unpacker \in [Downloaders -> {"none", "unpacking", "releasing"}]

HistoryTypes ==
    /\ starts \in [Downloaders -> Nat] /\ stops \in Nat
    /\ accepted \in [Downloaders -> BOOLEAN]
    /\ refused \in [Downloaders -> BOOLEAN]
    /\ file \in [Downloaders -> {"absent", "partial", "packed", "ready"}]

\* The loops of the DL thread stay inside the queue and the list.
IndexOK ==
    /\ tpc \in CommandSteps => idx \in 1..Len(queue)
    /\ tpc = "flush" => queue # << >>
    /\ tpc = "removing" => idx <= Len(active)

\* Every variable has the values the code can give it, and no loop of the DL
\* thread indexes past its vector.
TypeOK == ObjectTypes /\ ThreadTypes /\ LibraryTypes /\ HistoryTypes /\ IndexOK

-------------------------------------------------------------------------------
(* Who may still use an object *)

Count(b) == IF b THEN 1 ELSE 0

WorkerCallOn(d, steps) == wdl = d /\ wpc \in steps
CommandOn(d, steps) == tpc \in steps /\ CommandNow.dl = d

\* The first command StartDownload or CancelDownload is not done with.
FirstPending ==
    IF tpc = "flush" THEN Len(queue) + 1 ELSE IF tpc \in CommandSteps THEN idx ELSE 1

PendingAdds(d) == OccurFrom(queue, FirstPending, {[cmd |-> "Add", dl |-> d]})
Queued(d) == Occur(queue, [cmd : {"Add", "Stop"}, dl : {d}])
Listed(d) == Occur(active, {d})

\* The acquisition StartAsyncDownload makes on behalf of the thread.
Assignments(d) ==
    Count(WorkerCallOn(d, {"adding"})) + PendingAdds(d)
      + Listed(d)

\* Acquisitions that some thread is going to release.
Holders(d) ==
    Assignments(d) + Queued(d)
      + Count(WorkerCallOn(d, {"stopping", "queueing", "releasing"}))
      + Count(CommandOn(d, CancelSteps))
      + Count(unpacker[d] # "none")

\* m_AcquiresCount is the number of holders, plus one for an object whose
\* request the HTTP library refused: nobody releases that acquisition.
RefCount == \A d \in Downloaders : acquires[d] = Holders(d) + Count(refused[d])

\* A freed (or not yet created) object is not reachable from the list, the
\* queue, a command or call in progress, an unpacker, or the HTTP library,
\* whose callbacks get the raw pointer.
NoDangling ==
    \A d \in Downloaders : obj[d] # "live" =>
        /\ Holders(d) = 0
        /\ ~request[d] /\ ~conn[d]
        /\ callback = << >> \/ callback[1] # d
        /\ ~CommandOn(d, {"requesting", "registering"})
        /\ ~WorkerCallOn(d, {"deleting"})
        /\ lock[d] = Nobody

\* The thread object is deleted only after its thread is done with it, with
\* an empty queue and list and the HTTP library idle.
ThreadDeletedClean ==
    wpc = "done" =>
        /\ tpc = "done" /\ queue = << >> /\ active = << >>
        /\ gsLock # "dl" /\ \A d \in Downloaders : ~conn[d]

-------------------------------------------------------------------------------
(* Locks *)

\* The owner of the lock that thread t waits for, when it waits.
Holder(t, owner) == IF owner \in {t, Nobody} THEN Nobody ELSE owner

WaitsFor(t) ==
    CASE t = "worker" ->
           IF wpc \in {"adding", "stopping", "joining"} THEN Holder(t, recLock)
           ELSE IF wpc \in {"queueing", "releasing", "deleting"}
           THEN Holder(t, lock[wdl]) ELSE Nobody
      [] t = "dl" ->
           IF tpc \in {"commands", "scan"} THEN Holder(t, recLock)
           ELSE IF tpc \in {"requesting", "cancelling", "process"}
           THEN IF gsLock = "dl" THEN Nobody ELSE gsLock
           ELSE IF tpc \in {"command", "cancelfinish", "cancelled"}
           THEN Holder(t, lock[CommandNow.dl])
           ELSE IF tpc = "flush" THEN Holder(t, lock[Head(queue).dl])
           ELSE IF tpc = "removing" /\ idx > 0 THEN Holder(t, lock[active[idx]])
           ELSE IF tpc = "thinking" /\ callback # << >>
           THEN Holder(t, lock[callback[1]]) ELSE Nobody
      [] t = "menu" ->
           IF gsLock = "menu" /\ callback # << >>
           THEN Holder(t, lock[callback[1]]) ELSE Nobody

\* No set of threads waits for each other's locks: m_Lock, m_RecursiveLock
\* and the lock of the HTTP library are never taken in a cycle, which is why
\* RequestStop and CancelDownload drop m_Lock before their calls.
NoDeadlock ==
    ~\E S \in (SUBSET Threads) \ {{}} : \A t \in S : WaitsFor(t) \in S

-------------------------------------------------------------------------------
(* What the caller observes *)

\* m_Request tells whether the HTTP library has the connection: a finished
\* download is never left marked as running, nor a running one as finished.
RequestMatchesConnection ==
    \A d \in Downloaders :
        /\ request[d] => conn[d] \/ CommandOn(d, {"cancelfinish"})
        /\ conn[d] => request[d] \/ CommandOn(d, {"registering"})
        /\ request[d] => Listed(d) > 0

\* What StartSyncDownload and ActualizeFiles rely on: once a start was
\* accepted and IsBusy is false, IsSuccessful means the file is on disk and
\* unpacked.
SuccessMeansComplete ==
    \A d \in Downloaders :
        obj[d] = "live" /\ accepted[d] /\ wpc = "idle" /\ ~IsBusy(d)
          /\ status[d] = "DOWNLOAD_SUCCESS" => file[d] = "ready"

\* How far the caller sees the object: not created, deleted, busy or idle.
ServicePhase(d) ==
    CASE obj[d] = "unborn" -> "none"
      [] obj[d] = "freed"  -> "gone"
      [] OTHER -> IF IsBusy(d) THEN "busy" ELSE "idle"

\* Together: the threads, locks and callbacks implement the simple service
\* that the callers see.  The result and the file of an idle object do not
\* change either.
Service == INSTANCE DownloadService WITH
    phase <- [d \in Downloaders |-> ServicePhase(d)],
    started <- accepted,
    result <- status,
    complete <- [d \in Downloaders |-> file[d] = "ready"]

ImplementsService == Service!Spec

-------------------------------------------------------------------------------
(* The inductive invariant *)

\* Where the DL thread holds m_RecursiveLock; where the worker is inside a call
\* on the object wdl; where the DL thread holds an object's m_Lock.
HoldsRecLock == CommandSteps \cup
                {"flush", "removing", "process", "thinking", "evaluate"}
InCall == {"adding", "stopping", "queueing", "releasing", "deleting"}
HoldsLock == {"requesting", "registering"}

\* Each lock is held exactly between its Lock and its Unlock, and a command
\* in progress is of the kind its step handles.
LockInv ==
    /\ recLock = "worker" <=> wpc = "queueing"
    /\ recLock = "dl" <=> tpc \in HoldsRecLock
    /\ recLock # "menu"
    /\ gsLock = "dl" <=> tpc = "thinking"
    /\ callback # << >> => gsLock # Nobody
    /\ wpc \in InCall => wdl \in Downloaders
    /\ threadActive <=> tpc # "done"
    /\ tpc \in HoldsLock => CommandNow.cmd = "Add"
    /\ tpc \in CancelSteps => CommandNow.cmd = "Stop"
    /\ \A d \in Downloaders :
          /\ lock[d] = "worker" <=> WorkerCallOn(d, {"adding"})
          /\ lock[d] = "dl" <=> CommandOn(d, HoldsLock)
          /\ lock[d] # "menu"

\* The count is the number of holders, and an object is given to the DL thread
\* at most once: in the call, the queue, the list, or lost by a refusal.
AccountInv(d) ==
    /\ acquires[d] = Holders(d) + Count(refused[d])
    /\ Assignments(d) + Count(refused[d]) <= 1

\* m_Request, the connection, the callback in delivery and the unpacker agree
\* on how far the transfer is.
NetInv(d) ==
    /\ request[d] => conn[d] \/ CommandOn(d, {"cancelfinish"})
    /\ conn[d] => request[d] \/ CommandOn(d, {"registering"})
    /\ request[d] => Listed(d) > 0
    /\ callback # << >> => (callback[1] = d => conn[d])
    /\ CommandOn(d, {"registering"}) => conn[d]
    /\ CommandOn(d, {"cancelfinish"}) => ~conn[d]
    /\ unpacker[d] # "none" => /\ ~conn[d] /\ PendingAdds(d) = 0
                              /\ ~WorkerCallOn(d, {"adding"})

\* An object nobody may use has no holder, and calls are made on live objects.
LifeInv(d) ==
    /\ obj[d] # "live" => Holders(d) = 0
    /\ WorkerCallOn(d, InCall) => obj[d] = "live"
    /\ wpc \in {"joining", "done"} => obj[d] # "live"

ObjectInv(d) == AccountInv(d) /\ NetInv(d) /\ LifeInv(d)

\* The invariant the safety theorems are proved from: types, locks, and for
\* every object its count, its transfer and its life.
IInv == TypeOK /\ LockInv /\ \A d \in Downloaders : ObjectInv(d)

\* Where a download that was accepted, and has not failed, still has to go
\* before its file is complete.
Underway(d) ==
    \/ PendingAdds(d) > 0 \/ conn[d] \/ CommandOn(d, {"cancelfinish"})
    \/ refused[d] \/ unpacker[d] = "unpacking"

\* The result: while StartAsyncDownload is on its way to the queue nothing else
\* holds the object, a refused object is never deleted, without the library no
\* start is accepted, and a success is the file or still underway.
ResultInv(d) ==
    /\ WorkerCallOn(d, {"adding"}) => acquires[d] = 1
    /\ refused[d] => obj[d] = "live"
    /\ ~good => ~accepted[d]
    /\ accepted[d] /\ status[d] = "DOWNLOAD_SUCCESS"
          => file[d] = "ready" \/ Underway(d)

\* IInv with the results and the end of the thread: what the properties seen
\* by the caller, the deadlock freedom and the refinement are proved from.
FullInv ==
    /\ IInv
    /\ wpc = "done" => tpc = "done"
    /\ \A d \in Downloaders : ResultInv(d)

-------------------------------------------------------------------------------
(* Liveness *)

\* The HTTP library ends every transfer, with success or an error.
TransferEnds(d) ==
    \E kind \in {"DOWNLOAD_SUCCESS", "DOWNLOAD_ERROR"} : CallbackDue(d, kind)

\* No thread starves on a lock it asks for again and again (the holders sleep
\* between rounds), and a Think that has nothing more to deliver returns.
\* The worker's choice of its next call is not fair, nor is the menu thread.
Fairness ==
    /\ SF_vars(WorkerCall) /\ SF_vars(DLThreadNext)
    /\ WF_vars(ProgressCallback \/ FinishCallback) /\ SF_vars(ThinkReturns)
    /\ \A d \in Downloaders : SF_vars(TransferEnds(d)) /\ WF_vars(UnpackerNext(d))

FairSpec == Spec /\ Fairness

\* Deleting an object returns, unless its request was refused: the busy wait
\* of the destructor ends although commands, list and unpacker hold it.
DeleteReturns ==
    \A d \in Downloaders :
        wpc = "deleting" /\ wdl = d ~> obj[d] = "freed" \/ refused[d]

\* Deleting the thread returns.
JoinReturns == wpc = "joining" ~> wpc = "done"

-------------------------------------------------------------------------------
(* Statements of the source that the code does not keep *)

\* HttpDownloader.cpp:660: the Acquire of StartAsyncDownload shows that the
\* object is assigned to the thread, which releases it before taking it off
\* the list.  So an acquired object always has a holder that will release it.
AcquiredMeansAssigned ==
    \A d \in Downloaders : acquires[d] > 0 => Holders(d) > 0
===============================================================================
