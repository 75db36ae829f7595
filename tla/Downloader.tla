------------------------------ MODULE Downloader ------------------------------
(***************************************************************************)
(* The downloader of HttpDownloader.cpp/.h: FZFileDownloader objects, the  *)
(* FZGameSpyDownloaderThread that runs their commands, its command queue,  *)
(* and the threads that meet in them:                                      *)
(*   "worker"  the loader's thread, the only caller of the public methods  *)
(*             (FileManager.cpp, ModLoader.cpp);                           *)
(*   "dl"      DownloaderThreadBody;                                       *)
(*   "menu"    the game's main-menu thread, which also runs the HTTP       *)
(*             library's Think and hence the callbacks (comment at         *)
(*             HttpDownloader.cpp:532);                                    *)
(*   one unpacker thread per finished compressed download.                 *)
(*                                                                         *)
(* Each step ends where the thread may have to wait for a lock.  Byte      *)
(* counts, names and logging are left out.  Bounds: MaxStarts, MaxStops.   *)
(***************************************************************************)
EXTENDS Occurrences

CONSTANTS Downloaders,  \* the FZFileDownloader objects
          Compressed,   \* those with m_CompressionType # 0
          MaxStarts,    \* bound: StartAsyncDownload calls per object
          MaxStops      \* bound: RequestStop calls in all

ASSUME DownloaderAssumption ==
    /\ IsFiniteSet(Downloaders)
    /\ Compressed \subseteq Downloaders
    /\ MaxStarts \in Nat /\ MaxStops \in Nat

Threads == {"worker", "dl", "menu"}
Nobody  == "nobody"
Owners  == Threads \cup {Nobody}

VARIABLES
    obj,        \* life of the C++ object: "unborn", "live", "freed"
    acquires,   \* m_AcquiresCount
    request,    \* m_Request # GHTTPRequestError
    status,     \* m_Status
    lock,       \* owner of m_Lock (recursive)
    recLock,    \* owner of the thread's m_RecursiveLock (recursive)
    queue,      \* m_CommandsQueue: records [cmd, dl]
    active,     \* m_Downloaders
    good,       \* m_bGood
    needTerminate, threadActive,    \* m_bNeedTerminate, m_bThreadActive
    wpc, wdl,   \* worker: where it is, and the object of its call (or Nobody)
    tpc, idx,   \* dl thread: where it is, and its loop index (1-based)
    gsLock,     \* owner of the HTTP library's internal lock
    conn,       \* connections open in the HTTP library, by their param
    callback,   \* the callback Think is delivering: << >> or <<d, kind>>
    unpacker,   \* unpacker thread of d: "none", "unpacking", "releasing"
    starts, stops,      \* calls made so far (bounded)
    accepted,   \* history: the last StartAsyncDownload returned true
    refused,    \* history: the HTTP library refused the last request
    file        \* history: "absent", "partial", "packed", "ready" on disk

object  == <<obj, acquires, request, status>>
thread  == <<queue, active, needTerminate, threadActive>>
library == <<gsLock, conn, callback>>
history == <<starts, stops, accepted, refused, file>>
vars == <<object, lock, recLock, thread, good, wpc, wdl, tpc, idx, library,
          unpacker, history>>

Commands == [cmd : {"Add", "Stop"}, dl : Downloaders]

-------------------------------------------------------------------------------
(* Operators *)

IsDownloading(d) == request[d]

\* IsBusy takes m_Lock; m_AcquiresCount is read together with m_Request.
IsBusy(d) == acquires[d] > 0 \/ IsDownloading(d)

\* Thread t can take m_Lock of d now (std::recursive_mutex).
CanLock(t, d) == lock[d] \in {Nobody, t}
CanLockThread(t) == recLock \in {Nobody, t}

\* FindDownloader runs "for (int i = size - 1; i > 0; i--)": the first
\* element is never compared.  0 stands for the result -1.
FindDownloader(d) ==
    IF \E i \in 2..Len(active) : active[i] = d
    THEN CHOOSE i \in 2..Len(active) :
            active[i] = d /\ \A j \in (i + 1)..Len(active) : active[j] # d
    ELSE 0

\* Mutant: the last element is dropped without being moved to place i.
DropLast(s, i) == SubSeq(s, 1, Len(s) - 1)

\* m_Downloaders[i] = m_Downloaders[last]; resize(last)
SwapRemove(s, i) == SubSeq([s EXCEPT ![i] = s[Len(s)]], 1, Len(s) - 1)

\* Acquire and Release log the file name under m_Lock before or after the
\* interlocked update: callers need CanLock.
Acquire(d) == acquires' = [acquires EXCEPT ![d] = @ + 1]
Release(d) == acquires' = [acquires EXCEPT ![d] = @ - 1]

Init ==
    /\ obj = [d \in Downloaders |-> "unborn"]
    /\ acquires = [d \in Downloaders |-> 0]
    /\ request = [d \in Downloaders |-> FALSE]
    /\ status = [d \in Downloaders |-> "DOWNLOAD_SUCCESS"]
    /\ lock = [d \in Downloaders |-> Nobody]
    /\ recLock = Nobody /\ gsLock = Nobody
    /\ queue = << >> /\ active = << >>
    /\ good \in BOOLEAN
    /\ needTerminate = FALSE /\ threadActive = TRUE
    /\ wpc = "idle" /\ wdl = Nobody
    /\ tpc = "commands" /\ idx = 0
    /\ conn = [d \in Downloaders |-> FALSE]
    /\ callback = << >>
    /\ unpacker = [d \in Downloaders |-> "none"]
    /\ starts = [d \in Downloaders |-> 0]
    /\ stops = 0
    /\ accepted = [d \in Downloaders |-> FALSE]
    /\ refused = [d \in Downloaders |-> FALSE]
    /\ file = [d \in Downloaders |-> "absent"]

-------------------------------------------------------------------------------
(* The worker thread: the public methods *)

CreateDownloader(d) ==
    /\ wpc = "idle" /\ obj[d] = "unborn"
    /\ obj' = [obj EXCEPT ![d] = "live"]
    /\ UNCHANGED <<acquires, request, status, lock, recLock, thread, good,
                   wpc, wdl, tpc, idx, library, unpacker, history>>

\* Takes m_Lock, finds the object idle and acquires it for the thread.  A
\* busy object is refused with no effect.
StartAsyncDownload(d) ==
    /\ wpc = "idle" /\ obj[d] = "live" /\ starts[d] < MaxStarts
    /\ CanLock("worker", d) /\ ~IsBusy(d)
    /\ lock' = [lock EXCEPT ![d] = "worker"]
    /\ Acquire(d)
    /\ wpc' = "adding" /\ wdl' = d
    /\ starts' = [starts EXCEPT ![d] = @ + 1]
    /\ UNCHANGED <<obj, request, status, recLock, thread, good, tpc, idx,
                   library, unpacker, stops, accepted, refused, file>>

\* AddCommand and Add inside StartAsyncDownload (m_Lock still held), then
\* Unlock.
StartAccepted ==
    /\ wpc = "adding" /\ CanLockThread("worker") /\ good
    /\ queue' = Append(queue, [cmd |-> "Add", dl |-> wdl])
    /\ Acquire(wdl)
    /\ lock' = [lock EXCEPT ![wdl] = Nobody]
    /\ accepted' = [accepted EXCEPT ![wdl] = TRUE]
    /\ wpc' = "idle" /\ wdl' = Nobody
    /\ UNCHANGED <<obj, request, status, recLock, active, needTerminate,
                   threadActive, good, tpc, idx, library, unpacker,
                   starts, stops, refused, file>>

\* AddCommand returns false when the library could not be loaded; the
\* acquisition is given back.
StartRefused ==
    /\ wpc = "adding" /\ CanLockThread("worker") /\ ~good
    /\ Release(wdl)
    /\ lock' = [lock EXCEPT ![wdl] = Nobody]
    /\ accepted' = [accepted EXCEPT ![wdl] = FALSE]
    /\ wpc' = "idle" /\ wdl' = Nobody
    /\ UNCHANGED <<obj, request, status, recLock, thread, good, tpc, idx,
                   library, unpacker, starts, stops, refused, file>>

\* Mutant: m_Lock is kept across AddCommand.
RequestStopLocked(d) ==
    /\ wpc = "idle" /\ obj[d] = "live" /\ stops < MaxStops
    /\ CanLock("worker", d)
    /\ Acquire(d)
    /\ lock' = [lock EXCEPT ![d] = "worker"]
    /\ stops' = stops + 1
    /\ wpc' = "stopping" /\ wdl' = d
    /\ UNCHANGED <<obj, request, status, recLock, thread, good, tpc, idx,
                   library, unpacker, starts, accepted, refused, file>>

\* RequestStop: Lock, Acquire, Unlock - the lock is dropped before AddCommand.
RequestStop(d) ==
    /\ wpc = "idle" /\ obj[d] = "live" /\ stops < MaxStops
    /\ CanLock("worker", d)
    /\ Acquire(d)
    /\ stops' = stops + 1
    /\ wpc' = "stopping" /\ wdl' = d
    /\ UNCHANGED <<obj, request, status, lock, recLock, thread, good, tpc, idx,
                   library, unpacker, starts, accepted, refused, file>>

\* AddCommand takes m_RecursiveLock and goes on to Add when m_bGood.
StopEntersQueue ==
    /\ wpc = "stopping" /\ CanLockThread("worker")
    /\ IF good THEN recLock' = "worker" /\ wpc' = "queueing"
               ELSE wpc' = "releasing" /\ UNCHANGED recLock
    /\ UNCHANGED <<object, lock, thread, good, wdl, tpc, idx, library,
                   unpacker, history>>

\* FZDownloaderThreadInfoQueue::Add under both locks.
StopQueued ==
    /\ wpc = "queueing" /\ CanLock("worker", wdl)
    /\ queue' = Append(queue, [cmd |-> "Stop", dl |-> wdl])
    /\ Acquire(wdl)
    /\ lock' = [lock EXCEPT ![wdl] = Nobody]
    /\ recLock' = Nobody
    /\ wpc' = "releasing"
    /\ UNCHANGED <<obj, request, status, active, needTerminate, threadActive,
                   good, wdl, tpc, idx, library, unpacker, history>>

StopReturns ==
    /\ wpc = "releasing" /\ CanLock("worker", wdl)
    /\ Release(wdl)
    /\ wpc' = "idle" /\ wdl' = Nobody
    /\ UNCHANGED <<obj, request, status, lock, recLock, thread, good, tpc,
                   idx, library, unpacker, history>>

\* delete downloader: the destructor polls IsBusy until it is false.
DeleteDownloader(d) ==
    /\ wpc = "idle" /\ obj[d] = "live"
    /\ wpc' = "deleting" /\ wdl' = d
    /\ UNCHANGED <<object, lock, recLock, thread, good, tpc, idx, library,
                   unpacker, history>>

DownloaderDeleted ==
    /\ wpc = "deleting" /\ CanLock("worker", wdl) /\ ~IsBusy(wdl)
    /\ obj' = [obj EXCEPT ![wdl] = "freed"]
    /\ wpc' = "idle" /\ wdl' = Nobody
    /\ UNCHANGED <<acquires, request, status, lock, recLock, thread, good,
                   tpc, idx, library, unpacker, history>>

\* delete thread, after every downloader was deleted.
DeleteThread ==
    /\ wpc = "idle" /\ \A d \in Downloaders : obj[d] # "live"
    /\ CanLockThread("worker")
    /\ needTerminate' = TRUE
    /\ wpc' = "joining"
    /\ UNCHANGED <<object, lock, recLock, queue, active, threadActive, good,
                   wdl, tpc, idx, library, unpacker, history>>

\* Mutant: the termination request is taken for the termination.
TerminationRequested == needTerminate

\* WaitForThreadTermination polls m_bThreadActive under m_RecursiveLock.
ThreadTerminated == ~threadActive

\* The wait is over; the queue's destructor
\* flushes what is left in it.
ThreadDeleted ==
    /\ wpc = "joining" /\ CanLockThread("worker") /\ ThreadTerminated
    /\ acquires' = [d \in Downloaders |->
          acquires[d] - Occur(queue, [cmd : {"Add", "Stop"}, dl : {d}])]
    /\ queue' = << >>
    /\ wpc' = "done"
    /\ UNCHANGED <<obj, request, status, lock, recLock, active, needTerminate,
                   threadActive, good, wdl, tpc, idx, library, unpacker,
                   history>>

WorkerCall ==   \* the steps of a call in progress
    \/ StartAccepted \/ StartRefused
    \/ StopEntersQueue \/ StopQueued \/ StopReturns
    \/ DownloaderDeleted \/ ThreadDeleted

WorkerNext ==
    \/ \E d \in Downloaders :
          \/ CreateDownloader(d) \/ StartAsyncDownload(d)
          \/ RequestStop(d) \/ DeleteDownloader(d)
    \/ DeleteThread
    \/ WorkerCall

-------------------------------------------------------------------------------
(* The DL thread: DownloaderThreadBody *)

CommandNow == queue[idx]

\* ProcessCommands takes m_RecursiveLock; with an empty queue it leaves at once.
ProcessCommands ==
    /\ tpc = "commands" /\ CanLockThread("dl")
    /\ IF queue # << >> THEN recLock' = "dl" /\ tpc' = "command" /\ idx' = 1
                        ELSE tpc' = "scan" /\ UNCHANGED <<recLock, idx>>
    /\ UNCHANGED <<object, lock, thread, good, wpc, wdl, library, unpacker,
                   history>>

\* Mutant: the loop stops one command early.
CommandDoneEarly ==
    IF idx + 1 < Len(queue) THEN tpc' = "command" /\ idx' = idx + 1
                            ELSE tpc' = "flush" /\ UNCHANGED idx

\* Mutant: the loop runs one command too far.
CommandDoneLate ==
    IF idx <= Len(queue) THEN tpc' = "command" /\ idx' = idx + 1
                         ELSE tpc' = "flush" /\ UNCHANGED idx

\* The "for" of ProcessCommands goes to the next command, or to the flush.
CommandDone ==
    IF idx < Len(queue) THEN tpc' = "command" /\ idx' = idx + 1
                        ELSE tpc' = "flush" /\ UNCHANGED idx

\* Mutant: StartDownload does not hold m_Lock while it starts the request.
StartDownloadUnlocked ==
    /\ tpc = "command" /\ CommandNow.cmd = "Add"
    /\ FindDownloader(CommandNow.dl) = 0
    /\ tpc' = "requesting"
    /\ UNCHANGED <<object, lock, recLock, thread, good, wpc, wdl, idx, library,
                   unpacker, history>>

\* StartDownload: m_Lock is held across the request.
StartDownload ==
    /\ tpc = "command" /\ CommandNow.cmd = "Add"
    /\ CanLock("dl", CommandNow.dl)
    /\ IF FindDownloader(CommandNow.dl) = 0
       THEN /\ lock' = [lock EXCEPT ![CommandNow.dl] = "dl"]
            /\ tpc' = "requesting" /\ UNCHANGED idx
       ELSE CommandDone /\ UNCHANGED lock
    /\ UNCHANGED <<object, recLock, thread, good, wpc, wdl, library, unpacker,
                   history>>

\* ghttpSaveEx opens the file and the connection ...
SaveExStarts ==
    LET d == CommandNow.dl IN
    /\ tpc = "requesting" /\ gsLock = Nobody
    /\ conn' = [conn EXCEPT ![d] = TRUE]
    /\ file' = [file EXCEPT ![d] = "partial"]
    /\ tpc' = "registering"
    /\ UNCHANGED <<object, lock, recLock, thread, good, wpc, wdl, idx, gsLock,
                   callback, unpacker, starts, stops, accepted, refused>>

\* ... and StartDownload puts the object on the list and sets m_Request.
DownloadRegistered ==
    LET d == CommandNow.dl IN
    /\ tpc = "registering"
    /\ active' = Append(active, d)
    /\ request' = [request EXCEPT ![d] = TRUE]
    /\ lock' = [lock EXCEPT ![d] = Nobody]
    /\ CommandDone
    /\ UNCHANGED <<obj, acquires, status, recLock, queue, needTerminate,
                   threadActive, good, wpc, wdl, library, unpacker, history>>

\* ghttpSaveEx returned GHTTPRequestError: only m_Request is written.
SaveExFails ==
    LET d == CommandNow.dl IN
    /\ tpc = "requesting" /\ gsLock = Nobody
    /\ request' = [request EXCEPT ![d] = FALSE]
    /\ refused' = [refused EXCEPT ![d] = TRUE]
    /\ lock' = [lock EXCEPT ![d] = Nobody]
    /\ CommandDone
    /\ UNCHANGED <<obj, acquires, status, recLock, thread, good, wpc, wdl,
                   library, unpacker, starts, stops, accepted, file>>

\* CancelDownload reads m_Request and acquires under m_Lock, then unlocks; for
\* an object that is not found m_Lock is still taken, by GetFilename for the log.
CancelDownload ==
    LET d == CommandNow.dl IN
    /\ tpc = "command" /\ CommandNow.cmd = "Stop"
    /\ CanLock("dl", d)
    /\ IF FindDownloader(d) # 0
       THEN /\ Acquire(d)
            /\ tpc' = IF request[d] THEN "cancelling" ELSE "cancelled"
            /\ UNCHANGED idx
       ELSE CommandDone /\ UNCHANGED acquires
    /\ UNCHANGED <<obj, request, status, lock, recLock, thread, good, wpc, wdl,
                   library, unpacker, history>>

\* ghttpCancelRequest: no effect when the connection is already closed.
CancelRequest ==
    /\ tpc = "cancelling" /\ gsLock = Nobody
    /\ conn' = [conn EXCEPT ![CommandNow.dl] = FALSE]
    /\ tpc' = "cancelfinish"
    /\ UNCHANGED <<object, lock, recLock, thread, good, wpc, wdl, idx, gsLock,
                   callback, unpacker, history>>

\* Mutant: the unpacker thread gets the object without acquiring it.
OnDownloadFinishedUnacquired(d, result) ==
    /\ request' = [request EXCEPT ![d] = FALSE]
    /\ status' = [status EXCEPT ![d] = result]
    /\ IF result = "DOWNLOAD_SUCCESS" /\ d \in Compressed
       THEN unpacker' = [unpacker EXCEPT ![d] = "unpacking"]
       ELSE UNCHANGED unpacker
    /\ UNCHANGED acquires

\* OnGamespyDownloadFinished and OnDownloadFinished under m_Lock.
OnDownloadFinished(d, result) ==
    /\ request' = [request EXCEPT ![d] = FALSE]
    /\ status' = [status EXCEPT ![d] = result]
    /\ IF result = "DOWNLOAD_SUCCESS" /\ d \in Compressed
       THEN Acquire(d) /\ unpacker' = [unpacker EXCEPT ![d] = "unpacking"]
       ELSE UNCHANGED <<acquires, unpacker>>

CancelFinishes ==
    /\ tpc = "cancelfinish" /\ CanLock("dl", CommandNow.dl)
    /\ OnDownloadFinished(CommandNow.dl, "DOWNLOAD_ERROR")
    /\ tpc' = "cancelled"
    /\ UNCHANGED <<obj, lock, recLock, thread, good, wpc, wdl, idx, library,
                   history>>

CancelReleases ==
    /\ tpc = "cancelled" /\ CanLock("dl", CommandNow.dl)
    /\ Release(CommandNow.dl)
    /\ CommandDone
    /\ UNCHANGED <<obj, request, status, lock, recLock, thread, good, wpc, wdl,
                   library, unpacker, history>>

\* Flush releases the commands one by one; the entries already released are
\* not read again, so each leaves the queue with its release.
Flush ==
    /\ tpc = "flush" /\ CanLock("dl", Head(queue).dl)
    /\ Release(Head(queue).dl)
    /\ queue' = Tail(queue)
    /\ IF Len(queue) = 1 THEN recLock' = Nobody /\ tpc' = "scan"
                         ELSE UNCHANGED <<recLock, tpc>>
    /\ UNCHANGED <<obj, request, status, lock, active, needTerminate,
                   threadActive, good, wpc, wdl, idx, library, unpacker,
                   history>>

Scan ==
    /\ tpc = "scan" /\ CanLockThread("dl")
    /\ recLock' = "dl" /\ tpc' = "removing" /\ idx' = Len(active)
    /\ UNCHANGED <<object, lock, thread, good, wpc, wdl, library, unpacker,
                   history>>

\* One iteration of the removal loop, downwards.
RemoveFinished ==
    /\ tpc = "removing" /\ idx > 0 /\ CanLock("dl", active[idx])
    /\ IF IsDownloading(active[idx])
       THEN UNCHANGED <<acquires, active>>
       ELSE Release(active[idx]) /\ active' = SwapRemove(active, idx)
    /\ idx' = idx - 1
    /\ UNCHANGED <<obj, request, status, lock, recLock, queue, needTerminate,
                   threadActive, good, wpc, wdl, tpc, library, unpacker,
                   history>>

RemovalDone ==
    /\ tpc = "removing" /\ idx = 0
    /\ tpc' = IF active = << >> THEN "evaluate" ELSE "process"
    /\ UNCHANGED <<object, lock, recLock, thread, good, wpc, wdl, idx, library,
                   unpacker, history>>

\* Mutant: m_RecursiveLock is not released.
EvaluateKeepsLock ==
    /\ tpc = "evaluate"
    /\ tpc' = IF needTerminate /\ active = << >> THEN "exit" ELSE "commands"
    /\ UNCHANGED <<object, lock, recLock, thread, good, wpc, wdl, idx, library,
                   unpacker, history>>

\* needStop is computed before m_RecursiveLock is released.
Evaluate ==
    /\ tpc = "evaluate"
    /\ recLock' = Nobody
    /\ tpc' = IF needTerminate /\ active = << >> THEN "exit" ELSE "commands"
    /\ UNCHANGED <<object, lock, thread, good, wpc, wdl, idx, library,
                   unpacker, history>>

Exit ==
    /\ tpc = "exit"
    /\ threadActive' = FALSE /\ tpc' = "done"
    /\ UNCHANGED <<object, lock, recLock, queue, active, needTerminate, good,
                   wpc, wdl, idx, library, unpacker, history>>

-------------------------------------------------------------------------------
(* The HTTP library's Think, run by the DL thread (ProcessDownloads) and by  *)
(* the game's main menu; it holds the library's lock around the callbacks.   *)

ProcessDownloads ==
    /\ tpc = "process" /\ gsLock = Nobody
    /\ gsLock' = "dl" /\ tpc' = "thinking"
    /\ UNCHANGED <<object, lock, recLock, thread, good, wpc, wdl, idx, conn,
                   callback, unpacker, history>>

MenuThinks ==
    /\ gsLock = Nobody /\ \E d \in Downloaders : conn[d]
    /\ gsLock' = "menu"
    /\ UNCHANGED <<object, lock, recLock, thread, good, wpc, wdl, tpc, idx,
                   conn, callback, unpacker, history>>

\* A finished connection is closed before the next one is looked at.
CallbackDue(d, kind) ==
    /\ gsLock # Nobody /\ callback = << >> /\ conn[d]
    /\ callback' = <<d, kind>>
    /\ UNCHANGED <<object, lock, recLock, thread, good, wpc, wdl, tpc, idx,
                   gsLock, conn, unpacker, history>>

\* OnGameSpyDownloadInProgress only writes byte counts, under m_Lock.
ProgressCallback ==
    /\ callback # << >> /\ callback[2] = "progress"
    /\ CanLock(gsLock, callback[1])
    /\ callback' = << >>
    /\ UNCHANGED <<object, lock, recLock, thread, good, wpc, wdl, tpc, idx,
                   gsLock, conn, unpacker, history>>

FinishCallback ==
    /\ callback # << >> /\ callback[2] # "progress"
    /\ CanLock(gsLock, callback[1])
    /\ OnDownloadFinished(callback[1], callback[2])
    /\ conn' = [conn EXCEPT ![callback[1]] = FALSE]
    /\ file' = [file EXCEPT ![callback[1]] =
                   IF callback[2] = "DOWNLOAD_ERROR" THEN @
                   ELSE IF callback[1] \in Compressed THEN "packed" ELSE "ready"]
    /\ callback' = << >>
    /\ UNCHANGED <<obj, lock, recLock, thread, good, wpc, wdl, tpc, idx, gsLock,
                   starts, stops, accepted, refused>>

ThinkReturns ==
    /\ gsLock # Nobody /\ callback = << >>
    /\ gsLock' = Nobody
    /\ tpc' = IF gsLock = "dl" THEN "evaluate" ELSE tpc
    /\ UNCHANGED <<object, lock, recLock, thread, good, wpc, wdl, idx, conn,
                   callback, unpacker, history>>

-------------------------------------------------------------------------------
(* UnpackerThreadBody *)

\* DecompressFile, then SetStatus(DOWNLOAD_ERROR) if it failed.
Unpack(d, ok) ==
    /\ unpacker[d] = "unpacking" /\ CanLock("unpacker", d)
    /\ IF ok THEN file' = [file EXCEPT ![d] = "ready"] /\ UNCHANGED status
             ELSE status' = [status EXCEPT ![d] = "DOWNLOAD_ERROR"]
                  /\ UNCHANGED file
    /\ unpacker' = [unpacker EXCEPT ![d] = "releasing"]
    /\ UNCHANGED <<obj, acquires, request, lock, recLock, thread, good, wpc,
                   wdl, tpc, idx, library, starts, stops, accepted, refused>>

UnpackerReleases(d) ==
    /\ unpacker[d] = "releasing" /\ CanLock("unpacker", d)
    /\ Release(d)
    /\ unpacker' = [unpacker EXCEPT ![d] = "none"]
    /\ UNCHANGED <<obj, request, status, lock, recLock, thread, good, wpc, wdl,
                   tpc, idx, library, history>>

-------------------------------------------------------------------------------

DLThreadNext ==
    \/ ProcessCommands \/ StartDownload \/ SaveExStarts \/ DownloadRegistered
    \/ SaveExFails \/ CancelDownload \/ CancelRequest \/ CancelFinishes
    \/ CancelReleases \/ Flush \/ Scan \/ RemoveFinished \/ RemovalDone
    \/ ProcessDownloads \/ Evaluate \/ Exit

ThinkNext ==
    \/ \E d \in Downloaders :
         \E kind \in {"progress", "DOWNLOAD_SUCCESS", "DOWNLOAD_ERROR"} :
            CallbackDue(d, kind)
    \/ ProgressCallback \/ FinishCallback \/ ThinkReturns

UnpackerNext(d) ==
    \/ \E ok \in BOOLEAN : Unpack(d, ok)
    \/ UnpackerReleases(d)

\* The program has ended when both threads are done: it may stop there.
Next ==
    \/ WorkerNext \/ DLThreadNext \/ MenuThinks \/ ThinkNext
    \/ \E d \in Downloaders : UnpackerNext(d)

Spec == Init /\ [][Next]_vars
===============================================================================
