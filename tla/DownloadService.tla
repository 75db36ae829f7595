--------------------------- MODULE DownloadService ----------------------------
(***************************************************************************)
(* What FileManager.cpp and ModLoader.cpp expect of a downloader, without  *)
(* threads, locks, queue or HTTP library: an object is idle or busy, work  *)
(* happens only while it is busy, only a call of its owner makes it busy,  *)
(* and when it comes to rest after an accepted start its result tells      *)
(* whether the file is complete.                                           *)
(***************************************************************************)
CONSTANT Downloaders

VARIABLES
    phase,      \* "none", "idle", "busy", "gone"
    started,    \* StartAsyncDownload was accepted
    result,     \* what IsSuccessful reads
    complete    \* the file is on disk, unpacked

vars == <<phase, started, result, complete>>

Init ==
    /\ phase = [d \in Downloaders |-> "none"]
    /\ started = [d \in Downloaders |-> FALSE]
    /\ result = [d \in Downloaders |-> "DOWNLOAD_SUCCESS"]
    /\ complete = [d \in Downloaders |-> FALSE]

Move(d, from, to) ==
    /\ phase[d] = from
    /\ phase' = [phase EXCEPT ![d] = to]
    /\ UNCHANGED <<started, result, complete>>

Create(d) == Move(d, "none", "idle")
Call(d)   == Move(d, "idle", "busy")
Delete(d) == Move(d, "idle", "gone")

Accept(d) ==
    /\ phase[d] = "busy"
    /\ started' = [started EXCEPT ![d] = TRUE]
    /\ UNCHANGED <<phase, result, complete>>

Work(d) ==
    /\ phase[d] = "busy"
    /\ \E r \in {"DOWNLOAD_SUCCESS", "DOWNLOAD_ERROR"}, c \in BOOLEAN :
          /\ result' = [result EXCEPT ![d] = r]
          /\ complete' = [complete EXCEPT ![d] = c]
    /\ UNCHANGED <<phase, started>>

Settle(d) ==
    /\ started[d] /\ result[d] = "DOWNLOAD_SUCCESS" => complete[d]
    /\ Move(d, "busy", "idle")

Next ==
    \E d \in Downloaders :
        Create(d) \/ Call(d) \/ Accept(d) \/ Work(d) \/ Settle(d) \/ Delete(d)

Spec == Init /\ [][Next]_vars
===============================================================================
