---------------------------- MODULE FileManager ----------------------------
(***************************************************************************)
(* FZFiles of FileManager.cpp as UpdateModFiles (ModLoader.cpp) uses it:   *)
(* scan the mod's directory, apply the lines of the file lists, prepare,   *)
(* and ActualizeFiles, which deletes, downloads in MaxActive parallel      *)
(* slots and verifies.  The downloads are objects of DownloadService, one  *)
(* per file; the user may cancel at any time.                              *)
(*                                                                         *)
(* The worker's steps end where a download, the user or the disk can       *)
(* interfere.  m_pCallback is DownloadCallback, which returns false once   *)
(* the user has cancelled.  Bound: MaxLines.                               *)
(***************************************************************************)
EXTENDS FileList

CONSTANTS Contents,     \* what a file on disk or on the server may hold
          Targets,      \* the checks that lines of the lists ask for
          MaxActive,    \* MAX_ACTIVE_DOWNLOADERS
          MaxLines      \* bound: lines in the file lists

NoFile == [size |-> 0, crc |-> 1]
Partial == Dummy                 \* stands for a file cut short
Free == "free"                   \* the null pointer of an empty slot

ASSUME FileManagerAssumption ==
    /\ Targets \subseteq Contents
    /\ Contents \subseteq [size : Nat \ {0}, crc : Nat]
    /\ MaxActive \in Nat \ {0} /\ MaxLines \in Nat
    /\ Free \notin Names

VARIABLES
    files,      \* m_Files
    disk,       \* content of each file: NoFile, Partial or one of Contents
    pc,         \* where the worker is
    lines,      \* lines applied so far (bounded)
    i,          \* index of the loop in progress
    slots,      \* downloaders: the file of each slot, or Free
    last,       \* lastFileIndex + 1
    finished, result,
    dlSize,     \* totalDlSize
    cancelled,  \* the user pressed cancel
    refused,    \* the files whose request the HTTP library refused
    phase, started, outcome, complete   \* the downloads (DownloadService)

downloads == <<phase, started, outcome, complete>>
lists  == <<files, lines, dlSize>>
loop   == <<pc, i, slots, last, finished, result>>
outside == <<cancelled, refused>>
vars   == <<lists, disk, loop, outside, downloads>>

Dl == INSTANCE DownloadService WITH Downloaders <- Names, result <- outcome

Init ==
    /\ disk \in [Names -> Contents \cup {NoFile}]
    /\ files = << >> /\ lines = 0 /\ dlSize = 0
    /\ pc = "scan" /\ i = 0 /\ last = 0
    /\ slots = [k \in 1..MaxActive |-> Free]
    /\ finished = FALSE /\ result = FALSE
    /\ cancelled = FALSE /\ refused = {}
    /\ Dl!Init

-------------------------------------------------------------------------------
(* Building the list *)

\* ScanPath finds every file, in the order of the file system.
ScanPath ==
    /\ pc = "scan"
    /\ \E order \in SetToSeqs({n \in Names : disk[n] # NoFile}) :
          files' = [k \in DOMAIN order |-> Found(order[k])]
    /\ pc' = "lists"
    /\ UNCHANGED <<disk, lines, dlSize, i, slots, last, finished, result,
                   outside, downloads>>

\* GetFileChecks fails for a missing file and for one it cannot open.
Checks(name, readable) ==
    IF readable /\ disk[name] \in Contents THEN ChecksOf(disk[name]) ELSE Dummy

\* A line of a file list that names a file.
ApplyFileLine(name, target, readable) ==
    /\ pc = "lists" /\ lines < MaxLines
    /\ files' = UpdateFileInfo(files, name, target, Checks(name, readable))
    /\ lines' = lines + 1
    /\ UNCHANGED <<disk, dlSize, loop, outside, downloads>>

\* A line that tells to ignore a file.
ApplyIgnoreLine(name) ==
    /\ pc = "lists" /\ lines < MaxLines
    /\ files' = AddIgnoredFile(files, name)
    /\ lines' = lines + 1
    /\ UNCHANGED <<disk, dlSize, loop, outside, downloads>>

\* The lists are complete: PreprocessFiles, SortBySize, ActualizeFiles.
Prepare ==
    /\ pc = "lists"
    /\ files' = SortBySize(PreprocessFiles(files))
    /\ pc' = "classify" /\ i' = 1
    /\ UNCHANGED <<disk, lines, dlSize, slots, last, finished, result,
                   outside, downloads>>

-------------------------------------------------------------------------------
(* ActualizeFiles: the first loop *)

Action(k) == files[k].action

Classifying(action) ==
    /\ pc = "classify" /\ i <= Len(files) /\ Action(i) = action
    /\ UNCHANGED <<lines, slots, last, finished, outside, downloads>>

\* The entry is erased, and "i++" then steps over the one that took its place.
DeleteUnlisted ==
    /\ Classifying("UNDEFINED")
    /\ disk' = [disk EXCEPT ![files[i].name] = NoFile]
    /\ files' = RemoveAt(files, i)
    /\ i' = i + 1
    /\ UNCHANGED <<dlSize, pc, result>>

\* The target's size is counted; ForceDirectories makes the directory.
CountDownload ==
    /\ Classifying("DOWNLOAD")
    /\ dlSize' = dlSize + files[i].target.size
    /\ i' = i + 1
    /\ UNCHANGED <<disk, files, pc, result>>

PassEntry ==
    /\ Classifying("NO") \/ Classifying("IGNORE")
    /\ i' = i + 1
    /\ UNCHANGED <<disk, files, dlSize, pc, result>>

\* DeleteFile or ForceDirectories failed: "return false".
ClassifyFails ==
    /\ Classifying("UNDEFINED") \/ Classifying("DOWNLOAD")
    /\ result' = FALSE /\ pc' = "done"
    /\ UNCHANGED <<disk, files, dlSize, i>>

CallbackResult == ~cancelled

\* FZ_ACTUALIZING_BEGIN, then the thread and the empty slots.
BeginDownloads ==
    /\ pc = "classify" /\ i > Len(files)
    /\ result' = CallbackResult
    /\ last' = Len(files)
    /\ finished' = FALSE
    /\ pc' = "round"
    /\ UNCHANGED <<lists, disk, i, slots, outside, downloads>>

-------------------------------------------------------------------------------
(* ActualizeFiles: the slots *)

\* Mutant: finished is not assumed at the start of a round.
RoundKeepsFlag ==
    /\ pc = "round"
    /\ pc' = IF finished \/ ~result THEN "stop" ELSE "slot"
    /\ i' = 1
    /\ UNCHANGED <<lists, disk, slots, last, finished, result, outside, downloads>>

\* Mutant: a cancel returns from the function instead of leaving the loop.
RoundReturns ==
    /\ pc = "round"
    /\ pc' = IF ~result THEN "done" ELSE IF finished THEN "stop" ELSE "slot"
    /\ finished' = TRUE /\ i' = 1
    /\ UNCHANGED <<lists, disk, slots, last, result, outside, downloads>>

\* The head of "while (!finished)".
Round ==
    /\ pc = "round"
    /\ IF finished \/ ~result
       THEN pc' = "stop" /\ UNCHANGED finished
       ELSE pc' = "slot" /\ finished' = TRUE
    /\ i' = 1
    /\ UNCHANGED <<lists, disk, slots, last, result, outside, downloads>>

\* The next file to download, looking downwards from lastFileIndex.
NextDownload ==
    SelectLastInSubSeq(files, 1, last, LAMBDA e : e.action = "DOWNLOAD")

AtSlot == pc = "slot" /\ i <= MaxActive

\* A free slot takes the next file: CreateDownloader ...
FillSlot ==
    LET k == NextDownload IN
    /\ AtSlot /\ slots[i] = Free /\ k # 0
    /\ last' = k - 1
    /\ finished' = FALSE
    /\ slots' = [slots EXCEPT ![i] = files[k].name]
    /\ Dl!Create(files[k].name)
    /\ pc' = "start"
    /\ UNCHANGED <<lists, disk, i, result, outside>>

\* ... and StartAsyncDownload: the object becomes busy ...
StartDownload ==
    /\ pc = "start" /\ Dl!Call(slots[i])
    /\ pc' = "starting"
    /\ UNCHANGED <<lists, disk, i, slots, last, finished, result, outside>>

\* ... and the start is accepted or refused.
StartAccepted ==
    LET k == Find(files, slots[i]) IN
    /\ pc = "starting" /\ Dl!Accept(slots[i])
    /\ files' = [files EXCEPT ![k].action = "VERIFY"]
    /\ result' = TRUE
    /\ pc' = "slot" /\ i' = i + 1
    /\ UNCHANGED <<lines, dlSize, disk, slots, last, finished, outside>>

StartRefused ==
    /\ pc = "starting" /\ Dl!Settle(slots[i])
    /\ result' = FALSE
    /\ pc' = "slot" /\ i' = i + 1
    /\ UNCHANGED <<lists, disk, slots, last, finished, outside>>

\* No file is left for this slot.
EmptySlot ==
    /\ AtSlot /\ slots[i] = Free /\ NextDownload = 0
    /\ last' = 0
    /\ i' = i + 1
    /\ UNCHANGED <<lists, disk, pc, slots, finished, result, outside,
                   downloads>>

BusySlot ==
    /\ AtSlot /\ slots[i] # Free /\ phase[slots[i]] = "busy"
    /\ finished' = FALSE
    /\ i' = i + 1
    /\ UNCHANGED <<lists, disk, pc, slots, last, result, outside, downloads>>

\* Mutant: the flag is not reset when a slot becomes free.
FinishedAfterFree == UNCHANGED finished

\* "There may be more files in the queue": another round.
FinishedStaysFalse == finished' = FALSE

\* The download ended: its result is read and the object deleted.
FreeSlot ==
    /\ AtSlot /\ slots[i] # Free /\ phase[slots[i]] = "idle"
    /\ result' = (outcome[slots[i]] = "DOWNLOAD_SUCCESS")
    /\ Dl!Delete(slots[i])
    /\ slots' = [slots EXCEPT ![i] = Free]
    /\ FinishedStaysFalse
    /\ i' = i + 1
    /\ UNCHANGED <<lists, disk, pc, last, outside>>

\* The progress callback; its answer replaces the result of the slots.
RoundEnds ==
    /\ pc = "slot" /\ i > MaxActive
    /\ result' = CallbackResult
    /\ pc' = "round"
    /\ UNCHANGED <<lists, disk, i, slots, last, finished, outside, downloads>>

-------------------------------------------------------------------------------
(* ActualizeFiles: stopping and verifying *)

\* RequestStop for every slot in use.
StopSlot ==
    /\ pc = "stop" /\ i <= MaxActive
    /\ IF slots[i] = Free \/ phase[slots[i]] = "busy"
       THEN UNCHANGED downloads ELSE Dl!Call(slots[i])
    /\ i' = i + 1
    /\ UNCHANGED <<lists, disk, pc, slots, last, finished, result, outside>>

StopsRequested ==
    /\ pc = "stop" /\ i > MaxActive
    /\ pc' = "delete" /\ i' = 1
    /\ UNCHANGED <<lists, disk, slots, last, finished, result, outside,
                   downloads>>

\* "delete loader" waits until the object is idle.
DeleteSlot ==
    /\ pc = "delete" /\ i <= MaxActive
    /\ IF slots[i] = Free THEN UNCHANGED downloads ELSE Dl!Delete(slots[i])
    /\ slots' = [slots EXCEPT ![i] = Free]
    /\ i' = i + 1
    /\ UNCHANGED <<lists, disk, pc, last, finished, result, outside>>

\* Mutant: with nothing to verify the last callback is left out.
DownloadsEndSilently ==
    /\ pc = "delete" /\ i > MaxActive
    /\ pc' = IF result /\ dlSize > 0 THEN "verify" ELSE "done"
    /\ UNCHANGED <<lists, disk, i, slots, last, finished, result, outside,
                   downloads>>

\* "delete thread".  Without anything counted there is nothing to verify; a
\* cancelled run ends here.
DownloadsEnd ==
    /\ pc = "delete" /\ i > MaxActive
    /\ pc' = IF ~result THEN "done" ELSE IF dlSize > 0 THEN "verify" ELSE "end"
    /\ UNCHANGED <<lists, disk, i, slots, last, finished, result, outside,
                   downloads>>

\* FZ_ACTUALIZING_VERIFYING_START
VerifyStarts ==
    /\ pc = "verify"
    /\ result' = CallbackResult
    /\ pc' = "verifying" /\ i' = 1
    /\ UNCHANGED <<lists, disk, slots, last, finished, outside, downloads>>

Verifying == pc = "verifying" /\ i <= Len(files) /\ result

\* The file has been downloaded, can be read, and is as listed.
Synchronized(e, readable) ==
    /\ readable /\ disk[e.name] # NoFile
    /\ CompareFiles(ChecksOf(disk[e.name]), e.target)

VerifyNext(ok) ==
    /\ result' = ok
    /\ i' = i + 1
    /\ UNCHANGED <<lines, dlSize, disk, pc, slots, last, finished, outside,
                   downloads>>

\* The callback decides whether verification goes on to the next entry.
VerifyPasses(readable) ==
    /\ Verifying /\ Action(i) = "VERIFY" /\ Synchronized(files[i], readable)
    /\ files' = [files EXCEPT ![i].real = ChecksOf(disk[files[i].name])]
    /\ VerifyNext(CallbackResult)

NothingToVerify ==
    /\ Verifying /\ Action(i) \in {"NO", "IGNORE", "UNDEFINED"}
    /\ UNCHANGED files
    /\ VerifyNext(CallbackResult)

\* The file is wrong or cannot be read (its CRC is then cleared).
VerifyFails(readable) ==
    /\ Verifying /\ Action(i) = "VERIFY" /\ ~Synchronized(files[i], readable)
    /\ files' = [files EXCEPT
          ![i].action = "DOWNLOAD",
          ![i].real = IF readable /\ disk[files[i].name] # NoFile
                      THEN ChecksOf(disk[files[i].name])
                      ELSE [@ EXCEPT !.crc = 0]]
    /\ VerifyNext(FALSE)

\* Mutant: an entry that was never started needs no check.
UnstartedPasses ==
    /\ Verifying /\ Action(i) = "DOWNLOAD"
    /\ UNCHANGED files
    /\ VerifyNext(CallbackResult)

\* The start was refused: "A bug suspected!"
VerifyFindsUnstarted ==
    /\ Verifying /\ Action(i) = "DOWNLOAD"
    /\ UNCHANGED files
    /\ VerifyNext(FALSE)

VerifyEnds ==
    /\ pc = "verifying" /\ (i > Len(files) \/ ~result)
    /\ pc' = "end"
    /\ UNCHANGED <<lists, disk, i, slots, last, finished, result, outside,
                   downloads>>

\* FZ_ACTUALIZING_FINISHED or FZ_ACTUALIZING_FAILED, and the return.
ActualizeReturns ==
    /\ pc = "end"
    /\ result' = (result /\ CallbackResult)
    /\ pc' = "done"
    /\ UNCHANGED <<lists, disk, i, slots, last, finished, outside, downloads>>

-------------------------------------------------------------------------------
(* The downloads and the user *)

\* An object whose start the worker has not finished does nothing yet.
Running(f) == phase[f] = "busy" /\ ~(pc = "starting" /\ slots[i] = f)

\* A download opens and truncates its file, and may complete it with what the
\* server has.
Transfer(f) ==
    /\ Running(f) /\ f \notin refused /\ Dl!Work(f)
    /\ \E content \in IF complete'[f] THEN Contents ELSE {disk[f], Partial} :
          disk' = [disk EXCEPT ![f] = content]
    /\ UNCHANGED <<lists, loop, outside>>

TransferSettles(f) ==
    /\ Running(f) /\ f \notin refused /\ Dl!Settle(f)
    /\ UNCHANGED <<lists, disk, loop, outside>>

\* The thread carries out an accepted start and the library refuses the request:
\* no callback will come, and the acquisition of the start is never released.
LibraryRefuses(f) ==
    /\ Running(f) /\ started[f] /\ f \notin refused
    /\ outcome[f] = "DOWNLOAD_SUCCESS" /\ ~complete[f] /\ disk[f] # Partial
    /\ refused' = refused \cup {f}
    /\ UNCHANGED <<lists, disk, loop, cancelled, downloads>>

UserCancels ==
    /\ ~cancelled /\ pc # "done"
    /\ cancelled' = TRUE
    /\ UNCHANGED <<lists, disk, loop, refused, downloads>>

BuildList ==
    \/ ScanPath \/ Prepare
    \/ \E n \in Names : \/ ApplyIgnoreLine(n)
                        \/ \E t \in Targets, readable \in BOOLEAN :
                              ApplyFileLine(n, t, readable)

ActualizeFiles ==
    \/ DeleteUnlisted \/ CountDownload \/ PassEntry \/ ClassifyFails
    \/ BeginDownloads \/ Round
    \/ FillSlot \/ StartDownload \/ StartAccepted \/ StartRefused
    \/ EmptySlot \/ BusySlot \/ FreeSlot \/ RoundEnds
    \/ StopSlot \/ StopsRequested \/ DeleteSlot \/ DownloadsEnd
    \/ VerifyStarts \/ NothingToVerify \/ VerifyFindsUnstarted
    \/ VerifyEnds \/ ActualizeReturns
    \/ \E readable \in BOOLEAN : VerifyPasses(readable) \/ VerifyFails(readable)

Downloads == \E f \in Names :
    Transfer(f) \/ TransferSettles(f) \/ LibraryRefuses(f)

\* The program has left this part when pc = "done".
Next == BuildList \/ ActualizeFiles \/ Downloads \/ UserCancels

Spec == Init /\ [][Next]_vars
===============================================================================
