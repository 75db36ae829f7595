------------------------------ MODULE Delivery ------------------------------
(***************************************************************************)
(* A file of the list on its way to the disk: checked by UpdateFileInfo,   *)
(* downloaded if it is not as listed, unpacked by a thread of its own      *)
(* (module Decompressor), and checked again by ActualizeFiles (module      *)
(* Crc32).  The process may end at any step and be started again, with     *)
(* what has been left on disk and perhaps with another list.               *)
(* Bound: MaxSessions.                                                     *)
(***************************************************************************)
EXTENDS Crc32Properties, FiniteSets

CONSTANTS Files, Nobody, MaxSessions

ASSUME DeliveryAssumption ==
    Files \subseteq Nat /\ Nobody \notin Files /\ MaxSessions \in Nat \ {0}

VARIABLES file, tmp, upc, tries, opens, unpacked, DecompressLock

unpacking == <<tmp, upc, tries, opens, unpacked, DecompressLock>>

Unpack == INSTANCE Decompressor

VARIABLES
    phase,      \* of UpdateModFiles
    todo,       \* the files that this phase has still to handle
    due,        \* FZ_FILE_ACTION_DOWNLOAD, later FZ_FILE_ACTION_VERIFY
    checked,    \* the file GetFileChecks has been called for
    sessions    \* bounded count of sessions

session == <<phase, todo, due, sessions>>
allVars == <<vars, file, unpacking, session, checked>>

DeliveryInit ==
    /\ Init /\ Unpack!Init
    /\ phase = "lists" /\ todo = Files /\ due = {} /\ checked = Nobody
    /\ sessions = 1

-------------------------------------------------------------------------------
(* Checking *)

\* What the bytes of a file may be, if the list promises p.
Holds(kind, p) ==
    CASE kind = "plain" -> {p}
      [] kind \in {"none", "empty"} -> {<< >>}
      [] OTHER -> Variants[p] \ {<< >>}

\* The files are handled in the order of the list.
Turn(f) == checked = Nobody /\ f \in todo /\ \A g \in todo : f <= g

\* UpdateFileInfo: a file that the scan has not found is downloaded unchecked.
MissingFile(f) ==
    /\ phase = "lists" /\ Turn(f) /\ file[f] = "none"
    /\ due' = due \cup {f} /\ todo' = todo \ {f}
    /\ UNCHANGED <<vars, file, unpacking, phase, checked, sessions>>

CheckFile(f) ==
    /\ Turn(f)
    /\ phase = "verify" \/ (phase = "lists" /\ file[f] # "none")
    /\ \E p \in Messages : \E m \in Holds(file[f], p) : Check(m, p)
    /\ checked' = f
    /\ UNCHANGED <<file, unpacking, session>>

\* A missing file cannot be opened.
Checking ==
    /\ GetFileChecks
    /\ file[checked] = "none" /\ pc = "open" => ~ok' /\ pc' = "done"
    /\ UNCHANGED <<file, unpacking, session, checked>>

Synchronized == ok /\ CompareFiles

\* UpdateFileInfo: the file must be downloaded unless it is as listed.
\* ActualizeFiles: one file that is not synchronized ends the update.  Here too
\* a check that failed is never as listed: UpdateFileInfo compares its cleared
\* size 0, and ModLoader.cpp:432 takes no list with that size.
Judge ==
    /\ Compared
    /\ todo' = todo \ {checked} /\ checked' = Nobody
    /\ due' = IF phase = "lists" /\ ~Synchronized THEN due \cup {checked} ELSE due
    /\ phase' = IF phase = "verify" /\ ~Synchronized THEN "over" ELSE phase
    /\ UNCHANGED <<file, unpacking, sessions>>

-------------------------------------------------------------------------------
(* Downloading *)

ListsEnd ==
    /\ phase = "lists" /\ todo = {}
    /\ phase' = "download" /\ todo' = due
    /\ UNCHANGED <<vars, file, unpacking, due, checked, sessions>>

\* The compression type of the list is 0: OnDownloadFinished starts no unpacker,
\* and what is on disk, the file or something else, is left as it is.
DownloadedPlain(f) ==
    /\ phase = "download" /\ f \in todo
    /\ \E kind \in {"plain", "cut"} : file' = [file EXCEPT ![f] = kind]
    /\ todo' = todo \ {f}
    /\ UNCHANGED <<vars, unpacking, phase, due, checked, sessions>>

\* Another type: the archive is on disk, as the server has it or damaged, and
\* OnDownloadFinished starts the unpacker.
Downloaded(f) ==
    /\ phase = "download" /\ f \in todo
    /\ Unpack!DecompressFile(f)
    /\ \E kind \in {"packed", "cut"} : file' = [file EXCEPT ![f] = kind]
    /\ todo' = todo \ {f}
    /\ UNCHANGED <<vars, phase, due, checked, sessions>>

\* A download that fails may have begun to write; nothing is unpacked.
DownloadFails(f) ==
    /\ phase = "download" /\ f \in todo
    /\ file' \in {file, [file EXCEPT ![f] = "cut"]}
    /\ todo' = todo \ {f}
    /\ UNCHANGED <<vars, unpacking, phase, due, checked, sessions>>

Unpacking(f) ==
    /\ Unpack!UnpackerNext(f)
    /\ UNCHANGED <<vars, session, checked>>

\* The downloaders are deleted when their unpackers are done.  The result may
\* be true although a download has failed.
DownloadsEnd ==
    /\ phase = "download" /\ todo = {} /\ \A f \in Files : ~Unpack!Active(f)
    /\ phase' \in {"verify", "over"} /\ todo' = due
    /\ UNCHANGED <<vars, file, unpacking, due, checked, sessions>>

VerifyEnds ==
    /\ phase = "verify" /\ todo = {}
    /\ phase' = "over"
    /\ UNCHANGED <<vars, file, unpacking, todo, due, checked, sessions>>

-------------------------------------------------------------------------------
(* The end of the process and the next start *)

\* What was whole may be of an old version for the next list.
Aged(kind) == IF kind \in {"none", "empty"} THEN kind ELSE "stale"

\* EXPAND is a process of its own and finishes what it writes.
LeftBehind(f) == IF upc[f] = "expand" THEN Unpack!Expanded(f) ELSE {tmp[f]}

NewSession ==
    /\ sessions < MaxSessions
    /\ sessions' = sessions + 1
    /\ \E left \in [Files -> Unpack!Kinds], newList \in BOOLEAN :
          /\ \A f \in Files : left[f] \in LeftBehind(f)
          /\ IF newList
             THEN /\ file' = [f \in Files |-> Aged(file[f])]
                  /\ tmp' = [f \in Files |-> Aged(left[f])]
             ELSE file' = file /\ tmp' = left
    /\ upc' = [f \in Files |-> "idle"] /\ DecompressLock' = Nobody
    /\ tries' = [f \in Files |-> 0] /\ opens' = [f \in Files |-> 0]
    /\ unpacked' = [f \in Files |-> FALSE]
    /\ bytes' = << >> /\ promised' = << >> /\ skip' \in BOOLEAN
    /\ pc' = "idle" /\ mapped' = FALSE /\ R' = Ones /\ pos' = 0
    /\ size' = 0 /\ crc32' = {} /\ ok' = FALSE
    /\ phase' = "lists" /\ todo' = Files /\ due' = {} /\ checked' = Nobody

Worker ==
    \/ \E f \in Files : MissingFile(f) \/ CheckFile(f)
                         \/ DownloadedPlain(f) \/ Downloaded(f) \/ DownloadFails(f)
    \/ Checking \/ Judge \/ ListsEnd \/ DownloadsEnd \/ VerifyEnds

DeliveryNext == Worker \/ (\E f \in Files : Unpacking(f)) \/ NewSession

DeliverySpec == DeliveryInit /\ [][DeliveryNext]_allVars
===============================================================================
