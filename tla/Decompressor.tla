---------------------------- MODULE Decompressor ----------------------------
(***************************************************************************)
(* DecompressFile of Decompressor.cpp: the downloaded archive is replaced  *)
(* by what the program EXPAND writes into a temporary file beside it.      *)
(* Each unpacker is a thread of its own; DecompressLock lets one work at a *)
(* time.  EXPAND belongs to Windows: its exit code is not looked at, so it *)
(* may have written all, a part or nothing.                                *)
(***************************************************************************)
EXTENDS Integers

CONSTANTS Files,    \* numbers: their places in the list
          Nobody

VARIABLES
    file,       \* what is on disk under the name of each file
    tmp,        \* and under its name with ".tmp"
    upc,        \* where the unpacker thread of the file is
    tries,      \* retryCount
    opens,      \* retryCount2
    unpacked,   \* the result is not zero
    DecompressLock

vars == <<file, tmp, upc, tries, opens, unpacked, DecompressLock>>

\* "none": there is no file; "packed": the archive; "plain": all that was
\* packed; "cut": some of it; "stale": of an earlier version of the file.
Kinds == {"none", "packed", "plain", "cut", "empty", "stale"}

Init ==
    /\ file \in [Files -> {"none", "plain", "stale"}]
    /\ tmp = [f \in Files |-> "none"]
    /\ upc = [f \in Files |-> "idle"]
    /\ tries = [f \in Files |-> 0] /\ opens = [f \in Files |-> 0]
    /\ unpacked = [f \in Files |-> FALSE]
    /\ DecompressLock = Nobody

\* Compression type 2, a cabinet: the loop of DecompressCabFile is ahead.
DecompressCabFile(f) ==
    /\ upc[f] = "idle"
    /\ unpacked' = [unpacked EXCEPT ![f] = FALSE]
    /\ tries' = [tries EXCEPT ![f] = 3]
    /\ upc' = [upc EXCEPT ![f] = "lock"]
    /\ UNCHANGED <<tmp, opens, DecompressLock>>

\* A type that the switch does not know: the result is 0 at once.
UnknownType(f) ==
    /\ upc[f] = "idle"
    /\ unpacked' = [unpacked EXCEPT ![f] = FALSE]
    /\ UNCHANGED <<tmp, upc, tries, opens, DecompressLock>>

\* OnDownloadFinished starts the thread when the download has succeeded and the
\* type is not 0.
DecompressFile(f) == DecompressCabFile(f) \/ UnknownType(f)

EnterLock(f) ==
    /\ upc[f] = "lock" /\ DecompressLock = Nobody
    /\ DecompressLock' = f
    /\ upc' = [upc EXCEPT ![f] = "create"]
    /\ UNCHANGED <<file, tmp, tries, opens, unpacked>>

\* Mutant: the lock is not a guard object, and this return leaves it taken.
CreateProcessFailsLocked(f) ==
    /\ upc[f] = "create"
    /\ tries' = [tries EXCEPT ![f] = @ - 1]
    /\ upc' = [upc EXCEPT ![f] = "idle"]
    /\ UNCHANGED <<file, tmp, opens, unpacked, DecompressLock>>

\* "Cannot create unpacker process": the function returns at once.
CreateProcessFails(f) ==
    /\ upc[f] = "create"
    /\ tries' = [tries EXCEPT ![f] = @ - 1]
    /\ DecompressLock' = Nobody
    /\ upc' = [upc EXCEPT ![f] = "idle"]
    /\ UNCHANGED <<file, tmp, opens, unpacked>>

CreateProcess(f) ==
    /\ upc[f] = "create"
    /\ tries' = [tries EXCEPT ![f] = @ - 1]
    /\ upc' = [upc EXCEPT ![f] = "expand"]
    /\ UNCHANGED <<file, tmp, opens, unpacked, DecompressLock>>

\* What EXPAND may leave; it copies a file that is no archive.
Expanded(f) ==
    {tmp[f], "empty", "cut"}
      \cup (IF file[f] = "packed" THEN {"plain"} ELSE {file[f]})

\* WaitForSingleObject and GetExitCodeProcess: three attempts to open follow.
ExpandEnds(f) ==
    /\ upc[f] = "expand"
    /\ \E kind \in Expanded(f) : tmp' = [tmp EXCEPT ![f] = kind]
    /\ opens' = [opens EXCEPT ![f] = 3]
    /\ upc' = [upc EXCEPT ![f] = "open"]
    /\ UNCHANGED <<file, tries, unpacked, DecompressLock>>

\* The head of "while (retryCount)".
NextTry(f) == IF tries[f] > 0 THEN "create" ELSE "move"

\* No exit code, or one that looks like STILL_ACTIVE.
ExitUnknown(f) ==
    /\ upc[f] = "expand"
    /\ \E kind \in Expanded(f) : tmp' = [tmp EXCEPT ![f] = kind]
    /\ upc' = [upc EXCEPT ![f] = NextTry(f)]
    /\ UNCHANGED <<file, tries, opens, unpacked, DecompressLock>>

\* The size of the temporary file is the result.
OpenTmp(f) ==
    /\ upc[f] = "open" /\ tmp[f] # "none"
    /\ unpacked' = [unpacked EXCEPT ![f] = tmp[f] # "empty"]
    /\ tries' = [tries EXCEPT ![f] = 0] /\ opens' = [opens EXCEPT ![f] = 0]
    /\ upc' = [upc EXCEPT ![f] = "move"]
    /\ UNCHANGED <<file, tmp, DecompressLock>>

\* There is none, or another program has it open.
CannotOpenTmp(f) ==
    /\ upc[f] = "open"
    /\ opens' = [opens EXCEPT ![f] = @ - 1]
    /\ upc' = [upc EXCEPT ![f] = IF opens[f] > 1 THEN "open" ELSE NextTry(f)]
    /\ UNCHANGED <<file, tmp, tries, unpacked, DecompressLock>>

\* Also a file that could never be opened is moved, with the result 0.
Move(f) ==
    /\ upc[f] = "move" /\ tmp[f] # "none"
    /\ file' = [file EXCEPT ![f] = tmp[f]]
    /\ tmp' = [tmp EXCEPT ![f] = "none"]
    /\ DecompressLock' = Nobody
    /\ upc' = [upc EXCEPT ![f] = "idle"]
    /\ UNCHANGED <<tries, opens, unpacked>>

\* Mutant: a failure to replace the archive is only logged.
MoveFailsUnseen(f) ==
    /\ upc[f] = "move"
    /\ DecompressLock' = Nobody
    /\ upc' = [upc EXCEPT ![f] = "idle"]
    /\ UNCHANGED <<file, tmp, tries, opens, unpacked>>

MoveFails(f) ==
    /\ upc[f] = "move"
    /\ unpacked' = [unpacked EXCEPT ![f] = FALSE]
    /\ DecompressLock' = Nobody
    /\ upc' = [upc EXCEPT ![f] = "idle"]
    /\ UNCHANGED <<file, tmp, tries, opens>>

UnpackerNext(f) ==
    \/ EnterLock(f) \/ CreateProcessFails(f) \/ CreateProcess(f)
    \/ ExpandEnds(f) \/ ExitUnknown(f)
    \/ OpenTmp(f) \/ CannotOpenTmp(f) \/ Move(f) \/ MoveFails(f)

Active(f) == upc[f] # "idle"
===============================================================================
