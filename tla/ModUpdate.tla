------------------------------ MODULE ModUpdate ------------------------------
(***************************************************************************)
(* DoWork, UpdateModFiles and GetFileLists of ModLoader.cpp: the gamedata  *)
(* list and the engine list are downloaded over the previous ones, the old *)
(* ones are put back when no source works, the files are actualized, and   *)
(* the game is started again.  The process may end at any moment; then     *)
(* only the two list files remain.                                         *)
(*                                                                         *)
(* A list is known by the URL it came from; a URL is a word of the command *)
(* line.  ActualizeFiles is a choice with the promise of                   *)
(* FileManagerProperties: true only if not cancelled.  Bound: MaxStarts.   *)
(***************************************************************************)
EXTENDS CommandLine

CONSTANTS Urls,
          Url64,        \* the URL of the x64 engine list, for each URL
          MirrorLists,  \* the mirrors the master list may name for the mod
          CommandLines, \* what g_ModParams may be
          Is64BitSystem,
          MaxStarts     \* bound: how often the loader is started

NoUrl  == ""
Urls64 == {Url64[u] : u \in Urls}
Given  == Urls \cup {NoUrl}

ASSUME ModUpdateAssumption ==
    /\ NoUrl \notin Urls \cup Urls64 /\ Url64 \in [Urls -> Urls64]
    /\ Urls \cap Urls64 = {} /\ Urls \subseteq Words
    /\ MirrorLists \subseteq Seq([game : Given, bin : Given])
    /\ CommandLines \subseteq Seq(Words)
    /\ \A l \in CommandLines : {GetCustomBinUrl(l), GetCustomGamedataUrl(l)} \subseteq Given
    /\ Is64BitSystem \in BOOLEAN /\ MaxStarts \in Nat

\* A list file: not there, cut short, of an earlier update, or from a URL.
Versions == {"old"} \cup Urls \cup Urls64
Contents == {"absent", "broken"} \cup Versions
Nothing  == "absent"            \* an empty backup

VARIABLES
    gameFile, binFile,          \* the list files in the mod's directory
    params,                     \* g_ModParams
    pc,
    approval,                   \* masterlinksParseResult
    mirrors, mirrorId,
    gameUrl, binUrl,            \* modSettings
    oldGamelist, oldBinlist,    \* the backups in memory
    applied,                    \* the lists applied to files, in this order
    flag,
    cancelled,                  \* the user pressed cancel
    starts,                     \* bounded count of starts
    atStart, tried, fellBack    \* history: of this start

listFiles == <<gameFile, binFile>>
settings  == <<params, approval, mirrors, oldGamelist, oldBinlist, starts, atStart>>
urls      == <<mirrorId, gameUrl, binUrl, tried>>
vars      == <<listFiles, pc, settings, urls, applied, flag, cancelled, fellBack>>

Init ==
    /\ gameFile \in {"absent", "broken", "old"}
    /\ binFile \in {"absent", "broken", "old"}
    /\ params \in CommandLines
    /\ pc = "off" /\ approval = "ONLY_OLD_CONFIG"
    /\ mirrors = << >> /\ mirrorId = 0 /\ gameUrl = NoUrl /\ binUrl = NoUrl
    /\ oldGamelist = Nothing /\ oldBinlist = Nothing
    /\ applied = << >> /\ flag = FALSE /\ cancelled = FALSE /\ starts = 0
    /\ atStart = [game |-> gameFile, bin |-> binFile]
    /\ tried = {} /\ fellBack = FALSE

\* CreateConfigBackup: a list that is missing, too large or cannot be read
\* leaves an empty backup.
Backup(old, content) == old \in {content, Nothing}

Few(a, b) == IF a < b THEN a ELSE b

UrlsOf(cmdline) == [game |-> GetCustomGamedataUrl(cmdline), bin |-> GetCustomBinUrl(cmdline)]

\* The URLs that may be tried first, and the mirrors: those of the command
\* line, or, if it gives none, the mod's first mirror; the others move up.
Approved(pair, others) ==
    \E l \in MirrorLists :
        \/ pair = UrlsOf(params') /\ others = l
        \/ /\ UrlsOf(params') = [game |-> NoUrl, bin |-> NoUrl] /\ l # << >>
           /\ pair = l[1] /\ others = [k \in DOMAIN l |-> l[Few(k + 1, Len(l))]]

\* Without a master list, only a mod without an engine list is approved.
OldConfigOnly(pair, others) ==
    /\ pair = UrlsOf(params') /\ others = << >>
    /\ ~(pair.bin = NoUrl /\ pair.game # NoUrl)

\* PrepareGUI or InitModSettings fails, the master list does not approve the mod,
\* or its directory cannot be scanned.
NotStarted ==
    /\ pc \in {"off", "done"} /\ starts < MaxStarts
    /\ params' \in CommandLines
    /\ starts' = starts + 1
    /\ pc' = "done"
    /\ UNCHANGED <<listFiles, approval, mirrors, oldGamelist, oldBinlist, atStart,
                   urls, applied, flag, cancelled, fellBack>>

\* The master list is downloaded, the directory has been scanned (filesCp) and
\* the lists are remembered.
Start ==
    /\ pc \in {"off", "done"} /\ starts < MaxStarts
    /\ params' \in CommandLines
    /\ \E pair \in [game : Given, bin : Given] :
          /\ \/ approval' = "APPROVED" /\ Approved(pair, mirrors')
             \/ approval' = "ONLY_OLD_CONFIG" /\ OldConfigOnly(pair, mirrors')
          /\ gameUrl' = pair.game /\ binUrl' = pair.bin
    /\ Backup(oldGamelist', gameFile) /\ Backup(oldBinlist', binFile)
    /\ mirrorId' = 0 /\ tried' = {} /\ fellBack' = FALSE /\ cancelled' = FALSE
    /\ applied' = << >> /\ flag' = FALSE
    /\ atStart' = [game |-> gameFile, bin |-> binFile]
    /\ starts' = starts + 1
    /\ pc' = "lists"
    /\ UNCHANGED listFiles

-------------------------------------------------------------------------------
(* DownloadAndApplyFileList *)

\* What a list file holds after a download of url, and whether it succeeded.
Downloaded(before, url, after, ok) ==
    IF ok THEN url # NoUrl /\ after = url ELSE after \in {before, "broken"}

\* The lines are applied one by one until one is invalid or a cancel is seen.
Apply(list, content, whole) ==
    /\ whole => content \in Versions /\ ~cancelled
    /\ applied' = Append(applied, [list |-> list, from |-> content, whole |-> whole])

\* With only the old configuration nothing is downloaded.
ApplyList(list, before, url, after, ok) ==
    IF approval = "ONLY_OLD_CONFIG"
    THEN after = before /\ Apply(list, before, ok)
    ELSE \/ Downloaded(before, url, after, TRUE) /\ Apply(list, after, ok)
         \/ ~ok /\ Downloaded(before, url, after, FALSE) /\ UNCHANGED applied

-------------------------------------------------------------------------------
(* GetFileLists *)

\* The head of the loop: files.Copy(filesCp).
TryUrls ==
    /\ pc = "lists"
    /\ applied' = << >>
    /\ flag' = (approval = "ONLY_OLD_CONFIG" \/ gameUrl # NoUrl)
    /\ pc' = IF flag' THEN "game" ELSE "next"
    /\ tried' = tried \cup {[game |-> gameUrl, bin |-> binUrl]}
    /\ UNCHANGED <<listFiles, settings, mirrorId, gameUrl, binUrl, cancelled,
                   fellBack>>

Try64 == Allow64bitEngine(params) /\ Is64BitSystem

\* Mutant: the engine list is applied although no URL is given for it.
ApplyGamelistThenEngine ==
    /\ pc = "game"
    /\ \E ok \in BOOLEAN :
          /\ ApplyList("game", gameFile, gameUrl, gameFile', ok)
          /\ flag' = ok
          /\ pc' = IF ok THEN "engine" ELSE "next"
    /\ UNCHANGED <<binFile, settings, urls, cancelled, fellBack>>

ApplyGamelist ==
    /\ pc = "game"
    /\ \E ok \in BOOLEAN :
          /\ ApplyList("game", gameFile, gameUrl, gameFile', ok)
          /\ flag' = ok
          /\ pc' = IF ~ok \/ binUrl = NoUrl THEN "next"
                   ELSE IF Try64 THEN "engine64" ELSE "engine"
    /\ UNCHANGED <<binFile, settings, urls, cancelled, fellBack>>

\* Whatever the x64 list changed in files stays there when it fails.
ApplyBinlist64 ==
    /\ pc = "engine64"
    /\ \E ok \in BOOLEAN :
          /\ ApplyList("bin", binFile, Url64[binUrl], binFile', ok)
          /\ pc' = IF ok THEN "next" ELSE "engine"
    /\ UNCHANGED <<gameFile, settings, urls, flag, cancelled, fellBack>>

ApplyBinlist ==
    /\ pc = "engine"
    /\ \E ok \in BOOLEAN :
          /\ ApplyList("bin", binFile, binUrl, binFile', ok)
          /\ flag' = ok
    /\ pc' = "next"
    /\ UNCHANGED <<gameFile, settings, urls, cancelled, fellBack>>

LoopEnds == flag \/ approval = "ONLY_OLD_CONFIG" \/ IsMirrorsDisabled(params)

ListsEnd ==
    /\ pc = "next" /\ LoopEnds
    /\ pc' = "listed"
    /\ UNCHANGED <<listFiles, settings, urls, applied, flag, cancelled, fellBack>>

\* Mutant: the loop looks at every mirror but forgets to count.
NextMirrorUncounted ==
    /\ pc = "next" /\ ~LoopEnds
    /\ pc' = IF mirrorId < Len(mirrors) THEN "lists" ELSE "listed"
    /\ UNCHANGED <<listFiles, settings, urls, applied, flag, cancelled, fellBack>>

\* The next pair is taken; the loop goes on only past the end of the mirrors.
\* mirrorId is compared with their number only, so it need not grow beyond.
NextMirror ==
    LET n == Len(mirrors)
    IN  /\ pc = "next" /\ ~LoopEnds
        /\ IF mirrorId < n
           THEN /\ binUrl' = mirrors[mirrorId + 1].bin
                /\ gameUrl' = mirrors[mirrorId + 1].game
           ELSE UNCHANGED <<binUrl, gameUrl>>
        /\ mirrorId' = Few(mirrorId + 1, n + 1)
        /\ pc' = IF mirrorId + 1 > n THEN "lists" ELSE "listed"
        /\ UNCHANGED <<listFiles, settings, tried, applied, flag, cancelled,
                       fellBack>>

-------------------------------------------------------------------------------
(* UpdateModFiles, DoWork *)

ListsApplied ==
    /\ pc = "listed" /\ flag
    /\ pc' = "actualize"
    /\ UNCHANGED <<listFiles, settings, urls, applied, flag, cancelled, fellBack>>

\* Nothing older than the old configuration: "return false".
OldListsFailed ==
    /\ pc = "listed" /\ ~flag /\ approval = "ONLY_OLD_CONFIG"
    /\ pc' = "done"
    /\ UNCHANGED <<listFiles, settings, urls, applied, flag, cancelled, fellBack>>

\* Mutant: the old lists are written back although nothing was downloaded.
FallBackAlways ==
    /\ pc = "listed" /\ ~flag
    /\ applied' = << >> /\ fellBack' = TRUE
    /\ pc' = "restoring"
    /\ UNCHANGED <<listFiles, settings, urls, flag, cancelled>>

\* Mutant: the entries of the last attempt stay in files.
FallBackKeepsEntries ==
    /\ pc = "listed" /\ ~flag /\ approval # "ONLY_OLD_CONFIG"
    /\ fellBack' = TRUE
    /\ pc' = "restoring"
    /\ UNCHANGED <<listFiles, settings, urls, applied, flag, cancelled>>

\* "Mirrors unavailable, trying to apply backup": files.Copy(filesCp).
FallBack ==
    /\ pc = "listed" /\ ~flag /\ approval # "ONLY_OLD_CONFIG"
    /\ applied' = << >> /\ fellBack' = TRUE
    /\ pc' = "restoring"
    /\ UNCHANGED <<listFiles, settings, urls, flag, cancelled>>

\* FreeConfigBackup: an empty backup has no file name, so nothing is written.
Restored(before, backup, after, ok) ==
    IF ok THEN backup # Nothing /\ after = backup
    ELSE after = before \/ (backup # Nothing /\ after = "broken")

\* Mutant: the list on disk is applied although it could not be restored.
ApplyUnrestored ==
    /\ pc = "restoring"
    /\ \E ok \in BOOLEAN :
          /\ Restored(gameFile, oldGamelist, gameFile', ok)
          /\ Apply("game", gameFile', gameFile' \in Versions /\ ~cancelled)
          /\ flag' = (gameFile' \in Versions /\ ~cancelled)
    /\ pc' = IF ~flag' THEN "done"
             ELSE IF oldBinlist # Nothing THEN "oldengine" ELSE "actualize"
    /\ UNCHANGED <<binFile, settings, urls, cancelled, fellBack>>

\* The old gamedata list is put back and applied.
RestoreGamelist ==
    /\ pc = "restoring"
    /\ \E restored, whole \in BOOLEAN :
          /\ Restored(gameFile, oldGamelist, gameFile', restored)
          /\ IF restored THEN Apply("game", gameFile', whole)
             ELSE ~whole /\ UNCHANGED applied
          /\ flag' = whole
    /\ pc' = IF ~flag' THEN "done"
             ELSE IF oldBinlist # Nothing THEN "oldengine" ELSE "actualize"
    /\ UNCHANGED <<binFile, settings, urls, cancelled, fellBack>>

\* The old engine list is put back and applied, if there was one.
RestoreBinlist ==
    /\ pc = "oldengine"
    /\ \E restored, whole \in BOOLEAN :
          /\ Restored(binFile, oldBinlist, binFile', restored)
          /\ IF restored THEN Apply("bin", binFile', whole)
             ELSE ~whole /\ UNCHANGED applied
          /\ flag' = whole
    /\ pc' = IF flag' THEN "actualize" ELSE "done"
    /\ UNCHANGED <<gameFile, settings, urls, cancelled, fellBack>>

ActualizeFiles ==
    /\ pc = "actualize"
    /\ \/ ~cancelled /\ pc' = "run"
       \/ pc' = "done"
    /\ UNCHANGED <<listFiles, settings, urls, applied, flag, cancelled, fellBack>>

\* The HTTP library refuses the request of a list (StartSyncDownload) or of a file
\* (ActualizeFiles): the downloader stays busy, and the worker waits for it until
\* the process ends.
RequestRefused ==
    /\ pc = "actualize" \/ (approval = "APPROVED" /\ pc \in {"game", "engine64", "engine"})
    /\ pc' = "waiting"
    /\ UNCHANGED <<listFiles, settings, urls, applied, flag, cancelled, fellBack>>

\* Only fsgame.ltx is indispensable; BuildUserLtx ends well in any case.
BuildFsGame ==
    /\ pc = "run"
    /\ pc' \in {"client", "done"}
    /\ UNCHANGED <<listFiles, settings, urls, applied, flag, cancelled, fellBack>>

ServerKnown == GetServerIp(params) # "" /\ GetServerPort(params) # Throws
                   /\ GetServerPort(params) \in 0..65535

\* The mod is started with the engine in its directory.  Without an engine URL
\* there is no program to start, and CreateProcess fails.
RunClient ==
    /\ pc = "client" /\ ServerKnown /\ ~cancelled /\ binUrl # NoUrl
    /\ pc' = "started"
    /\ UNCHANGED <<listFiles, settings, urls, applied, flag, cancelled, fellBack>>

\* The server is not known, the user has cancelled, or CreateProcess fails.
RunClientFails ==
    /\ pc = "client"
    /\ GetServerIp(params) # "" => GetServerPort(params) # Throws
    /\ pc' = "done"
    /\ UNCHANGED <<listFiles, settings, urls, applied, flag, cancelled, fellBack>>

\* Nothing catches the exception of stoi: the game ends.
PortIsNoNumber ==
    /\ pc = "client"
    /\ GetServerIp(params) # "" /\ GetServerPort(params) = Throws
    /\ pc' = "off"
    /\ UNCHANGED <<listFiles, settings, urls, applied, flag, cancelled, fellBack>>

\* ThreadBody ends the game's process when DoWork has succeeded.
GameRestarts ==
    /\ pc = "started"
    /\ pc' = "off"
    /\ UNCHANGED <<listFiles, settings, urls, applied, flag, cancelled, fellBack>>

UserCancels ==
    /\ pc \notin {"off", "done"} /\ ~cancelled
    /\ cancelled' = TRUE
    /\ UNCHANGED <<listFiles, pc, settings, urls, applied, flag, fellBack>>

\* When a list file is being written.
Writing(list) ==
    \/ pc = (IF list = "game" THEN "restoring" ELSE "oldengine")
    \/ approval = "APPROVED" /\ pc \in (IF list = "game" THEN {"game"}
                                       ELSE {"engine64", "engine"})

\* The process ends; a file that is being written may be cut short.
Crash ==
    /\ pc \notin {"off", "done"}
    /\ gameFile' \in {gameFile} \cup (IF Writing("game") THEN {"broken"} ELSE {})
    /\ binFile' \in {binFile} \cup (IF Writing("bin") THEN {"broken"} ELSE {})
    /\ pc' = "off"
    /\ UNCHANGED <<settings, urls, applied, flag, cancelled, fellBack>>

Worker ==
    \/ TryUrls \/ ApplyGamelist \/ ApplyBinlist64 \/ ApplyBinlist
    \/ ListsEnd \/ NextMirror \/ ListsApplied \/ OldListsFailed \/ FallBack
    \/ RestoreGamelist \/ RestoreBinlist \/ ActualizeFiles \/ BuildFsGame
    \/ RunClient \/ RunClientFails \/ PortIsNoNumber \/ GameRestarts

Next == NotStarted \/ Start \/ Worker \/ RequestRefused \/ UserCancels \/ Crash

Spec == Init /\ [][Next]_vars
===============================================================================
