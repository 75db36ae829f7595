# A TLA+ model of the TSMP mod loader

`src/tsmp_mod_loader` builds a DLL that lives in a running S.T.A.L.K.E.R. game.  The game
calls its one export, `ModLoad`; a worker thread then downloads the list of a mod's files,
brings the mod's directory into agreement with the list, and starts the game again with the
mod.  This directory holds the TLA+ modules that model the program, the TLC configurations
that check them, and proofs of the main safety results that TLAPS checks.

## 1. Inventory

| Component | Source | State it keeps | Operations |
|---|---|---|---|
| HTTP downloader | `HttpDownloader.cpp/.h` | per object: `m_Request`, `m_Status`, `m_AcquiresCount`, `m_Lock`; per thread: `m_CommandsQueue`, `m_Downloaders`, `m_bNeedTerminate`, `m_bThreadActive`, `m_RecursiveLock` | `StartAsyncDownload`, `StartSyncDownload`, `RequestStop`, destructors; `DownloaderThreadBody`; callbacks of the HTTP library; `UnpackerThreadBody` |
| File manager | `FileManager.cpp/.h` | the entry list `m_Files` (action, wanted and real checks), the directory | `ScanPath`, `UpdateFileInfo`, `AddIgnoredFile`, `SortBySize`, `ActualizeFiles`, `Copy` |
| Mod update | `ModLoader.cpp` (`GetFileLists`, `UpdateModFiles`, backups, `DoWork`, `RunClient`) | settings, mirrors, the two list files and their backups in memory | try the URL pairs, apply the lists, fall back to the old ones, actualize, restart |
| Master list | `ModLoader.cpp` (`DownloadAndParseMasterModsList`) | settings, mirrors | download from six places, approve the mod |
| Kernel | `Kernel.cpp` | semaphore, mutex, `g_hDll`, `g_ModName`, ... | `ModLoad`, `ThreadBody` |
| Game bridge | `lowlevel/Abstractions.cpp` | visual-download flag, injected code, messages | `SafeExec_start/end`, `StartVisualDownload`, `AbortConnection`, ... |
| Decompressor | `lowlevel/Decompressor.cpp` | temporary file | `DecompressFile`, `DecompressCabFile` |
| Checksums | `Crc32.cpp` | none | `GetFileChecks`, two CRC-32 implementations |
| Ini files, command line | `IniFile.cpp`, `CommandLineParser.h` | none | `GetStringDef`, `GetIntDef`, ...; one parser per key |
| Log, debug tools, hook, WinAPI download | `Log.cpp`, `DebugTools.cpp`, `lowlevel/Hook.cpp`, `WinapiDownloadFile.cpp` | none of interest | logging, crash handler, code patching, an unused download function |

**How they interact.**  `ModLoad` (game thread) takes a named semaphore and mutex, sets the
globals and spawns the worker, which waits for the mutex and runs `DoWork`.  The worker is
the only caller of the file manager and of the downloader's public methods.  It creates a
downloader thread (the *DL thread*) for each list and one for all files of a mod, asks
objects to start or stop through the DL thread's command queue, and learns of the end only
by polling `IsBusy`.  The DL thread and the game's main menu both call the `Think` of
`xrGameSpy.dll`, so the callbacks that end a download run on either of them; a compressed
file is handed to a fresh unpacker thread.  The user's *cancel* reaches the worker only
through the return value of `CheckForUserCancelDownload`.

**What is hard here.**

* Downloader: four kinds of thread and three kinds of lock meet in one object, whose owner
  frees it on the first false answer of `IsBusy`.  Correct: the count of acquisitions is
  exact, nothing freed is reachable, locks do not deadlock, a successful object has its
  file, and the waits end.
* File manager: failures of several parallel downloads, cancel at any point, a list that is
  edited while it is walked.  Correct: `true` means that every listed file is in place and
  nothing that was to be ignored was touched.
* Mod update: lists from mirrors applied over a copy of the scan, old lists restored on
  failure, a crash between the two lists.  Correct: gamedata and engine come from one
  generation, or from the old configuration.
* Master list: which URLs are allowed in which of the documented cases.
* Kernel: a semaphore and a mutex that outlive calls; a second `ModLoad` while the first
  worker runs.
* Decompressor and checksums: several unpackers, a program of Windows whose exit code is not
  looked at, a temporary file that outlives the process, and a CRC computed in blocks.
  Correct: what passes the check is the file that the list promises.
* Game bridge: the worker calls functions of the game while its threads run.  Correct: the
  calls exclude the game's update and its second thread, which is back afterwards.

## 2. Plan

| Step | Modules | Contents | State |
|---|---|---|---|
| A | `Occurrences`, `Downloader`, `DownloaderProperties`, `DownloadService`, `MCDownloader`; proofs in `DownloaderTypes`, `DownloaderProofs` | downloader, abstract service, safety theorems, the refinement | done |
| B | `FileList`, `FileManager`, `FileManagerProperties`, `MCFileManager`; proofs in `FileManagerProofs` | entry list, `ActualizeFiles` over `DownloadService` | done |
| C | `CommandLine`, `ModUpdate`, `ModUpdateProperties`, `MCModUpdate`; proofs in `ModUpdateProofs` | command line, lists, mirrors, backups, crash and restart | done |
| D | `MasterList`, `MasterListProperties`, `MCMasterList`; proofs in `MasterListProofs` | approval of a mod against the documented policy | done |
| E | `Kernel`, `KernelProperties`, `MCKernel`; proofs in `KernelProofs` | semaphore, mutex, DLL reference, second `ModLoad` | done |
| F | `GuiSync`, `GuiSyncProperties`, `MCGuiSync`; proofs in `GuiSyncProofs` | handshake with the game's threads, download bar | done |
| G | `Decompressor`, `Delivery`, `DeliveryProperties`, `MCDelivery`; proofs in `DeliveryProofs` | temporary file, retries, and a file's way from the list to the disk over crashes | done |
| H | `Crc32`, `Crc32Properties`; proofs in `DeliveryProofs` | CRC in blocks against CRC by bytes, for files of any length | done |
| J | abstract specifications of E and F (one worker at a time in all games; calls that exclude the frame), with refinement proofs | | left |

Every module takes its sets and bounds as CONSTANTS and has one action per operation or per
step between two possible waits.  None has a RECURSIVE operator: recursion is a recursive
function or a fold.

## 3. The downloader

### Modules

* `Occurrences` - how often elements of a set occur in a sequence, from a position on.
* `Downloader` - the state machine.
* `DownloaderProperties` - the type invariant, safety, action and liveness properties, the
  inductive invariant, the refinement mapping.
* `DownloadService` - the abstract specification: what `FileManager.cpp` and
  `ModLoader.cpp` are written against.
* `MCDownloader` - two objects for TLC, one of them compressed.
* `DownloaderTypes` (the lemmas on `OccurFrom`, and types) and `DownloaderProofs` - proofs.

### From code to model

A *thread* is a program counter: `wpc` for the worker, `tpc` for the DL thread, `unpacker[d]`
for the unpacker of object `d`; the main-menu thread has no state of its own except that it
may own the library's lock.  A step ends where its thread may have to wait for a lock, so
every order of lock acquisitions is explored; between two such points nobody can observe a
difference.

| Code | Model |
|---|---|
| `m_Lock`, `m_RecursiveLock` | `lock[d]`, `recLock`: the owner, or "nobody"; `CanLock` allows re-entry |
| the HTTP library's internal lock, held over callbacks | `gsLock` (external) |
| `m_AcquiresCount`, `m_Request`, `m_Status` | `acquires`, `request`, `status` |
| `m_CommandsQueue`, `m_Downloaders` | `queue`, `active` |
| `StartAsyncDownload` | `StartAsyncDownload` (Lock, IsBusy, Acquire), then `StartAccepted` or `StartRefused` (AddCommand, Unlock) |
| `RequestStop` | `RequestStop`, `StopEntersQueue`, `StopQueued`, `StopReturns` |
| destructors | `DeleteDownloader`/`DownloaderDeleted`, `DeleteThread`/`ThreadDeleted` |
| `DownloaderThreadBody` | `ProcessCommands` ... `Flush`, `Scan`, `RemoveFinished`, `RemovalDone`, `ProcessDownloads`, `Evaluate`, `Exit` |
| `StartDownload` | `StartDownload`, `SaveExStarts`, `DownloadRegistered`, or `SaveExFails` |
| `CancelDownload` | `CancelDownload`, `CancelRequest`, `CancelFinishes`, `CancelReleases` |
| callbacks | `CallbackDue`, `ProgressCallback`, `FinishCallback` (with `OnDownloadFinished`) |
| `UnpackerThreadBody` | `Unpack`, `UnpackerReleases` |

`StartSyncDownload` is `StartAsyncDownload` followed by the polling loop that the worker's
`wpc = "idle"` states stand for (it may do nothing but look at `IsBusy` there).  Byte counts,
file names and logging are left out.  `xrGameSpy.dll` is external: its connections (`conn`), the
callback it is delivering (`callback`), and its lock are modelled from how the code uses
them.  The comment at `HttpDownloader.cpp:532` is the source for the lock and for the menu
thread.  History variables: `accepted`, `refused`, `file`, and the two bounded call counters
`starts`, `stops`.

### Runs

| Run | Shows | Bounds |
|---|---|---|
| `downloader_safety` | types and loop indices (`TypeOK`); `RefCount`; `NoDangling`; `ThreadDeletedClean`; `NoDeadlock`; `RequestMatchesConnection`; `SuccessMeansComplete`; `Downloader` implements `DownloadService` (`ImplementsService`) | 2 objects, 2 starts each, 2 stops |
| `downloader_liveness` | destructors return (`DeleteReturns`, `JoinReturns`) | 2 objects, 1 start each, 1 stop |
| `downloader_assigned` | disagreement 1 below | as `downloader_safety` |

The model has unbounded counters of calls only; `MaxStarts` and `MaxStops` bound them.  Two
objects are the least for which `m_Downloaders` has an element that `FindDownloader` can
find (it never looks at index 0), for the removal loop to move an element, and for one
object's command to wait behind the other's.  Two stops allow a stop before the start has
been processed and one after the end.  Two starts allow an object to be used again.  Deadlock checking is off: the program
may end, and the bounds stop the worker; waiting in a cycle is excluded by `NoDeadlock`,
stuck waits by the liveness run.

**Fairness.**  The liveness run assumes: strong fairness of the worker's call in progress
and of the DL thread, because each waits for mutexes whose holders release them again and
again (they sleep or poll in between); weak fairness of a callback being delivered and of
the unpackers, which depend on nobody's repeated cooperation; strong fairness of `Think`
returning; and that the HTTP library ends every transfer with success or failure, which is
the library's contract.  The worker's *choice* of its next call, and the menu thread, are
not fair.  `DeleteReturns` excludes objects whose request was refused: those waits do not end
(disagreement 1).

### Disagreements between the code and its comments

1. `StartDownload` (`HttpDownloader.cpp:502`) leaves an object whose request the library
   refused acquired for ever: it is not on the list from which the thread would release it,
   as the comment at line 660 says.  Its owner waits without end.
2. `FindDownloader` (`HttpDownloader.cpp:849`) never looks at index 0, so a stop of the first
   active download does nothing, against the comment "stop all of them" at
   `FileManager.cpp:420`.  `ActualizeFiles` then waits until the transfer ends by itself.  It
   can be read off `FindDownloader`; no run is spent on it.

## 4. The file manager

### Modules

* `FileList` - the entry list and the pure operations on it.
* `FileManager` - the state machine of an update, over instances of `DownloadService`.
* `FileManagerProperties` - its properties and the inductive invariant; `MCFileManager` - small
  instances for TLC; `FileManagerProofs` - proofs.

### From code to model

The worker is one program counter, `pc`; the other actors are the downloads, the user and
the disk.  A step of the worker ends at each call of the callback or of a downloader.

| Code | Model |
|---|---|
| `m_Files` (name, action, target and real checks) | `files`, a sequence of records |
| the mod's directory | `disk`: what each file holds, `NoFile`, or `Partial` |
| a file's size and CRC | a record `[size, crc]`; `Dummy` for what could not be read |
| `ScanPath` | `ScanPath`, in any order |
| `DownloadAndApplyFileList`, per line | `ApplyFileLine` (`UpdateFileInfo`), `ApplyIgnoreLine` (`AddIgnoredFile`) |
| `PreprocessFiles`, `SortBySize` | `Prepare` |
| first loop of `ActualizeFiles` | `DeleteUnlisted`, `CountDownload`, `PassEntry`, `ClassifyFails`, `BeginDownloads` |
| `while (!finished)` over the slots | `Round`; `FillSlot`, `StartDownload`, `StartAccepted` or `StartRefused`; `EmptySlot`, `BusySlot`, `FreeSlot`; `RoundEnds` |
| stopping and deleting | `StopSlot`, `StopsRequested`, `DeleteSlot`, `DownloadsEnd` |
| verification and the last callback | `VerifyStarts`, `VerifyPasses`, `VerifyFails`, `NothingToVerify`, `VerifyFindsUnstarted`, `VerifyEnds`, `ActualizeReturns` |
| a downloader | `phase`, `started`, `outcome`, `complete` of `DownloadService`; `Transfer` adds what it writes to `disk` |
| `ghttpSaveEx` refuses a request that was accepted | `LibraryRefuses`, which puts the file into `refused` |
| the game's cancel button | `UserCancels`; `DownloadCallback` answers `~cancelled` |

Failures are choices: a file cannot be read (`readable`), deleted or its directory made
(`ClassifyFails`), a start is refused, the library refuses a request whose start was
accepted, a transfer fails, leaves part of a file, or brings a
complete file that is not the one the list promises.  Left out: byte counts and progress,
URLs, MD5 (always empty in this program), compression (inside a download), and the refusal
of names with `..`, which changes nothing.  Names are compared as the code compares them.

### Runs

| Run | Shows | Bounds |
|---|---|---|
| `files_update` | types, unique names and indices; `LiveObjectsAreInSlots`; `NothingForgotten`; `VerifiedMeansSynchronized`; `CancelledMeansFalse` | 3 files, 3 lines, 2 slots |
| `files_liveness` | `OnlyDueFilesTouched`, `ActualizeFilesReturns` | an ordinary file, a list file and a user's file, 2 lines, 1 slot, sizes only |
| `files_true` | disagreement 3 below | 2 files, 2 lines, 2 slots |

Three files and two slots (the code has four) are the least for which a file waits for a slot
while another download runs; a file's content is right, wrong with the right size, missing
or cut short, and checks tell no more than that.  The files of
`files_update` are interchangeable, so it uses symmetry; `files_liveness` does not.  Deadlock checking
is off because a run ends with `pc = "done"`, or waits for a refused request.

**Fairness.**  Weak fairness of the worker, which is runnable whenever it does not wait for a
download; for every download, strong fairness of ending the transfer and of settling, which
`DeleteReturns` of section 3 shows of the downloader.  It makes an exception, and so does
the model: a request that the library refuses stays busy (disagreement 1), neither step is
possible for it any more (`f \notin refused`), so that fairness asks nothing of it, and
`ActualizeFiles` waits at `FileManager.cpp:386` or `:432` for ever.
`ActualizeFilesReturns` therefore ends in `pc = "done"` *or* `refused # {}`, as
`DeleteReturns` does, and the safety properties hold in those behaviours as well.  The user
and the refusals are not fair.

### Disagreements between the code and its comments

3. Erasing an entry (`FileManager.cpp:280`) and then incrementing the index steps over the
   next entry.  If that entry is the only download, `totalDlSize` is 0, the verification is
   skipped (line 440), and a failed download, whose result the progress callback has
   overwritten, yields `true`.  The comment at line 439 says that everything required is checked.
   `VerifiedMeansSynchronized` shows that this gap is the only one: once anything has been
   counted, `true` can be trusted.
4. For the same reason the second of two unlisted files in a row stays on disk, against the
   comment at `FileManager.h:27`.  It can be read off `DeleteUnlisted`; no run is spent on it.
5. `SortBySize` (`FileManager.cpp:241`) compares every candidate with element `i` itself, so it
   never changes the order; see `LargestUpTo` of `FileList`.

## 5. The mod update

### Modules

`ModUpdate` is one start after the other of `DoWork`, with `UpdateModFiles` and
`GetFileLists`; `ModUpdateProperties`, `MCModUpdate` and `ModUpdateProofs` go with it.  It
composes with the file manager by its promise: `ActualizeFiles` is a choice that is `true`
only without a cancel (`CancelledMeansFalse` of section 4).

`CommandLine` is `CommandLineParser.h`: which URLs are given, whether mirrors and the 64-bit
engine are allowed, and which server the game is started with.  A command line is the
sequence of its words.  A key is looked up as text: `-srv ` and `-srvport ` have no blank in
front, so they are also found at the end of a longer word (`EndingIn`), and the value of one
key can be taken for another key.

### From code to model

A list is known by the URL it came from, so `gameFile` and `binFile`, the two list files in the
mod's directory, say which *generation* is on disk; `applied` says what has been applied to
`files`, in which order, and whether to the last line.

| Code | Model |
|---|---|
| `PrepareGUI`, `InitModSettings` or the scan fails, or the mod is not approved | `NotStarted` |
| settings, `DownloadAndParseMasterModsList` (by its results: `Approved`, `OldConfigOnly`; section 6 says which), scan, `CreateConfigBackup` | `Start`, `UrlsOf` |
| head of the `do` loop, `files.Copy(filesCp)` | `TryUrls` |
| `DownloadAndApplyFileList` for each list | `ApplyList`, in `ApplyGamelist`, `ApplyBinlist64`, `ApplyBinlist` |
| mirror chosen, end of the loop | `NextMirror`, `ListsEnd` |
| after `GetFileLists` | `ListsApplied`, `OldListsFailed`, `FallBack` |
| `FreeConfigBackup`, old lists applied | `RestoreGamelist`, `RestoreBinlist` |
| `ActualizeFiles`, `BuildFsGame` | `ActualizeFiles`, `BuildFsGame` |
| `RunClient` | `RunClient`, `RunClientFails`, `PortIsNoNumber` (`stoi` throws, and nobody catches) |
| `StartSyncDownload` of a list, or `ActualizeFiles`, waits for a refused request | `RequestRefused` (`pc = "waiting"`) |
| `ThreadBody` | `GameRestarts` |
| cancel button, end of the process | `UserCancels`, `Crash` |

A list file that is being written when the process ends may be cut short (`Writing`).  A
download may fail leaving the file as it was or cut short, a backup may stay empty because
the file is missing, too large or unreadable, and a list may be applied in part.  Left out: what
the lines say (section 4), and the texts of `fsgame.ltx` and of the new command line.

### Runs

| Run | Shows | Bounds |
|---|---|---|
| `mod_update` | `TypeOK`; `ActualizedIsListed`; `FallbackIsOld`; `OldConfigStays`; `UpdateEnds` | 4 command lines, 2 URLs, up to 2 mirrors, x64 lists, 2 starts |
| `mod_update_mirrors` | disagreement 6 below | 2 URLs, up to 2 mirrors, 1 start |

Two starts let a crash or a failure of the first leave the list files in a state that the
second begins with; two URLs are enough to tell a first attempt from a second, and the
mirrors include one without an engine.  The command lines are one with everything, one
without lists, so that the mirrors give them, one with a gamedata list only, and one
whose port is no number and whose `-srv` is only the end of a longer word.  **Fairness:** weak fairness of the worker; that what it
calls returns is shown in sections 3 and 4, with the exception made there: after
`RequestRefused` the worker stays in its loop (`HttpDownloader.cpp:689`, `FileManager.cpp:386`)
until the process ends.  `UpdateEnds` counts this as an end, and is stated for a master list
with at least one mirror: what happens without one is disagreement 7, and no property
covers it.

Not promised, and not stated: that after a crash between the two lists both belong to one
generation.  The next start downloads both again when it can.

### Disagreements between the code and its comments

6. The loop goes on *while* `mirrorId` is past the end of the mirrors (`ModLoader.cpp:890`),
   where it should stop: it ends after one attempt, and no mirror is ever tried, against the
   comment at line 882.
7. Without mirrors the same condition repeats the attempt for ever, also after a cancel,
   against the message at line 449; see `NextMirror` when `mirrors = << >>`.
8. An engine list that could not be remembered is not put back (`ModLoader.cpp:1004`), and the
   update goes on, so the mod is started with the old gamedata list beside the new engine
   list; the comment at line 995 says "with what we already have".  This is why
   `FallbackIsOld` speaks of the engine list only if its backup is not empty.

Visible from the definitions, and without a run:

* The comment at `Kernel.cpp:240-256` says that a mod without an engine list uses the
  current engine.  `ModLoader.cpp:763` then leaves the program's name empty, and
  `CreateProcess` fails: a mod of gamedata only, or an old configuration without `-binlist`,
  is updated and never started (`binUrl # NoUrl` in `RunClient`).
* `Kernel.cpp` documents the key `-port`, and `CommandLineParser.h:34` looks for `-srvport`.
* A port that is no number ends the game, because `stoi` (`CommandLineParser.h:43`) throws
  and nothing catches it (`PortIsNoNumber`).

## 6. The master list

`MasterList` is `DownloadAndParseMasterModsList`: six servers are asked in order
(`LinkWorks`, `LinkFails`), the sections of the list are walked (`ModSection`, `OtherSection`,
`SectionsEnd`), or there is no list (`NoList`); `Decide` ends it.  A section is a name and its
mirrors; names occur once.  The URLs of the command line are `binUrl` and `gameUrl`; the
options that are only copied (executable, directories, flags) are left out.
`MasterListProperties` states the policy of the comment at `Kernel.cpp:240-256`.

The run `master_list` checks all lists of up to two sections with up to two mirrors each, one
for the mod and one for another, in both orders: enough for an approval by an earlier
section to meet the mod's own, and for mirrors that differ in one URL only.
`OnlyTrustedSources` is the policy's point; `EveryMirrorOffered` says that none is lost
when the first is taken (the list keeps its length, so its last one stays twice).

Two disagreements are visible from the definitions and have no run: an empty master list
refuses a mod without an engine, which `Kernel.cpp:246-248` approves; and without a list an
engine URL gives `ONLY_OLD_CONFIG` instead of the refusal of lines 249-251.

## 7. The kernel

### Modules

`Kernel` is `ModLoad` and the worker thread, in several games of one session, because the
semaphore and the mutex have names that all of them share; `KernelProperties`, `MCKernel` and
`KernelProofs` go with it.

### From code to model

`game[p]` is a process: its main thread (`pc`, and the locals `call` and `result`), the
globals of `Kernel.cpp` and `g_Abstraction`, and how often the code has this DLL loaded.
`worker[c]` is the thread that call `c` has spawned, with what its assembly has pushed.

| Code | Model |
|---|---|
| `ModLoad` | `ModLoad`, `SemaphoreBusy`, `TakeSemaphore`, `ClearDll`, ..., `End` |
| `ModLoadInternal`, `RunModLoad` | `MutexRefused`, `MutexTaken`, `LoadDll`, `Spawn`, `LetMutexGo` |
| `ThreadBodyInternal` | `OpenMutex`, `AwaitMutex`, `MutexAbandoned`, `DoWork` |
| `ThreadBody` | `PushDll`, `ZeroDll`, `PushSemaphore` (twice), `ZeroSemaphore`, `SignalSemaphore`, `CloseSemaphore`, then `ExitThread` or `Terminate` |
| named objects of Windows (external) | `semaphore`, `mutex`: count or owner, and the open handles |
| the end of a process | `ProcessEnds`: handles are closed, what its threads own is abandoned |

`DoWork` is a choice of success or failure.  `ThreadSpawn` always returns `true`
(`Abstractions.cpp:872`), so the branch after its failure is left out.  The game's own
reference to the DLL is not counted, so `DllStaysLoaded` holds whatever the game does with it.

### Runs

| Run | Shows | Bounds |
|---|---|---|
| `kernel` | `TypeOK`; `DllStaysLoaded`; `OneThreadInside`; `SemaphoreRecovers`; `NameStaysForWorker` | 2 games, with 1 and 2 calls, 1 crash |

Two calls in one game let a second `ModLoad` meet the first one's worker, in every state of
its teardown; the second game takes the semaphore and the mutex in between; the crash
(and every `TerminateProcess`) leaves the mutex abandoned.  That the mutex always comes back
to a waiting worker is not promised: the code does not give it (the last observation below).
Deadlock checking is off because the calls are bounded.

### Disagreements between the code and its comments

Visible from the definitions, and without a run:

9. After a failed or cancelled update `ThreadBodyInternal` returns `true` all the same
   (`Kernel.cpp:92`), and `ThreadBody` ends the game, which has just been told "Downloading
   failed.Try again." (line 70).

* `ModLoad` releases the semaphore also after a success (`Kernel.cpp:299`), against the comment
  at line 291, so a second call can get in while the worker runs.  `OneThreadInside` and
  `NameStaysForWorker` show that the mutex then keeps them apart.  But before the first
  worker has the mutex, a second call can replace the mod it will load, and each
  second call clears `g_hDll`, so that the reference to the DLL is never given back.
* A refused mutex leaves its handle open (`:205`).  If the owner's process then ends, the next
  call is given `WAIT_ABANDONED`, takes it for a failure and keeps the mutex (`kept`): the
  workers of every game then wait for ever.  Every other owner releases it or ends
  (`OwnerInv`, a part of the inductive invariant).

## 8. The game bridge

### Modules

`GuiSync` is the part of `Abstractions.cpp` through which the worker touches the user
interface; `GuiSyncProperties`, `MCGuiSync` and `GuiSyncProofs` go with it.

### From code to model

The engine is not in the repository.  Its main thread, its secondary thread and the window
are external: they do what the comments at `Abstractions.cpp:641-680` say, that is, the main thread
holds `mt_csEnter` outside the parallel section of a frame, there is no such section while the
window is inactive, rendering starts there if `b_is_Active`, and a secondary thread that finds
`mt_bMustExit` clears it and ends.

| Code | Model |
|---|---|
| `SafeExec_start` | `SignalExit`, `AwaitExit`, `Enter`, `Deactivate`, `AwaitFrame`, `Reactivate` |
| `SafeExec_end` | `SpawnSecond`, `Leave` |
| `AssignStatus`, `ShowMpMainMenu` | `SafeExec`, and where the worker goes on (`after`) |
| `StartVisualDownload`, `StopVisualDownload` | `StartVisualDownload`, `Exchange`, `StopVisualDownload` |
| the worker around them | `DoWorkReturns`, `ReportFailure` |
| engine and user (external) | `ResumeThreads`, `BeginRendering`, `SkipRendering`, `EndRendering`, `SuspendThreads`, `SecondEnters`, `SecondLeaves`, `SwitchWindow`, `PatchStarts`, `PatchEnds`, `UserCancels` |

`IsInProgress` is one flag for three users: the worker, the game's own download (`patch`) and
the cancel button.  The history variable `claimed` says whose it is: it is set when
`StartVisualDownload` has left its loop with success and reset when the user cancels.

Left out: what is called inside (strings, menu), `m_LastRequest`, the progress value, the
message window and `AbortConnection`.

### Runs

| Run | Shows | Bounds |
|---|---|---|
| `gui_sync` | `TypeOK`; `CallsAreExclusive`; `OneSecondThread`; `ActiveFollowsWindow`; `BarIsOurs`; `SafeExecReturns` | room for 2 secondary threads, 2 rounds (the code: 1000) |

The number of calls is not bounded.  Room for a second secondary thread lets `OneSecondThread` fail if
the code let it; two rounds are the least for which the first may fail and the next, which is
also the last, may fail or succeed.  `BarIsOurs` is about that last round: a success there
must have found the bar free, or else the end of the game's own download would look to
`DoWork` like a cancel by the user.
Deadlock is checked: only the end of the process stops the model.

**Fairness.**  Weak fairness of steps that wait for nobody; strong fairness of who waits for
`mt_csEnter`, which is free in every frame.  The user and the game's own download are not fair.
`SafeExecReturns` assumes frames again and again: while the window stays inactive, the worker waits at
`Abstractions.cpp:646` without end, and so does the update.

### Disagreements between the code and its comments

Visible from the definitions, and without a run because they depend on the engine:

10. The comment at `Abstractions.cpp:654` wants the main thread kept from starting to render
    while the game is called.  `b_is_Active` is put back before the call (line 664), so a
    main thread that has not tested it yet renders during the call (`BeginRendering` when
    `worker = "inside"`).
11. When `StartVisualDownload` gives up because the game downloads something of its own, the
    failed update ends with `StopVisualDownload` (`Kernel.cpp:82`), which clears the flag of
    that download (`StopVisualDownload` when `patch`).

## 9. Checksums, unpacking and delivery

### Modules

* `Crc32` - `GetFileChecks` with both implementations of the CRC, and `CompareFiles`;
  `Crc32Properties` goes with it.
* `Decompressor` - the unpacker threads and `DecompressFile`.
* `Delivery` - composes the two: a file of the list is checked, downloaded, unpacked and
  checked again, by processes that may end at any step and are started again.
  `DeliveryProperties`, `MCDelivery` and `DeliveryProofs` go with it.

### From code to model

A byte or a word is the set of the positions of its one-bits, so `^` is the symmetric
difference, and a shift moves the positions; this is what lets the proofs speak of 32-bit
words without arithmetic.

| Code | Model |
|---|---|
| `GetFileChecks` | `Check`, `CannotOpen`, `Open` |
| mapping, `Implementation1::CalcCrc32` | `Map`, `TakeBlock`, `TakeByte`, `CalcReturns` |
| the 16 tables of 256 numbers | `CrcTable`, of which `IsCrcTable` is assumed |
| `Implementation2::CRC32Init`, `GetCRC32` | `CRC32table`, `GetCRC32` |
| `Implementation2::CalcFileChecks` | `Fallback` |
| `CompareFiles` | `CompareFiles` |
| `DecompressFile` | `DecompressFile` (`DecompressCabFile` or `UnknownType`), `EnterLock`, `CreateProcess`, `CreateProcessFails` |
| waiting for EXPAND (external) | `ExpandEnds`, `ExitUnknown`, with what it may leave in `Expanded` |
| opening and moving the temporary file | `OpenTmp`, `CannotOpenTmp`, `Move`, `MoveFails` |
| `UpdateFileInfo` | `MissingFile`, `CheckFile`, `Checking`, `Judge` |
| downloads of `ActualizeFiles` | `ListsEnd`, `Downloaded` (an unpacker follows), `DownloadedPlain` (none does), `DownloadFails`, `Unpacking`, `DownloadsEnd` |
| verification | `CheckFile`, `Checking`, `Judge`, `VerifyEnds` |
| end of the process, next start | `NewSession` |

That the 4096 numbers in the source follow the rule of `IsCrcTable` was established by
computing them outside TLA+; no module holds them.  On disk, a file is the archive, all of
what was packed, a part of it, empty, of an older version, or missing.  EXPAND is a process
of its own: it goes on when the loader ends, and is taken to be done before the next start
looks at the disk (`LeftBehind`).  The next start may come with another list, for which
everything on disk is old (`Aged`).  Left out: the locking of a downloader (section 3), the
slots and the cancel (section 4), and the branch of `DecompressFile` for type 0: an
uncompressed file starts no unpacker (`HttpDownloader.cpp:141`, `DownloadedPlain`).  The type is
what the list says, so each file may come with any: 0, a cabinet, or one that
`DecompressFile` does not know and gives the result 0 (`UnknownType`).

### Runs

| Run | Shows | Bounds |
|---|---|---|
| `delivery` | `CrcIsStandard`; `SuccessMeansReplaced`; `VerifiedMeansPromised`; `UnpackReturns` | 2 files, 2 sessions, 3 messages |

Two files let two unpackers meet at `DecompressLock`; the second session begins with what the
first left, in particular a temporary file that a failing EXPAND of the second would move
into place.  The messages are two blocks and a byte (so the table walk is done with a
register that is not the initial one, and a byte follows the blocks), the same with one
bit of the second block changed, and one of four bytes whose CRC-32 is zero.  No two
messages agree in size and CRC: what a CRC cannot tell apart, the loader cannot either.

**Fairness.**  Weak fairness of each unpacker: EXPAND and the calls of Windows come to an end.
`DecompressLock` is handed on because each holder releases it for good.

### Observations

* When a file cannot be mapped, `Implementation2` drops what `GetCRC32` returns
  (`Crc32.cpp:674`), so every file has the CRC 0: it is downloaded again, and the verification
  fails, unless the list has the CRC 0 for a file of the same size.
  `VerifiedMeansPromised` has this one exception.
* A temporary file of an earlier session is moved into place when EXPAND has written nothing,
  and `DecompressFile` then reports its size as success.  `SuccessMeansReplaced` therefore
  does not promise the contents; the check afterwards finds out (`VerifiedMeansPromised`).

## 10. Proofs

**Downloader.** The theorems hold for any finite set of objects, any subset of compressed
ones and any bounds (`DownloaderAssumption`).

* `TypeCorrect` (`DownloaderTypes`): `Spec => []TypeOK`. `TypeOK` contains that the loops of
  the DL thread stay inside their vectors (`IndexOK`), so it needs `LockInv`: the queue
  grows only while the DL thread does not hold `m_RecursiveLock`.
* `Inductive` (`DownloaderProofs`): `Spec => []IInv`, where `IInv == TypeOK /\ LockInv /\ \A
  d : AccountInv(d) /\ NetInv(d) /\ LifeInv(d)`.
* `CountIsHolders`: `RefCount`; `DeletedIsUnreachable`: `NoDangling`; `RequestIsConnection`:
  `RequestMatchesConnection`; each follows from `IInv`.

`RefCount` alone is not inductive. That `Flush` releases an acquisition that exists needs
the commands to be counted (`Queued`); that the DL thread's removal loop releases only once
needs an object to be given to the thread at most once (`AccountInv`, second conjunct); this
needs that `StartAsyncDownload` found the object idle, hence that every pending add, list
place, unpacker and command in progress holds an acquisition; that a finish callback does
not meet a new start needs `request`, `conn` and the callback to agree (`NetInv`); and that
a step never touches an unborn or freed object is `LifeInv`. What the operations do to the
counts of the queue and the list are the lemmas on `OccurFrom` at the head of
`DownloaderTypes`, in turn proved from the cardinality of the set of positions.

* `FullInductive`: `Spec => []FullInv`, which adds to `IInv` what the *result* of an object
  rests on (`ResultInv`).
* `SuccessIsComplete`: `SuccessMeansComplete`; `ThreadEndsClean`: `ThreadDeletedClean`;
  `LocksNeverCycle`: `NoDeadlock`; `DownloaderImplementsService`: `Spec =>
  ImplementsService`.

`m_Status` says success from the start, so a success alone says nothing; `ResultInv` says
that until the file is there, something that holds the object is still underway (a command,
the connection, the unpacker). An idle object has no holder (`RefCount`), so its success is
the file. `NoDeadlock` rests on the object that `StartAsyncDownload` holds being in no other
hands (`AddingIsAlone`): then nobody waits for an `m_Lock` of the worker, the menu thread
waits for the DL thread only while that registers a download, where it needs no other lock,
and the two waits for `m_RecursiveLock` exclude each other. The refinement maps an object to
its phase in `DownloadService` (`ServicePhase`) and goes action by action: each is one step
of the service or leaves what its callers see as it is.

**File manager.** The theorems hold for any finite set of names, any contents, any lists and
any number of slots (`FileListAssumption`, `FileManagerAssumption`; the latter says also
that the mark of an empty slot is no name).

* `Inductive` (`FileManagerProofs`): `Spec => []IInv`; `TypeCorrect`: `TypeOK`.
* `ObjectsAreHeld`: `LiveObjectsAreInSlots`; `NothingIsForgotten`: `NothingForgotten`;
  `VerifiedIsSynchronized`: `VerifiedMeansSynchronized`; `CancelIsFalse`:
  `CancelledMeansFalse`; each follows from `IInv`.
* `OnlyDueTouched`: the action property `OnlyDueFilesTouched`, from `IInv` and each action.
* `UsesDownloadService`: `Spec => Dl!Spec`, that is, the file manager calls its downloads as
  `DownloadService` lets their owner; with `DownloaderImplementsService` the two meet.
* `SortKeepsList`: `SortBySize(fs) = fs` for every list, which is disagreement 5.

`IInv` has four parts. `ListInv`: an entry's real checks are those of the file on disk while
the list is built, and an entry that needs nothing stays as listed; this is what lets the
verification pass over it. `SlotInv`: the downloads that exist are those of the slots, one
each, of files that are due. `RoundInv`: what `finished` stands for in the middle of a
round, and that no file after `last` is waiting. `VerifyInv`: what the verification has
shown so far. That a transfer changes the file of its own entry only, and that names are
unique, is used in nearly every step.

**Master list.** The theorems hold for any set of lists whose section names occur once, any
URLs and any number of servers (`MasterListAssumption`).

* `Inductive` (`MasterListProofs`): `Spec => []IInv`; `TypeCorrect`: `TypeOK`.
* `ApprovedIsTrusted`: `Spec => []OnlyTrustedSources`, which follows from `IInv`.
* `MirrorsAreOffered`: `EveryMirrorOffered`, for sections of any length, from `IInv` and
  `OfferInv` (the URLs are those of the parameters until the mod's own section is met) and
  the lemma `ShiftedOffers` on the loop that moves the mirrors.

`OnlyTrustedSources` speaks of the end only. What makes it hold is that, while the sections
are looked at, an approval speaks for the engine only *and* the mod's own section, which
overrules it, has not been passed (`\A k \in Sections(Mod) : k >= i`).

**Game bridge.** The theorems hold for any set of identities of secondary threads and any
number of rounds (`GuiSyncAssumption`).

* `Inductive` (`GuiSyncProofs`): `Spec => []IInv`; `TypeCorrect`: `TypeOK`.
* `Exclusive`: `CallsAreExclusive`; `SecondThread`: `OneSecondThread`; `WindowKept`:
  `ActiveFollowsWindow`; `BarKept`: `BarIsOurs`; each follows from `IInv`.

`IInv` adds who holds `mt_csEnter` at each place of each thread (`HolderInv`), that the
cleared `mt_bMustExit` means that the only secondary thread is on its way out (`SecondInv`),
that what was kept of `b_is_Active` is still what the window says (`ActiveInv`), which
rests on the main thread being inside its frame, that `cyclesCount` does not pass zero
(`CyclesInv`), and that a download of the game shows its bar, so that a bar found free has
nothing behind it (`BarInv`).

**Mod update.** The theorems hold for any URLs, mirrors, command lines and number of starts
(`ModUpdateAssumption`, `CommandLineAssumption`).

* `Inductive` (`ModUpdateProofs`): `Spec => []IInv`; `TypeCorrect`: `TypeOK`.
* `BuiltFromLists`: `ActualizedIsListed`; `OldListsAreBack`: `FallbackIsOld`;
  `OldConfigIsSafe`: `OldConfigStays`.

What is promised of the files at the end rests on what has been applied at each place before
(`AppliedInv`: in particular that the engine's list follows a whole gamedata list, and that
only a failed 64-bit list can stand between them) and on what the backups hold and when they
have been put back (`BackupInv`).

**Kernel.** The theorems hold for any finite set of games and any number of calls and
crashes (`KernelAssumption`).

* `Inductive` (`KernelProofs`): `Spec => []IInv`; `TypeCorrect`: `TypeOK`.
* `DllStays`: `DllStaysLoaded`; `OneInside`: `OneThreadInside`; `SemaphoreBack`:
  `SemaphoreRecovers`; `NameStays`: `NameStaysForWorker`.

`IInv` has three parts. *The mutex*: who is inside owns it and has a handle to it
(`HolderInv`), who owns it is inside or has once kept it (`OwnerInv`), what is used there is
not freed (`LiveInv`), and a main thread owns it twice only if it kept it (`KeptInv`). *The semaphore*: a worker may close the handle of a
call that is not its own, so it has to be shown that a call that is asking for the semaphore
has a handle which no worker has pushed (`AskingInv`); this needs that calls are numbered
and that nobody knows a handle of the future (`UsedInv`). *The DLL*: there is a reference
for every worker, and one more while the next is about to be spawned (`DllInv`), counted by
`Cardinality` of the workers.

**Checksums and delivery.** The theorems hold for files of any length and any contents;
`CrcTable` is assumed to follow the rule of the tables (`CrcTableAssumption`), and
`Bytewise` to be the register that the bytewise algorithm has (`BytewiseAssumption`). TLC
evaluates both.

* `BlocksAreBytes` (`DeliveryProofs`): `RegisterIsBytewise`, after any number of blocks and
  bytes.
* `MappedCrcIsStandard`: `CrcIsStandard`; `TypeCorrect`: `TypeOK` of `Crc32Properties`.

The argument is that shifting and table lookup are linear over the symmetric difference
(`BitStepLinear`, `TableLinear`, `ZeroLinear`), hence that a table applied to a byte is that
byte followed by as many zero bytes as the table's number (`NextByte`), hence that sixteen
lookups are sixteen bytes (`SixteenBytes`).

Of a delivery, for any number of files, unpackers and sessions (`DeliveryAssumption`):

* `Inductive`: `DeliverySpec => []DeliveryInv`; `DeliveredCrcIsStandard`: `CrcIsStandard`;
  `SuccessIsReplaced`: `SuccessMeansReplaced`.
* `VerifiedIsPromised`: `VerifiedMeansPromised`, *if* nothing that may be on disk instead of
  a file has both its size and its CRC (`NoCollision`). This is a property of the files, not
  of the code, so it is a hypothesis of the theorem and no assumption on the constants; TLC
  finds it true of the messages of `MCDelivery`.

`DeliveryInv` adds to the invariant of the check: what an unpacker leaves beside a file is
never the archive, and a success has been moved into its place (`UnpackInv`); what is being
checked is the file whose turn it is, and no unpacker runs meanwhile (`CheckInv`), so that
what was read is what is on disk; and only a mapped file has a CRC other than zero
(`ReadInv`).

**Recursion.** The two recursive functions of `SortBySize` (`FileList`) are the only ones in
modules with theorems. Their defining equation has a solution, because the constant function
is one; and what every solution is at each index is shown by a least or greatest
counterexample (`Least`, `Greatest`), since no induction theorem of the library can be
instantiated here.

**Only model-checked.** All liveness (`DeleteReturns`, `JoinReturns`,
`ActualizeFilesReturns`, `UpdateEnds`, `SafeExecReturns`, `UnpackReturns`), which, like
ENABLED, is out of the prover's reach. Every invariant, action property and refinement that
a run checks is also proved.

## 11. Not modelled

* The text format of ini files (`IniFile.cpp`): what a list says is a value of `MasterList`
  and `FileManager`.  Three details that this leaves out: a value is cut at its first `;`,
  unless that is its first character; `GetHex` takes a value of blanks for a number; and a
  negative `files_count` makes a list that applies nothing and succeeds.
* The message window, `AbortConnection` and the hook of the connect button
  (`Abstractions.cpp`): what they do depends on data of the engine that the source only
  knows by address.
* The other keys of the command line: looked up as those of `CommandLine` are, and their
  values only copied.
* Logging, crash reports (`DebugTools.cpp`), the code patcher (`Hook.cpp`), and
  `WinapiDownloadFile.cpp`, which nothing calls: input and output.
* The Curl downloader, which is commented out in the source.
