------------------------- MODULE ModUpdateProperties -------------------------
(***************************************************************************)
(* What UpdateModFiles promises: the mod that is started was built from    *)
(* the list files that are on disk, of a new configuration or of the old.  *)
(***************************************************************************)
EXTENDS ModUpdate

ToEngine == {"engine64", "engine"}
Pairs == [game : Given, bin : Given]

\* Every variable has the values the code can give it, mirrorId stays within
\* its bound, and an engine list is looked for only where a URL is given.
TypeOK ==
    /\ gameFile \in Contents /\ binFile \in Contents
    /\ oldGamelist \in Contents /\ oldBinlist \in Contents
    /\ params \in CommandLines
    /\ pc \in ToEngine \cup {"off", "lists", "game", "next", "listed", "restoring",
              "oldengine", "actualize", "run", "client", "started", "waiting", "done"}
    /\ approval \in {"APPROVED", "ONLY_OLD_CONFIG"}
    /\ mirrors \in Seq(Pairs) /\ mirrorId \in 0..Len(mirrors) + 1
    /\ gameUrl \in Given /\ binUrl \in Given /\ tried \subseteq Pairs
    /\ applied \in Seq([list : {"game", "bin"}, from : Contents, whole : BOOLEAN])
    /\ flag \in BOOLEAN /\ cancelled \in BOOLEAN /\ fellBack \in BOOLEAN
    /\ starts \in 0..MaxStarts /\ atStart \in [game : Contents, bin : Contents]
    /\ pc \in ToEngine => binUrl # NoUrl

-------------------------------------------------------------------------------
(* Safety *)

Updating == pc \in {"actualize", "run", "client", "started"}

WholeGamelist == [list |-> "game", from |-> gameFile, whole |-> TRUE]

\* First all of the gamedata list, then all of the engine list, if there is a
\* URL for it, with nothing of an earlier attempt in between except what a
\* failed x64 engine list has left.
Listed ==
    /\ Len(applied) \in 1..3 /\ applied[1] = WholeGamelist
    /\ \A k \in 2..Len(applied) :
          /\ applied[k].list = "bin"
          /\ applied[k].whole => applied[k].from = binFile
          /\ ~applied[k].whole => k = 2 /\ Try64 /\ Len(applied) = 3
    /\ ~fellBack /\ binUrl # NoUrl => Len(applied) > 1

\* Whenever the files are actualized and the mod is started, the entries come
\* from the list files now on disk (ModLoader.cpp:978-1042).
ActualizedIsListed == Updating => Listed

\* If the old configuration is used after the sources have failed, the gamedata
\* list on disk is the one of before, and so is the engine list if it could be
\* remembered.
FallbackIsOld ==
    Updating /\ fellBack =>
        /\ gameFile = atStart.game
        /\ oldBinlist # Nothing => binFile = atStart.bin

\* While only the old configuration is allowed, the list files never change,
\* so that it can be used again; not even in a crash.
OldConfigStays ==
    [][approval = "ONLY_OLD_CONFIG" /\ pc \notin {"off", "done"}
         => UNCHANGED listFiles]_vars

-------------------------------------------------------------------------------
(* The inductive invariant *)

\* What has been applied to files so far, at each place of GetFileLists and of
\* the fallback.
AppliedInv ==
    /\ pc \in {"game", "restoring"} => applied = << >>
    /\ pc \in ToEngine \cup {"oldengine"} => Len(applied) > 0 /\ applied[1] = WholeGamelist
    /\ pc \in {"engine64", "oldengine"} => Len(applied) = 1
    /\ pc = "engine64" => Try64
    /\ pc = "engine" /\ Len(applied) # 1 =>
          Len(applied) = 2 /\ applied[2].list = "bin" /\ ~applied[2].whole /\ Try64
    /\ pc \in {"next", "listed"} /\ flag => Listed

\* What the backups hold, and what has been put back.
BackupInv ==
    /\ Backup(oldGamelist, atStart.game) /\ Backup(oldBinlist, atStart.bin)
    /\ pc \in ToEngine \cup {"lists", "game", "next", "listed"} => ~fellBack
    /\ pc \in {"restoring", "oldengine"} => fellBack /\ approval = "APPROVED"
    /\ pc = "oldengine" => gameFile = atStart.game /\ oldBinlist # Nothing

IInv == TypeOK /\ AppliedInv /\ BackupInv /\ ActualizedIsListed /\ FallbackIsOld

-------------------------------------------------------------------------------
(* Liveness *)

\* The worker runs until the process ends; downloads and ActualizeFiles return
\* (DownloaderProperties, FileManagerProperties) unless a request is refused, and
\* nothing makes the library refuse one.
FairSpec == Spec /\ WF_vars(Worker)

\* With a mirror in the master list the update comes to an end, whatever servers,
\* lists and disks fail, unless the library refuses a request: then the worker waits
\* for ever (HttpDownloader.cpp:689).
UpdateEnds ==
    pc = "lists" /\ mirrors # << >> ~> pc \in {"off", "done", "waiting"}

-------------------------------------------------------------------------------
(* What the comments and messages say *)

\* ModLoader.cpp:882, "the attempt to use a mirror failed - try the next one":
\* the old lists are used only after every mirror has been tried.
MirrorsTried ==
    pc = "restoring" /\ ~IsMirrorsDisabled(params) =>
        \A k \in DOMAIN mirrors : mirrors[k] \in tried
===============================================================================
