---------------------------- MODULE ModUpdateProofs ----------------------------
(***************************************************************************)
(* Proofs about the mod update, for any URLs, mirrors, command lines and   *)
(* number of starts.                                                       *)
(***************************************************************************)
EXTENDS ModUpdateProperties, TLAPS

Entries == [list : {"game", "bin"}, from : Contents, whole : BOOLEAN]
Frame == <<gameFile, binFile, applied, params, binUrl, fellBack>>

\* Listed speaks of these variables only.
LEMMA ListedKept == UNCHANGED Frame => Listed' = Listed
  BY DEF Frame, Listed, WholeGamelist, Try64

\* What one more entry does to the entries applied so far.
LEMMA OneMore ==
    ASSUME NEW s \in Seq(Entries), NEW e \in Entries
    PROVE  /\ Append(s, e) \in Seq(Entries) /\ Len(Append(s, e)) = Len(s) + 1
           /\ Append(s, e)[Len(s) + 1] = e
           /\ Len(s) > 0 => Append(s, e)[1] = s[1]
           /\ Len(s) > 1 => Append(s, e)[2] = s[2]
  OBVIOUS

\* What a list file may hold after a download.
LEMMA ContentsOf ==
    /\ Urls \subseteq Contents /\ Urls64 \subseteq Contents /\ "broken" \in Contents
    /\ "absent" \in Contents /\ "absent" \notin {"broken"}
    /\ \A u \in Urls : Url64[u] \in Urls64
  BY ModUpdateAssumption DEF Contents, Versions

\* What a step that leaves the lists, what is applied and the backups alone has
\* to keep.
LEMMA QuietStep ==
    ASSUME IInv, UNCHANGED Frame, TypeOK',
           UNCHANGED <<oldGamelist, oldBinlist, atStart, approval>>,
           pc' \in {"next", "listed", "lists"} => ~fellBack,
           pc' \in {"next", "listed"} /\ flag' => Listed,
           pc' \in ToEngine \cup {"game", "restoring", "oldengine"} => pc' = pc,
           pc' \in {"actualize", "run", "client", "started"} => Listed /\ (fellBack => Updating)
    PROVE  IInv'
<1>1. Listed' = Listed
    BY ListedKept
<1>2. AppliedInv'
    BY <1>1 DEF IInv, AppliedInv, Frame, ToEngine, WholeGamelist, Try64
<1>3. BackupInv'
    BY DEF IInv, BackupInv, Frame, ToEngine, Backup
<1>4. ActualizedIsListed'
    BY <1>1 DEF ActualizedIsListed, Updating
<1>5. FallbackIsOld'
    BY DEF IInv, FallbackIsOld, Updating, Frame
<1> QED
    BY <1>2, <1>3, <1>4, <1>5 DEF IInv

\* A step after which the loader is not at work.
LEMMA OffStep ==
    ASSUME IInv, TypeOK', UNCHANGED <<oldGamelist, oldBinlist, atStart>>,
           pc' \in {"off", "done"}
    PROVE  IInv'
  BY DEF IInv, AppliedInv, BackupInv, ActualizedIsListed, FallbackIsOld, Updating,
         ToEngine, Backup

LEMMA InitIInv == Init => IInv
<1> SUFFICES ASSUME Init PROVE IInv
    OBVIOUS
<1>1. TypeOK
    <2>1. {"absent", "broken", "old"} \subseteq Contents /\ Nothing \in Contents /\ NoUrl \in Given
        BY DEF Contents, Versions, Nothing, Given
    <2>2. mirrors \in Seq(Pairs) /\ applied \in Seq(Entries) /\ Len(mirrors) = 0
        BY DEF Init
    <2>3. starts \in 0..MaxStarts /\ mirrorId \in 0..Len(mirrors) + 1
        BY <2>2, ModUpdateAssumption DEF Init
    <2>4. atStart \in [game : Contents, bin : Contents] /\ tried \subseteq Pairs
        BY <2>1 DEF Init
    <2> QED
        BY <2>1, <2>2, <2>3, <2>4 DEF Init, TypeOK, ToEngine, Entries
<1> QED
    BY <1>1 DEF Init, IInv, AppliedInv, BackupInv, ActualizedIsListed, FallbackIsOld,
       Updating, ToEngine, Backup, Nothing

-------------------------------------------------------------------------------
(* Steps that leave the lists alone *)

\* The frame of these steps.
LEMMA QuietFrame ==
    ASSUME IInv, UNCHANGED <<listFiles, settings, urls, applied, fellBack>>
    PROVE  /\ UNCHANGED Frame
           /\ UNCHANGED <<oldGamelist, oldBinlist, atStart, approval>>
           /\ (flag' \in BOOLEAN /\ cancelled' \in BOOLEAN
                 /\ pc' \in {"off", "done", "listed", "actualize", "run", "client", "started",
                            "waiting", pc})
                 => TypeOK'
  BY DEF IInv, TypeOK, Frame, listFiles, settings, urls, ToEngine

LEMMA QuietIInv ==
    ASSUME IInv,
           ListsEnd \/ ListsApplied \/ OldListsFailed \/ ActualizeFiles \/ BuildFsGame
             \/ RunClient \/ RunClientFails \/ PortIsNoNumber \/ GameRestarts
             \/ RequestRefused \/ UserCancels \/ UNCHANGED vars
    PROVE  IInv'
<1> USE DEF IInv
<1>1. CASE ListsEnd
    <2>1. UNCHANGED Frame /\ UNCHANGED <<oldGamelist, oldBinlist, atStart, approval>> /\ TypeOK'
        BY <1>1, QuietFrame DEF ListsEnd, TypeOK
    <2> QED
        BY <1>1, <2>1, QuietStep DEF ListsEnd, AppliedInv, BackupInv, ActualizedIsListed, Updating, ToEngine
<1>2. CASE ListsApplied
    <2>1. UNCHANGED Frame /\ UNCHANGED <<oldGamelist, oldBinlist, atStart, approval>> /\ TypeOK'
        BY <1>2, QuietFrame DEF ListsApplied, TypeOK
    <2> QED
        BY <1>2, <2>1, QuietStep DEF ListsApplied, AppliedInv, BackupInv, ActualizedIsListed, Updating, ToEngine
<1>3. CASE OldListsFailed
    <2>1. UNCHANGED Frame /\ UNCHANGED <<oldGamelist, oldBinlist, atStart, approval>> /\ TypeOK'
        BY <1>3, QuietFrame DEF OldListsFailed, TypeOK
    <2> QED
        BY <1>3, <2>1, QuietStep DEF OldListsFailed, AppliedInv, BackupInv, ActualizedIsListed, Updating, ToEngine
<1>4. CASE ActualizeFiles
    <2>1. UNCHANGED Frame /\ UNCHANGED <<oldGamelist, oldBinlist, atStart, approval>> /\ TypeOK'
        BY <1>4, QuietFrame DEF ActualizeFiles, TypeOK
    <2> QED
        BY <1>4, <2>1, QuietStep DEF ActualizeFiles, AppliedInv, BackupInv, ActualizedIsListed, Updating, ToEngine
<1>5. CASE BuildFsGame
    <2>1. UNCHANGED Frame /\ UNCHANGED <<oldGamelist, oldBinlist, atStart, approval>> /\ TypeOK'
        BY <1>5, QuietFrame DEF BuildFsGame, TypeOK
    <2> QED
        BY <1>5, <2>1, QuietStep DEF BuildFsGame, AppliedInv, BackupInv, ActualizedIsListed, Updating, ToEngine
<1>6. CASE RunClient
    <2>1. UNCHANGED Frame /\ UNCHANGED <<oldGamelist, oldBinlist, atStart, approval>> /\ TypeOK'
        BY <1>6, QuietFrame DEF RunClient, TypeOK
    <2> QED
        BY <1>6, <2>1, QuietStep DEF RunClient, AppliedInv, BackupInv, ActualizedIsListed, Updating, ToEngine
<1>7. CASE RunClientFails
    <2>1. UNCHANGED Frame /\ UNCHANGED <<oldGamelist, oldBinlist, atStart, approval>> /\ TypeOK'
        BY <1>7, QuietFrame DEF RunClientFails, TypeOK
    <2> QED
        BY <1>7, <2>1, QuietStep DEF RunClientFails, AppliedInv, BackupInv, ActualizedIsListed, Updating, ToEngine
<1>8. CASE PortIsNoNumber
    <2>1. UNCHANGED Frame /\ UNCHANGED <<oldGamelist, oldBinlist, atStart, approval>> /\ TypeOK'
        BY <1>8, QuietFrame DEF PortIsNoNumber, TypeOK
    <2> QED
        BY <1>8, <2>1, QuietStep DEF PortIsNoNumber, AppliedInv, BackupInv, ActualizedIsListed, Updating, ToEngine
<1>9. CASE GameRestarts
    <2>1. UNCHANGED Frame /\ UNCHANGED <<oldGamelist, oldBinlist, atStart, approval>> /\ TypeOK'
        BY <1>9, QuietFrame DEF GameRestarts, TypeOK
    <2> QED
        BY <1>9, <2>1, QuietStep DEF GameRestarts, AppliedInv, BackupInv, ActualizedIsListed, Updating, ToEngine
<1>10. CASE UserCancels
    <2>1. UNCHANGED Frame /\ UNCHANGED <<oldGamelist, oldBinlist, atStart, approval>> /\ TypeOK'
        BY <1>10, QuietFrame DEF UserCancels, TypeOK
    <2> QED
        BY <1>10, <2>1, QuietStep DEF UserCancels, AppliedInv, BackupInv, ActualizedIsListed, Updating, ToEngine
<1>11. CASE UNCHANGED vars
    <2>1. UNCHANGED Frame /\ UNCHANGED <<oldGamelist, oldBinlist, atStart, approval>> /\ TypeOK'
        BY <1>11, QuietFrame DEF vars, TypeOK
    <2> QED
        BY <1>11, <2>1, QuietStep DEF vars, AppliedInv, BackupInv, ActualizedIsListed, Updating, ToEngine
<1>12. CASE RequestRefused
    <2>1. UNCHANGED Frame /\ UNCHANGED <<oldGamelist, oldBinlist, atStart, approval>> /\ TypeOK'
        BY <1>12, QuietFrame DEF RequestRefused, TypeOK
    <2> QED
        BY <1>12, <2>1, QuietStep DEF RequestRefused, AppliedInv, BackupInv, ActualizedIsListed, Updating, ToEngine
<1> QED
    BY <1>1, <1>2, <1>3, <1>4, <1>5, <1>6, <1>7, <1>8, <1>9, <1>10, <1>11, <1>12

-------------------------------------------------------------------------------
(* Steps of GetFileLists and of the fallback *)

\* The mirrors that move up are mirrors again.
LEMMA ApprovedType ==
    ASSUME NEW pair, NEW others, Approved(pair, others) \/ OldConfigOnly(pair, others)
    PROVE  others \in Seq(Pairs)
<1>1. ASSUME NEW l \in MirrorLists, others = [k \in DOMAIN l |-> l[Few(k + 1, Len(l))]]
      PROVE  others \in Seq(Pairs)
    <2>1. l \in Seq(Pairs)
        BY ModUpdateAssumption DEF Pairs
    <2>2. \A k \in 1..Len(l) : Few(k + 1, Len(l)) \in 1..Len(l)
        BY <2>1 DEF Few
    <2>3. others \in [1..Len(l) -> Pairs]
        BY <1>1, <2>1, <2>2
    <2> QED
        BY <2>1, <2>3
<1>2. ASSUME NEW l \in MirrorLists, others = l PROVE others \in Seq(Pairs)
    BY <1>2, ModUpdateAssumption DEF Pairs
<1>3. CASE Approved(pair, others)
    <2>1. PICK l \in MirrorLists :
              others = l \/ others = [k \in DOMAIN l |-> l[Few(k + 1, Len(l))]]
        BY <1>3, Zenon DEF Approved
    <2> QED
        BY <1>1, <1>2, <2>1, Zenon
<1>4. CASE OldConfigOnly(pair, others)
    BY <1>4 DEF OldConfigOnly
<1> QED
    BY <1>3, <1>4

LEMMA StartIInv == ASSUME IInv, Start PROVE IInv'
<1>1. mirrors' \in Seq(Pairs) /\ mirrorId' \in 0..Len(mirrors') + 1
    <2>1. mirrors' \in Seq(Pairs)
        BY ApprovedType DEF Start
    <2> QED
        BY <2>1 DEF Start
<1>2. starts' \in 0..MaxStarts
    BY ModUpdateAssumption DEF Start, IInv, TypeOK
<1>3. gameUrl' \in Given /\ binUrl' \in Given
    BY DEF Start
<1>4. gameFile' \in Contents /\ binFile' \in Contents /\ Nothing \in Contents
    BY DEF Start, listFiles, IInv, TypeOK, Nothing, Contents
<1>5. oldGamelist' \in Contents /\ oldBinlist' \in Contents
          /\ atStart' \in [game : Contents, bin : Contents]
    BY <1>4 DEF Start, Backup, listFiles
<1>6. applied' \in Seq(Entries)
    BY DEF Start
<1>7. TypeOK'
    BY <1>1, <1>2, <1>3, <1>4, <1>5, <1>6 DEF Start, TypeOK, ToEngine, Entries
<1>8. BackupInv' /\ AppliedInv' /\ ActualizedIsListed' /\ FallbackIsOld'
    BY DEF Start, BackupInv, AppliedInv, ActualizedIsListed, FallbackIsOld, Updating,
       ToEngine, Backup
<1> QED
    BY <1>7, <1>8 DEF IInv

LEMMA TryUrlsIInv == ASSUME IInv, TryUrls PROVE IInv'
<1>1. tried' \subseteq Pairs /\ applied' \in Seq(Entries)
    BY DEF TryUrls, IInv, TypeOK, Pairs
<1>2. TypeOK'
    BY <1>1 DEF TryUrls, IInv, TypeOK, ToEngine, Entries, listFiles, settings
<1>3. AppliedInv' /\ BackupInv' /\ ActualizedIsListed' /\ FallbackIsOld'
    BY DEF TryUrls, IInv, AppliedInv, BackupInv, ActualizedIsListed, FallbackIsOld,
       Updating, ToEngine, Backup, listFiles, settings
<1> QED
    BY <1>2, <1>3 DEF IInv

LEMMA NextMirrorIInv == ASSUME IInv, NextMirror PROVE IInv'
<1> DEFINE n == Len(mirrors)
<1>0. n \in Nat /\ mirrorId \in 0..n + 1
    BY DEF IInv, TypeOK
<1>1. mirrorId' \in 0..Len(mirrors') + 1
    BY <1>0 DEF NextMirror, Few, settings
<1>2. gameUrl' \in Given /\ binUrl' \in Given
    <2>1. CASE mirrorId < n
        <3>1. mirrors[mirrorId + 1] \in Pairs
            BY <1>0, <2>1 DEF IInv, TypeOK
        <3> QED
            BY <2>1, <3>1 DEF NextMirror, Pairs
    <2>2. CASE ~(mirrorId < n)
        BY <2>2 DEF NextMirror, IInv, TypeOK
    <2> QED
        BY <2>1, <2>2
<1>3. TypeOK'
    BY <1>1, <1>2 DEF NextMirror, IInv, TypeOK, ToEngine, listFiles, settings
<1>4. AppliedInv' /\ BackupInv' /\ ActualizedIsListed' /\ FallbackIsOld'
    BY DEF NextMirror, LoopEnds, IInv, AppliedInv, BackupInv, ActualizedIsListed,
       FallbackIsOld, Updating, ToEngine, Backup, listFiles, settings
<1> QED
    BY <1>3, <1>4 DEF IInv

LEMMA FallBackIInv == ASSUME IInv, FallBack PROVE IInv'
<1>1. applied' \in Seq(Entries)
    BY DEF FallBack
<1>2. TypeOK'
    BY <1>1 DEF FallBack, IInv, TypeOK, ToEngine, Entries, listFiles, settings, urls
<1>3. AppliedInv' /\ BackupInv' /\ ActualizedIsListed' /\ FallbackIsOld'
    BY DEF FallBack, IInv, TypeOK, AppliedInv, BackupInv, ActualizedIsListed,
       FallbackIsOld, Updating, ToEngine, Backup, listFiles, settings, urls
<1> QED
    BY <1>2, <1>3 DEF IInv

LEMMA CrashIInv == ASSUME IInv, Crash PROVE IInv'
<1>1. TypeOK'
    BY ContentsOf DEF Crash, IInv, TypeOK, ToEngine, settings, urls
<1> QED
    BY <1>1, OffStep DEF Crash, settings

LEMMA NotStartedIInv == ASSUME IInv, NotStarted PROVE IInv'
<1>1. starts' \in 0..MaxStarts
    BY ModUpdateAssumption DEF NotStarted, IInv, TypeOK
<1>2. TypeOK'
    BY <1>1 DEF NotStarted, IInv, TypeOK, ToEngine, listFiles, urls
<1> QED
    BY <1>2, OffStep DEF NotStarted

\* A little arithmetic for the lengths before and after.
LEMMA OneLonger ==
    \A m, n : n \in 1..2 /\ m = n + 1 =>
        /\ m \in 1..3 /\ m > 1
        /\ \A k \in 2..m : k # n + 1 => k = 2 /\ n = 2 /\ m = 3
  OBVIOUS

LEMMA ApplyGamelistIInv == ASSUME IInv, ApplyGamelist PROVE IInv'
<1>1. PICK ok \in BOOLEAN :
          /\ ApplyList("game", gameFile, gameUrl, gameFile', ok)
          /\ flag' = ok
          /\ pc' = IF ~ok \/ binUrl = NoUrl THEN "next"
                   ELSE IF Try64 THEN "engine64" ELSE "engine"
    BY DEF ApplyGamelist
<1> DEFINE e == [list |-> "game", from |-> gameFile', whole |-> ok]
<1>2. pc = "game" /\ applied = << >> /\ applied \in Seq(Entries)
    BY DEF ApplyGamelist, IInv, AppliedInv, TypeOK, Entries
<1>3. /\ gameFile' \in Contents
      /\ applied' = Append(applied, e) \/ (~ok /\ applied' = applied)
    BY <1>1, ContentsOf DEF IInv, TypeOK, Given, ApplyList, Apply, Downloaded
<1>4. e \in Entries
    BY <1>3 DEF Entries
<1>0. ok => e = WholeGamelist'
    BY DEF WholeGamelist
<1> HIDE DEF e
<1>5. /\ applied' \in Seq(Entries)
      /\ ok => Len(applied') = 1 /\ applied'[1] = e
    <2>1. Append(applied, e) \in Seq(Entries) /\ Len(Append(applied, e)) = 1
              /\ Append(applied, e)[1] = e
        BY <1>2, <1>4, OneMore
    <2> QED
        BY <1>2, <1>3, <2>1
<1>6. TypeOK'
    BY <1>1, <1>3, <1>5
    DEF ApplyGamelist, IInv, TypeOK, ToEngine, Entries, settings, urls
<1>7. ok /\ binUrl = NoUrl => Listed'
    <2> SUFFICES ASSUME ok, binUrl = NoUrl PROVE Listed'
        OBVIOUS
    <2>1. Len(applied') = 1 /\ applied'[1] = WholeGamelist'
        BY <1>0, <1>5
    <2>2. 2..Len(applied') = {}
        BY <2>1
    <2>3. binUrl' = NoUrl
        BY DEF ApplyGamelist, urls
    <2> QED
        BY <2>1, <2>2, <2>3 DEF Listed
<1>8. AppliedInv'
    BY <1>0, <1>1, <1>5, <1>7 DEF ApplyGamelist, AppliedInv, ToEngine, Try64, settings
<1>9. BackupInv' /\ ActualizedIsListed' /\ FallbackIsOld'
    BY <1>1 DEF ApplyGamelist, IInv, BackupInv, ActualizedIsListed, FallbackIsOld,
       Updating, ToEngine, Backup, settings
<1> QED
    BY <1>6, <1>8, <1>9 DEF IInv

LEMMA ApplyBinlist64IInv == ASSUME IInv, ApplyBinlist64 PROVE IInv'
<1>1. PICK ok \in BOOLEAN :
          /\ ApplyList("bin", binFile, Url64[binUrl], binFile', ok)
          /\ pc' = IF ok THEN "next" ELSE "engine"
    BY DEF ApplyBinlist64
<1> DEFINE e == [list |-> "bin", from |-> binFile', whole |-> ok]
<1>2. /\ pc = "engine64" /\ Try64 /\ ~fellBack /\ binUrl \in Urls
      /\ applied \in Seq(Entries) /\ Len(applied) = 1 /\ applied[1] = WholeGamelist
    BY DEF ApplyBinlist64, IInv, AppliedInv, BackupInv, TypeOK, Entries, ToEngine, Given
<1>3. /\ binFile' \in Contents
      /\ applied' = Append(applied, e) \/ (~ok /\ applied' = applied)
    <2>1. Url64[binUrl] \in Urls64
        BY <1>2, ContentsOf
    <2> QED
        BY <1>1, <2>1, ContentsOf DEF IInv, TypeOK, ApplyList, Apply, Downloaded
<1>4. e \in Entries
    BY <1>3 DEF Entries
<1>0. e.list = "bin" /\ e.whole = ok /\ e.from = binFile'
    OBVIOUS
<1> HIDE DEF e
<1>5. /\ applied' \in Seq(Entries) /\ applied'[1] = WholeGamelist
      /\ applied' = applied \/ (Len(applied') = 2 /\ applied'[2] = e)
      /\ ok => Len(applied') = 2 /\ applied'[2] = e
    <2>1. /\ Append(applied, e) \in Seq(Entries) /\ Len(Append(applied, e)) = 2
          /\ Append(applied, e)[1] = applied[1] /\ Append(applied, e)[2] = e
        BY <1>2, <1>4, OneMore
    <2> QED
        BY <1>2, <1>3, <2>1
<1>6. TypeOK'
    BY <1>1, <1>2, <1>3, <1>5
    DEF ApplyBinlist64, IInv, TypeOK, ToEngine, Entries, settings, urls
<1>7. Try64' /\ WholeGamelist' = WholeGamelist /\ flag' = flag
    BY <1>2 DEF ApplyBinlist64, Try64, WholeGamelist, settings
<1>8. ok => Listed'
    <2> SUFFICES ASSUME ok PROVE Listed'
        OBVIOUS
    <2>0. applied'[1] = WholeGamelist'
        BY <1>5, <1>7
    <2>1. /\ Len(applied') = Len(applied) + 1 /\ applied'[Len(applied) + 1] = e
          /\ Len(applied) \in 1..2
        BY <1>2, <1>5
    <2>2. ASSUME NEW k \in 2..Len(applied')
          PROVE  /\ applied'[k].list = "bin"
                 /\ applied'[k].whole => applied'[k].from = binFile'
                 /\ ~applied'[k].whole => k = 2 /\ Try64' /\ Len(applied') = 3
        <3>1. CASE k = Len(applied) + 1
            BY <1>0, <2>1, <3>1
        <3>2. CASE k # Len(applied) + 1
            BY <1>2, <1>5, <1>7, <2>1, <3>2
        <3> QED
            BY <3>1, <3>2
    <2>3. Len(applied') \in 1..3 /\ Len(applied') > 1
        BY <2>1, OneLonger, Zenon
    <2> QED
        BY <2>0, <2>2, <2>3 DEF Listed
<1>9. AppliedInv'
    BY <1>0, <1>1, <1>2, <1>5, <1>7, <1>8 DEF AppliedInv, ToEngine
<1>10. BackupInv' /\ ActualizedIsListed' /\ FallbackIsOld'
    BY <1>1, <1>2 DEF ApplyBinlist64, IInv, BackupInv, ActualizedIsListed, FallbackIsOld,
       Updating, ToEngine, Backup, settings
<1> QED
    BY <1>6, <1>9, <1>10 DEF IInv

LEMMA ApplyBinlistIInv == ASSUME IInv, ApplyBinlist PROVE IInv'
<1>1. PICK ok \in BOOLEAN :
          ApplyList("bin", binFile, binUrl, binFile', ok) /\ flag' = ok
    BY DEF ApplyBinlist
<1> DEFINE e == [list |-> "bin", from |-> binFile', whole |-> ok]
<1>2. /\ pc = "engine" /\ ~fellBack /\ applied \in Seq(Entries)
      /\ Len(applied) > 0 /\ applied[1] = WholeGamelist
      /\ \/ Len(applied) = 1
         \/ Len(applied) = 2 /\ applied[2].list = "bin" /\ ~applied[2].whole /\ Try64
    BY DEF ApplyBinlist, IInv, AppliedInv, BackupInv, TypeOK, Entries, ToEngine
<1>3. /\ binFile' \in Contents
      /\ applied' = Append(applied, e) \/ (~ok /\ applied' = applied)
    BY <1>1, ContentsOf DEF IInv, TypeOK, Given, ApplyList, Apply, Downloaded
<1>4. e \in Entries
    BY <1>3 DEF Entries
<1>0. e.list = "bin" /\ e.whole = ok /\ e.from = binFile'
    OBVIOUS
<1> HIDE DEF e
<1>5. /\ applied' \in Seq(Entries) /\ applied'[1] = WholeGamelist
      /\ ok => /\ Len(applied') = Len(applied) + 1 /\ applied'[Len(applied) + 1] = e
               /\ Len(applied) = 2 => applied'[2] = applied[2]
    BY <1>2, <1>3, <1>4, OneMore
<1>6. TypeOK'
    BY <1>1, <1>3, <1>5
    DEF ApplyBinlist, IInv, TypeOK, ToEngine, Entries, settings, urls
<1>7. Try64' = Try64 /\ WholeGamelist' = WholeGamelist
    BY DEF ApplyBinlist, Try64, WholeGamelist, settings
<1>8. ok => Listed'
    <2> SUFFICES ASSUME ok PROVE Listed'
        OBVIOUS
    <2>0. applied'[1] = WholeGamelist'
        BY <1>5, <1>7
    <2>1. /\ Len(applied') = Len(applied) + 1 /\ applied'[Len(applied) + 1] = e
          /\ Len(applied) \in 1..2
        BY <1>2, <1>5
    <2>2. ASSUME NEW k \in 2..Len(applied')
          PROVE  /\ applied'[k].list = "bin"
                 /\ applied'[k].whole => applied'[k].from = binFile'
                 /\ ~applied'[k].whole => k = 2 /\ Try64' /\ Len(applied') = 3
        <3>1. CASE k = Len(applied) + 1
            BY <1>0, <2>1, <3>1
        <3>2. CASE k # Len(applied) + 1
            <4>1. k = 2 /\ Len(applied) = 2 /\ Len(applied') = 3
                BY <2>1, <3>2, OneLonger, Zenon
            <4>2. applied[2].list = "bin" /\ ~applied[2].whole /\ Try64
                BY <1>2, <4>1
            <4>3. applied'[2] = applied[2]
                BY <1>5, <4>1
            <4> QED
                BY <1>7, <4>1, <4>2, <4>3
        <3> QED
            BY <3>1, <3>2
    <2>3. Len(applied') \in 1..3 /\ Len(applied') > 1
        BY <2>1, OneLonger, Zenon
    <2> QED
        BY <2>0, <2>2, <2>3 DEF Listed
<1>9. AppliedInv'
    BY <1>1, <1>8 DEF ApplyBinlist, AppliedInv, ToEngine
<1>10. BackupInv' /\ ActualizedIsListed' /\ FallbackIsOld'
    BY <1>2 DEF ApplyBinlist, IInv, BackupInv, ActualizedIsListed, FallbackIsOld,
       Updating, ToEngine, Backup, settings
<1> QED
    BY <1>6, <1>9, <1>10 DEF IInv

LEMMA RestoreGamelistIInv == ASSUME IInv, RestoreGamelist PROVE IInv'
<1>1. PICK restored \in BOOLEAN, whole \in BOOLEAN :
          /\ Restored(gameFile, oldGamelist, gameFile', restored)
          /\ IF restored THEN Apply("game", gameFile', whole)
             ELSE ~whole /\ UNCHANGED applied
          /\ flag' = whole
    BY DEF RestoreGamelist
<1>2. /\ pc' = IF ~whole THEN "done"
               ELSE IF oldBinlist # Nothing THEN "oldengine" ELSE "actualize"
      /\ UNCHANGED <<binFile, settings, urls, cancelled, fellBack>>
    BY <1>1 DEF RestoreGamelist
<1> DEFINE e == [list |-> "game", from |-> gameFile', whole |-> whole]
<1>3. /\ pc = "restoring" /\ applied = << >> /\ fellBack /\ approval = "APPROVED"
      /\ applied \in Seq(Entries) /\ Backup(oldGamelist, atStart.game)
    BY DEF RestoreGamelist, IInv, AppliedInv, BackupInv, TypeOK, Entries
<1>4. /\ gameFile' \in Contents
      /\ applied' = Append(applied, e) \/ (~whole /\ applied' = applied)
      /\ whole => gameFile' = atStart.game
    BY <1>1, <1>3, ContentsOf DEF IInv, TypeOK, Restored, Apply, Backup
<1>5. e \in Entries
    BY <1>4 DEF Entries
<1>6. whole => e = WholeGamelist'
    BY DEF WholeGamelist
<1> HIDE DEF e
<1>7. /\ applied' \in Seq(Entries)
      /\ whole => Len(applied') = 1 /\ applied'[1] = e
    <2>1. /\ Append(applied, e) \in Seq(Entries) /\ Len(Append(applied, e)) = 1
          /\ Append(applied, e)[1] = e
        BY <1>3, <1>5, OneMore
    <2> QED
        BY <1>3, <1>4, <2>1
<1>8. TypeOK'
    BY <1>1, <1>2, <1>4, <1>7 DEF IInv, TypeOK, ToEngine, Entries, settings, urls
<1>9. whole => Listed'
    <2> SUFFICES ASSUME whole PROVE Listed'
        OBVIOUS
    <2>1. Len(applied') = 1 /\ applied'[1] = WholeGamelist'
        BY <1>6, <1>7
    <2>2. 2..Len(applied') = {}
        BY <2>1
    <2>3. fellBack'
        BY <1>2, <1>3
    <2> QED
        BY <2>1, <2>2, <2>3 DEF Listed
<1>10. AppliedInv' /\ ActualizedIsListed'
    BY <1>2, <1>6, <1>7, <1>9 DEF AppliedInv, ActualizedIsListed, ToEngine, Updating
<1>11. BackupInv' /\ FallbackIsOld'
    BY <1>2, <1>3, <1>4 DEF IInv, BackupInv, FallbackIsOld, ToEngine, Updating, Backup,
       settings
<1> QED
    BY <1>8, <1>10, <1>11 DEF IInv

LEMMA RestoreBinlistIInv == ASSUME IInv, RestoreBinlist PROVE IInv'
<1>1. PICK restored \in BOOLEAN, whole \in BOOLEAN :
          /\ Restored(binFile, oldBinlist, binFile', restored)
          /\ IF restored THEN Apply("bin", binFile', whole)
             ELSE ~whole /\ UNCHANGED applied
          /\ flag' = whole
    BY DEF RestoreBinlist
<1>2. /\ pc' = IF whole THEN "actualize" ELSE "done"
      /\ UNCHANGED <<gameFile, settings, urls, cancelled, fellBack>>
    BY <1>1 DEF RestoreBinlist
<1> DEFINE e == [list |-> "bin", from |-> binFile', whole |-> whole]
<1>3. /\ pc = "oldengine" /\ fellBack /\ approval = "APPROVED"
      /\ gameFile = atStart.game /\ oldBinlist # Nothing
      /\ Len(applied) = 1 /\ applied[1] = WholeGamelist
      /\ applied \in Seq(Entries) /\ Backup(oldBinlist, atStart.bin)
    BY DEF RestoreBinlist, IInv, AppliedInv, BackupInv, TypeOK, Entries
<1>4. /\ binFile' \in Contents
      /\ applied' = Append(applied, e) \/ (~whole /\ applied' = applied)
      /\ whole => binFile' = atStart.bin
    BY <1>1, <1>3, ContentsOf DEF IInv, TypeOK, Restored, Apply, Backup
<1>5. e.list = "bin" /\ e.whole = whole /\ e.from = binFile'
    OBVIOUS
<1>6. e \in Entries
    BY <1>4 DEF Entries
<1> HIDE DEF e
<1>7. /\ applied' \in Seq(Entries)
      /\ whole => Len(applied') = 2 /\ applied'[1] = WholeGamelist' /\ applied'[2] = e
    <2>1. /\ Append(applied, e) \in Seq(Entries) /\ Len(Append(applied, e)) = 2
          /\ Append(applied, e)[1] = applied[1] /\ Append(applied, e)[2] = e
        BY <1>3, <1>6, OneMore
    <2>2. WholeGamelist' = WholeGamelist
        BY <1>2 DEF WholeGamelist
    <2> QED
        BY <1>3, <1>4, <2>1, <2>2
<1>8. TypeOK'
    BY <1>1, <1>2, <1>4, <1>7 DEF IInv, TypeOK, ToEngine, Entries, settings, urls
<1>9. whole => Listed'
    <2> SUFFICES ASSUME whole PROVE Listed'
        OBVIOUS
    <2>0. Len(applied') = 2
        BY <1>7
    <2>1. Len(applied') \in 1..3 /\ \A k \in 2..Len(applied') : k = 2
        BY <2>0
    <2>2. applied'[2].list = "bin" /\ applied'[2].whole /\ applied'[2].from = binFile'
        BY <1>5, <1>7
    <2>3. fellBack'
        BY <1>2, <1>3
    <2> QED
        BY <1>7, <2>1, <2>2, <2>3 DEF Listed
<1>10. AppliedInv' /\ ActualizedIsListed'
    BY <1>2, <1>9 DEF AppliedInv, ActualizedIsListed, ToEngine, Updating
<1>11. BackupInv' /\ FallbackIsOld'
    BY <1>2, <1>3, <1>4 DEF IInv, BackupInv, FallbackIsOld, ToEngine, Updating, Backup,
       settings
<1> QED
    BY <1>8, <1>10, <1>11 DEF IInv

-------------------------------------------------------------------------------
(* The invariant and the theorems *)

LEMMA NextIInv == IInv /\ [Next]_vars => IInv'
  BY QuietIInv, StartIInv, NotStartedIInv, TryUrlsIInv, NextMirrorIInv, FallBackIInv,
     ApplyGamelistIInv, ApplyBinlist64IInv, ApplyBinlistIInv, RestoreGamelistIInv,
     RestoreBinlistIInv, CrashIInv
  DEF Next, Worker

\* What is applied to files, and what is left of the lists of before, at every
\* place of the update.
THEOREM Inductive == Spec => []IInv
<1> QED
    BY InitIInv, NextIInv, PTL DEF Spec

\* Every variable keeps its values: in particular no mirror past the last one is
\* taken (ModLoader.cpp:883-889).
THEOREM TypeCorrect == Spec => []TypeOK
<1>1. IInv => TypeOK
    BY DEF IInv
<1> QED
    BY <1>1, Inductive, PTL

\* The mod that is started consists of what the list files on disk say, whatever
\* failed on the way (ModLoader.cpp:816-893, 978-1042).
THEOREM BuiltFromLists == Spec => []ActualizedIsListed
<1>1. IInv => ActualizedIsListed
    BY DEF IInv
<1> QED
    BY <1>1, Inductive, PTL

\* The fallback puts the lists of before back (ModLoader.cpp:995-1013).
THEOREM OldListsAreBack == Spec => []FallbackIsOld
<1>1. IInv => FallbackIsOld
    BY DEF IInv
<1> QED
    BY <1>1, Inductive, PTL

\* Without a master list the list files stay as they are, in every step of an
\* update and in a crash (ModLoader.cpp:350-353, 996).
THEOREM OldConfigIsSafe == Spec => OldConfigStays
<1>1. ASSUME IInv, [Next]_vars, approval = "ONLY_OLD_CONFIG", pc \notin {"off", "done"}
      PROVE  UNCHANGED listFiles
    <2>1. pc \notin {"restoring", "oldengine"}
        BY <1>1 DEF IInv, BackupInv
    <2>2. CASE Worker
        BY <1>1, <2>1, <2>2
        DEF Worker, TryUrls, ApplyGamelist, ApplyBinlist64, ApplyBinlist, ListsEnd,
            NextMirror, ListsApplied, OldListsFailed, FallBack, RestoreGamelist,
            RestoreBinlist, ActualizeFiles, BuildFsGame, RunClient, RunClientFails,
            PortIsNoNumber, GameRestarts, ApplyList, listFiles
    <2>3. CASE Crash
        BY <1>1, <2>1, <2>3 DEF Crash, Writing, listFiles
    <2> QED
        BY <1>1, <2>2, <2>3 DEF Next, Start, NotStarted, RequestRefused, UserCancels, vars,
            listFiles
<1> QED
    BY <1>1, Inductive, PTL DEF Spec, OldConfigStays
===============================================================================
