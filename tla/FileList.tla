------------------------------ MODULE FileList ------------------------------
(***************************************************************************)
(* The entry list m_Files of class FZFiles (FileManager.cpp) and the       *)
(* operations that build it, as functions from one list to the next.       *)
(*                                                                         *)
(* File contents are records [size, crc]: what GetFileChecks can tell of   *)
(* them.  Dummy are the checks of a file that could not be read.  MD5 and  *)
(* URLs are left out.                                                      *)
(***************************************************************************)
EXTENDS SequencesExt

CONSTANTS Names,                \* paths under the mod's root
          ListFiles,            \* those of the two list files
          Userdata,             \* those in the user data directory
          SkipFullFileCheck     \* g_SkipFullFileCheck: compare sizes only

ASSUME FileListAssumption ==
    /\ IsFiniteSet(Names) /\ ListFiles \subseteq Names /\ Userdata \subseteq Names
    /\ SkipFullFileCheck \in BOOLEAN

Dummy == [size |-> 0, crc |-> 0]
IsDummy(c) == c = Dummy

\* Without the full check GetFileChecks leaves the CRC at 0.
ChecksOf(content) ==
    IF SkipFullFileCheck THEN [content EXCEPT !.crc = 0] ELSE content

CompareFiles(real, target) ==
    real.size = target.size /\ (SkipFullFileCheck \/ real.crc = target.crc)

\* The entry CreateFileData makes for a file found on disk.
Found(name) == [name |-> name, action |-> "UNDEFINED",
                target |-> Dummy, real |-> Dummy]

\* The place of the first entry called name, or 0.
Find(files, name) == SelectInSeq(files, LAMBDA e : e.name = name)

\* Mutant: the file is entered although it is in the list.
AppendFileInfo(files, name, target, checks) ==
    Append(files, [Found(name) EXCEPT !.action = "DOWNLOAD", !.target = target])

\* An unknown file is to be downloaded.  For a known one the checks are
\* computed once and compared with the target.
UpdateFileInfo(files, name, target, checks) ==
    LET i == Find(files, name)
        real == IF IsDummy(files[i].real) THEN checks ELSE files[i].real
    IN  IF i = 0
        THEN Append(files, [Found(name) EXCEPT !.action = "DOWNLOAD",
                                               !.target = target])
        ELSE [files EXCEPT ![i] =
                [name |-> name, target |-> target, real |-> real,
                 action |-> IF CompareFiles(real, target) THEN "NO"
                                                          ELSE "DOWNLOAD"]]

AddIgnoredFile(files, name) ==
    IF Find(files, name) = 0 THEN files
    ELSE [files EXCEPT ![Find(files, name)].action = "IGNORE"]

\* Mutant: user data files are not spared.
IgnoreListFiles(files) ==
    [i \in DOMAIN files |->
        IF files[i].name \in ListFiles
        THEN [files[i] EXCEPT !.action = "IGNORE"] ELSE files[i]]

\* The list files, and the user's data the lists do not name, are left alone.
PreprocessFiles(files) ==
    [i \in DOMAIN files |->
        IF \/ files[i].name \in ListFiles
           \/ files[i].name \in Userdata /\ files[i].action = "UNDEFINED"
        THEN [files[i] EXCEPT !.action = "IGNORE"] ELSE files[i]]

\* The inner loop of SortBySize for place i.  The candidate max is compared
\* with element i itself, never with element j.
LargestUpTo(files, i) ==
    LET max[j \in 1..i] ==
          IF j = i THEN i
          ELSE IF files[max[j + 1]].target.size < files[i].target.size
               THEN j ELSE max[j + 1]
    IN  max[1]

SwapEntries(files, i, j) == [files EXCEPT ![i] = files[j], ![j] = files[i]]

\* The outer loop goes from the last place down to the second.
SortBySize(files) ==
    LET after[i \in 2..Len(files)] ==
          LET before == IF i = Len(files) THEN files ELSE after[i + 1]
          IN  SwapEntries(before, i, LargestUpTo(before, i))
    IN  IF Len(files) < 2 THEN files ELSE after[2]
=============================================================================
