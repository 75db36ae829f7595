------------------------ MODULE FileManagerProperties ------------------------
(***************************************************************************)
(* What FZFiles promises to UpdateModFiles, which starts the mod when      *)
(* ActualizeFiles has returned true, and to the user whose files it edits. *)
(***************************************************************************)
EXTENDS FileManager

AllChecks == Contents \cup {Dummy, [size |-> 0, crc |-> 1]}
    \cup {ChecksOf(c) : c \in Contents}
    \cup {[c EXCEPT !.crc = 0] : c \in Contents}

Entry == [name : Names, action : {"UNDEFINED", "NO", "DOWNLOAD", "VERIFY", "IGNORE"},
          target : Contents \cup {Dummy}, real : AllChecks]

\* Every variable has the values the code can give it, a name occurs once in
\* the list, and the loops stay inside the list and the slots.
TypeOK ==
    /\ files \in Seq(Entry) /\ IsInjective([k \in DOMAIN files |-> files[k].name])
    /\ disk \in [Names -> Contents \cup {NoFile, Partial}]
    /\ pc \in {"scan", "lists", "classify", "round", "slot", "start", "starting",
               "stop", "delete", "verify", "verifying", "end", "done"}
    /\ lines \in 0..MaxLines /\ dlSize \in Nat /\ i \in Nat /\ last \in 0..Len(files)
    /\ slots \in [1..MaxActive -> Names \cup {Free}]
    /\ {finished, result, cancelled} \subseteq BOOLEAN /\ refused \subseteq Names
    /\ pc \in {"start", "starting"} => i <= MaxActive /\ slots[i] \in Names
    /\ pc = "classify" => i <= Len(files) + 2

-------------------------------------------------------------------------------
(* Safety *)

InUse == {f \in Names : phase[f] \in {"idle", "busy"}}
UsedSlots == {k \in 1..MaxActive : slots[k] # Free}

\* Every downloader that exists is held by exactly one slot and every slot
\* holds one that exists: none leaks, none is deleted twice, and none is left
\* to write to the disk while the files are verified or after the return.
LiveObjectsAreInSlots ==
    /\ {slots[k] : k \in UsedSlots} = InUse
    /\ Cardinality(UsedSlots) = Cardinality(InUse)
    /\ pc \in {"verify", "verifying", "end", "done"} => InUse = {}

\* When the loop over the slots ends because nothing is left to do, and not
\* because of a cancel, every slot is free and every file was tried.
NothingForgotten ==
    pc \in {"stop", "delete"} /\ result =>
        /\ UsedSlots = {}
        /\ \A k \in DOMAIN files :
              files[k].action = "DOWNLOAD" => phase[files[k].name] = "gone"

Listed(k) == files[k].action \in {"NO", "DOWNLOAD", "VERIFY"}

AsListed(k) ==
    /\ disk[files[k].name] # NoFile
    /\ CompareFiles(ChecksOf(disk[files[k].name]), files[k].target)

\* If anything was counted for download and ActualizeFiles returns true, every
\* file the lists ask for is on disk with the listed checks, although the
\* results of the single downloads have been overwritten.
VerifiedMeansSynchronized ==
    pc = "done" /\ result /\ dlSize > 0 =>
        \A k \in DOMAIN files : Listed(k) => AsListed(k)

\* ActualizeFiles returns true only if the user has not cancelled, wherever in
\* it the cancel came: every way to true asks the callback at its end.
CancelledMeansFalse == pc = "done" /\ cancelled => ~result

Touched(f) == disk'[f] # disk[f]

\* The update never touches a list file, nor a file that the lists say is up to
\* date or to be ignored, and never removes the user's data.
OnlyDueFilesTouched ==
    [][\A f \in Names : Touched(f) =>
          /\ f \notin ListFiles
          /\ f \in Userdata => disk'[f] # NoFile
          /\ \A k \in DOMAIN files :
                files[k].name = f => files[k].action \notin {"NO", "IGNORE"}]_vars

-------------------------------------------------------------------------------
(* The inductive invariant *)

AllFree == \A k \in 1..MaxActive : slots[k] = Free

\* The slots before place i.
FreeBefore == \A k \in 1..MaxActive : k < i => slots[k] = Free

Loading  == {"round", "slot", "start", "starting", "stop", "delete"}
Settled  == {"verify", "verifying", "end", "done"}

\* An entry's checks are those of the file while the list is built, an entry
\* that needs nothing is as listed from then on, and what must be spared has
\* been marked before the first file is touched.
ListInv ==
    /\ pc = "lists" => \A k \in DOMAIN files :
          files[k].real # Dummy =>
             /\ disk[files[k].name] \in Contents
             /\ files[k].real = ChecksOf(disk[files[k].name])
    /\ \A k \in DOMAIN files : files[k].action = "NO" => AsListed(k)
    /\ pc \notin {"scan", "lists"} => \A k \in DOMAIN files :
          /\ files[k].name \in ListFiles => files[k].action = "IGNORE"
          /\ files[k].name \in Userdata => files[k].action # "UNDEFINED"

\* The downloads that exist are those of the slots, no two slots share one,
\* each is of a file that is due, and there are none before and after the
\* loop over the slots.
SlotInv ==
    /\ phase \in [Names -> {"none", "idle", "busy", "gone"}]
    /\ started \in [Names -> BOOLEAN] /\ complete \in [Names -> BOOLEAN]
    /\ outcome \in [Names -> {"DOWNLOAD_SUCCESS", "DOWNLOAD_ERROR"}]
    /\ \A k, l \in 1..MaxActive : slots[k] # Free /\ slots[k] = slots[l] => k = l
    /\ \A f \in Names : f \in InUse <=> \E k \in 1..MaxActive : slots[k] = f
    /\ \A f \in InUse : \E k \in DOMAIN files :
          files[k].name = f /\ files[k].action \in {"DOWNLOAD", "VERIFY"}
    /\ pc \in {"scan", "lists", "classify"} => AllFree /\ last = 0
    /\ pc = "delete" => FreeBefore
    /\ pc \in Settled => AllFree
    /\ pc \notin {"scan", "lists"} => i >= 1

\* What the flag "finished" stands for in a round, and what was looked at.
RoundInv ==
    /\ pc = "slot" /\ finished => FreeBefore /\ (i > 1 => last = 0)
    /\ pc = "round" /\ finished => AllFree /\ last = 0
    /\ pc \in {"start", "starting"} => ~finished
    /\ pc \in {"stop", "delete"} /\ result => AllFree /\ last = 0
    /\ pc \in Loading => \A k \in DOMAIN files :
          k > last /\ files[k].action = "DOWNLOAD" => phase[files[k].name] # "none"

\* What has been verified, and that a cancel is never answered with true.
VerifyInv ==
    /\ pc = "verifying" /\ result => \A k \in DOMAIN files :
          k < i /\ Listed(k) => AsListed(k)
    /\ pc \in {"end", "done"} /\ result /\ dlSize > 0 => \A k \in DOMAIN files :
          Listed(k) => AsListed(k)
    /\ CancelledMeansFalse

\* The invariant the safety theorems are proved from.
IInv == TypeOK /\ ListInv /\ SlotInv /\ RoundInv /\ VerifyInv

-------------------------------------------------------------------------------
(* Liveness *)

\* A transfer that may settle: it failed, or the file is there.
TransferEnds(f) ==
    Transfer(f) /\ (outcome'[f] = "DOWNLOAD_ERROR" \/ complete'[f])

\* The worker does not stop by itself, and a download ends (DeleteReturns of
\* module DownloaderProperties) unless the library has refused its request: a
\* refused file takes neither step, so nothing is assumed of it.  The user need
\* not cancel and the library need not refuse.
Fairness ==
    /\ WF_vars(ActualizeFiles)
    /\ \A f \in Names : SF_vars(TransferEnds(f)) /\ SF_vars(TransferSettles(f))

FairSpec == Spec /\ Fairness

\* ActualizeFiles returns, or the library has refused a request: neither the
\* rounds over the slots nor the waits of the destructors go on for ever.  With a
\* refused request the slot stays busy, and so does its destructor's wait.
ActualizeFilesReturns == pc = "classify" ~> pc = "done" \/ refused # {}

-------------------------------------------------------------------------------
(* What the comments say *)

\* FileManager.cpp:439, "make sure that everything required was downloaded
\* correctly": true means that every listed file is in place.
TrueMeansSynchronized ==
    pc = "done" /\ result => \A k \in DOMAIN files : Listed(k) => AsListed(k)
===============================================================================
