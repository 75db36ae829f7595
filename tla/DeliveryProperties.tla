-------------------------- MODULE DeliveryProperties --------------------------
(***************************************************************************)
(* What the mod relies on: a file that passes the check is the file of the *)
(* list, whatever the unpackers and earlier sessions have left on disk.    *)
(***************************************************************************)
EXTENDS Delivery

\* When DecompressFile returns a size, the archive has been replaced, nothing
\* is left beside it, and what replaced it is not empty.
SuccessMeansReplaced ==
    \A f \in Files : unpacked[f] /\ ~Unpack!Active(f) =>
        tmp[f] = "none" /\ file[f] \notin {"none", "empty", "packed"}

\* A check that passes means that the whole file of the list is on disk: not
\* the archive, a part, or a temporary file of an earlier session that was
\* moved into its place.  Not so with -skipfullcheck, and for a file whose
\* CRC-32 is 0, which is what the fallback finds in every file.
VerifiedMeansPromised ==
    pc = "done" /\ Synchronized /\ ~skip =>
        file[checked] = "plain" \/ (~mapped /\ Crc(promised) = {})

-------------------------------------------------------------------------------
(* The inductive invariant *)

\* What is on disk beside each file is never the archive; while an unpacker
\* is about to move it, it is what the result speaks of; and after a success
\* it has been moved.
UnpackInv ==
    /\ file \in [Files -> Unpack!Kinds] /\ tmp \in [Files -> Unpack!Kinds \ {"packed"}]
    /\ upc \in [Files -> {"idle", "lock", "create", "expand", "open", "move"}]
    /\ unpacked \in [Files -> BOOLEAN]
    /\ \A f \in Files : unpacked[f] =>
          \/ upc[f] = "move" /\ tmp[f] \notin {"none", "empty"}
          \/ /\ upc[f] = "idle" /\ tmp[f] = "none"
             /\ file[f] \notin {"none", "empty", "packed"}

\* No unpacker runs while files are checked, and what is being checked is the
\* file of the list whose turn it is.
CheckInv ==
    /\ todo \subseteq Files /\ due \subseteq Files
    /\ phase # "download" => \A f \in Files : upc[f] = "idle"
    /\ pc = "idle" <=> checked = Nobody
    /\ checked # Nobody =>
          /\ checked \in todo /\ phase \in {"lists", "verify"}
          /\ promised \in Messages /\ bytes \in Holds(file[checked], promised)

\* Nothing has been read well before the end, only a file that is not empty is
\* mapped, and only a mapped one has a CRC other than zero.
ReadInv ==
    /\ ok => pc = "done"
    /\ pc \in {"map", "crc"} \/ (pc = "done" /\ ok) => size = Len(bytes)
    /\ mapped => bytes # << >>
    /\ crc32 # {} => pc = "done" /\ mapped

DeliveryInv == IInv /\ UnpackInv /\ CheckInv /\ ReadInv

\* What the theorem about VerifiedMeansPromised assumes of the messages, and TLC
\* finds to be so of its own: nothing that may be on disk instead of a file has
\* the file's size and its CRC.
NoCollision ==
    \A p \in Messages : \A m \in Variants[p] : Len(m) = Len(p) => Crc(m) # Crc(p)

-------------------------------------------------------------------------------
(* Liveness *)

\* EXPAND comes to an end, and so does every call of Windows.
DeliveryFairSpec ==
    DeliverySpec /\ \A f \in Files : WF_allVars(Unpacking(f))

\* An unpacker that waits for another one, or for EXPAND, comes to its end; the
\* downloader that it holds is deleted only then.
UnpackReturns == \A f \in Files : Unpack!Active(f) ~> ~Unpack!Active(f)
===============================================================================
