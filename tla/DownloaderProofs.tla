-------------------------- MODULE DownloaderProofs --------------------------
(***************************************************************************)
(* Proofs: the safety properties of DownloaderProperties, from the         *)
(* inductive invariant IInv.  The count of an object is the number of its  *)
(* holders; what the queue and the list contribute is counted by           *)
(* PendingAdds, Queued and Listed, and each operation on them changes the  *)
(* counts by the lemmas of the first part.  The second part adds the       *)
(* results and the end of the thread (FullInv), and proves from it what    *)
(* the caller sees: complete files, a clean end, no deadlock, and that the *)
(* downloader implements DownloadService.                                  *)
(***************************************************************************)
EXTENDS DownloaderTypes

\* The three counts are natural numbers.
LEMMA CountTypes ==
    ASSUME TypeOK, NEW d \in Downloaders
    PROVE  PendingAdds(d) \in Nat /\ Queued(d) \in Nat /\ Listed(d) \in Nat
<1>1. FirstPending \in Nat
  BY LenProperties DEF FirstPending, TypeOK, ThreadTypes
<1> QED BY <1>1, OccurType
    DEF PendingAdds, Queued, Listed, Occur, TypeOK, ThreadTypes

\* A step that leaves the queue, the list and the first pending position alone
\* leaves the counts alone.
LEMMA CountsKept ==
    ASSUME UNCHANGED <<queue, active>>, FirstPending' = FirstPending,
           NEW d \in Downloaders
    PROVE  /\ PendingAdds(d)' = PendingAdds(d) /\ Queued(d)' = Queued(d)
           /\ Listed(d)' = Listed(d)
  BY DEF PendingAdds, Queued, Listed, Occur

\* The command StartDownload works on is still pending.
LEMMA AddIsPending ==
    ASSUME TypeOK, tpc \in CommandSteps, CommandNow.cmd = "Add",
           NEW d \in Downloaders, CommandNow.dl = d
    PROVE  PendingAdds(d) > 0
<1>1. /\ queue \in Seq(Commands) /\ idx \in 1..Len(queue)
      /\ FirstPending = idx /\ idx \in Nat /\ Len(queue) \in Nat
  BY LenProperties DEF TypeOK, ThreadTypes, IndexOK, FirstPending, CommandSteps
<1>2. queue[idx] = [cmd |-> "Add", dl |-> d]
  <2>1. queue[idx] \in Commands
    BY <1>1, ElementOfSeq
  <2> QED BY <2>1 DEF Commands, CommandNow
<1>3. \E i \in idx..Len(queue) : queue[i] \in {[cmd |-> "Add", dl |-> d]}
  BY <1>1, <1>2
<1> QED BY <1>1, <1>3, OccurPositive DEF PendingAdds

\* Going on to the next command takes the current one off the pending ones.
LEMMA CommandDoneCounts ==
    ASSUME TypeOK, tpc \in CommandSteps, CommandDone, UNCHANGED queue,
           NEW d \in Downloaders
    PROVE  /\ PendingAdds(d)' = PendingAdds(d) -
                 Count(CommandNow.cmd = "Add" /\ CommandNow.dl = d)
           /\ Queued(d)' = Queued(d)
<1> DEFINE E == {[cmd |-> "Add", dl |-> d]}
<1>1. /\ queue \in Seq(Commands) /\ idx \in 1..Len(queue)
      /\ FirstPending = idx /\ idx \in Nat /\ Len(queue) \in Nat
  BY LenProperties DEF TypeOK, ThreadTypes, IndexOK, FirstPending, CommandSteps
<1>2. FirstPending' = idx + 1
  BY <1>1 DEF CommandDone, FirstPending, CommandSteps
<1>3. OccurFrom(queue, idx, E) =
         OccurFrom(queue, idx + 1, E) + (IF queue[idx] \in E THEN 1 ELSE 0)
  BY <1>1, OccurNext
<1>4. queue[idx] \in E <=> CommandNow.cmd = "Add" /\ CommandNow.dl = d
  <2>1. queue[idx] \in Commands
    BY <1>1, ElementOfSeq
  <2> QED BY <2>1 DEF Commands, CommandNow
<1>5. OccurFrom(queue, idx + 1, E) \in Nat
  BY <1>1, OccurType
<1>6. PendingAdds(d) = OccurFrom(queue, idx, E)
  BY <1>1 DEF PendingAdds
<1>7. PendingAdds(d)' = OccurFrom(queue, idx + 1, E)
  BY <1>2 DEF PendingAdds
<1>8. PendingAdds(d)' = PendingAdds(d) -
                 Count(CommandNow.cmd = "Add" /\ CommandNow.dl = d)
  <2> HIDE DEF E
  <2> QED BY <1>3, <1>4, <1>5, <1>6, <1>7 DEF Count
<1> QED BY <1>8 DEF Queued, Occur

\* A command put at the end of the queue, while the DL thread is not in it.
LEMMA EnqueueCounts ==
    ASSUME TypeOK, FirstPending = 1, FirstPending' = 1,
           NEW c \in Commands, queue' = Append(queue, c), NEW d \in Downloaders
    PROVE  /\ PendingAdds(d)' = PendingAdds(d) + Count(c.cmd = "Add" /\ c.dl = d)
           /\ Queued(d)' = Queued(d) + Count(c.dl = d)
<1> DEFINE E == {[cmd |-> "Add", dl |-> d]}
           F == [cmd : {"Add", "Stop"}, dl : {d}]
<1>1. queue \in Seq(Commands) /\ Len(queue) \in Nat
  BY LenProperties DEF TypeOK, ThreadTypes
<1>2. OccurFrom(Append(queue, c), 1, E) =
         OccurFrom(queue, 1, E) + (IF c \in E THEN 1 ELSE 0)
  BY <1>1, OccurAppend
<1>3. OccurFrom(Append(queue, c), 1, F) =
         OccurFrom(queue, 1, F) + (IF c \in F THEN 1 ELSE 0)
  <2> HIDE DEF F
  <2> QED BY <1>1, OccurAppend
<1>4. /\ c \in E <=> c.cmd = "Add" /\ c.dl = d
      /\ c \in F <=> c.dl = d
  BY DEF Commands
<1>5. /\ PendingAdds(d) = OccurFrom(queue, 1, E)
      /\ Queued(d) = OccurFrom(queue, 1, F)
  BY DEF PendingAdds, Queued, Occur
<1>6. /\ PendingAdds(d)' = OccurFrom(Append(queue, c), 1, E)
      /\ Queued(d)' = OccurFrom(Append(queue, c), 1, F)
  BY DEF PendingAdds, Queued, Occur
<1> HIDE DEF E, F
<1> QED BY <1>2, <1>3, <1>4, <1>5, <1>6 DEF Count

\* Flushing the first command.
LEMMA FlushCounts ==
    ASSUME TypeOK, Flush, NEW d \in Downloaders
    PROVE  /\ PendingAdds(d) = 0 /\ PendingAdds(d)' = 0
           /\ Queued(d)' = Queued(d) - Count(Head(queue).dl = d)
           /\ Listed(d)' = Listed(d) /\ Head(queue).dl \in Downloaders
<1> DEFINE F == [cmd : {"Add", "Stop"}, dl : {d}]
<1>1. /\ queue \in Seq(Commands) /\ queue # << >> /\ Len(queue) \in Nat
      /\ queue' = Tail(queue) /\ tpc = "flush" /\ UNCHANGED active
  BY LenProperties DEF TypeOK, ThreadTypes, IndexOK, Flush
<1>2. /\ Tail(queue) \in Seq(Commands) /\ Len(Tail(queue)) = Len(queue) - 1
      /\ Head(queue) \in Commands /\ Len(queue) >= 1
  BY <1>1, HeadTailProperties, EmptySeq
<1>3. PendingAdds(d) = 0
  BY <1>1, OccurPastEnd DEF PendingAdds, FirstPending
<1>4. PendingAdds(d)' = 0
  <2>1. FirstPending' \in Nat /\ FirstPending' > Len(queue')
    BY <1>1, <1>2 DEF Flush, FirstPending, CommandSteps
  <2>2. OccurFrom(queue', FirstPending', {[cmd |-> "Add", dl |-> d]}) = 0
    BY <1>1, <1>2, <2>1, OccurPastEnd
  <2> QED BY <2>2 DEF PendingAdds
<1>5. Queued(d)' = OccurFrom(queue, 2, F)
  BY <1>1, OccurTail DEF Queued, Occur
<1>6. Queued(d) = OccurFrom(queue, 2, F) + Count(Head(queue).dl = d)
  <2>1. OccurFrom(queue, 1, F) = OccurFrom(queue, 1 + 1, F)
                                 + (IF queue[1] \in F THEN 1 ELSE 0)
    <3> HIDE DEF F
    <3>1. 1 \in 1..Len(queue)
      BY <1>1, <1>2
    <3> QED BY <1>1, <3>1, OccurNext
  <2>2. Head(queue) = queue[1]
    BY <1>1
  <2>3. queue[1] \in F <=> Head(queue).dl = d
    BY <1>2, <2>2 DEF Commands
  <2>4. 1 + 1 = 2
    OBVIOUS
  <2> HIDE DEF F
  <2> QED BY <2>1, <2>3, <2>4 DEF Queued, Occur, Count, F
<1>7. OccurFrom(queue, 2, F) \in Nat
  BY <1>1, OccurType
<1>8. Queued(d)' = Queued(d) - Count(Head(queue).dl = d)
  <2> HIDE DEF F
  <2> QED BY <1>5, <1>6, <1>7 DEF Count
<1>9. Listed(d)' = Listed(d)
  BY <1>1 DEF Listed, Occur
<1>10. Head(queue).dl \in Downloaders
  BY <1>2 DEF Commands
<1> QED BY <1>3, <1>4, <1>8, <1>9, <1>10

\* Putting an object on the list.
LEMMA ListCounts ==
    ASSUME TypeOK, NEW e \in Downloaders, active' = Append(active, e),
           NEW d \in Downloaders
    PROVE  Listed(d)' = Listed(d) + Count(e = d)
<1>1. active \in Seq(Downloaders) /\ 1 \in 1..(Len(active) + 1)
  BY LenProperties DEF TypeOK, ThreadTypes
<1>2. OccurFrom(Append(active, e), 1, {d}) =
         OccurFrom(active, 1, {d}) + (IF e \in {d} THEN 1 ELSE 0)
  BY <1>1, OccurAppend
<1> QED BY <1>2 DEF Listed, Occur, Count

\* Taking the object at idx off the list.
LEMMA UnlistCounts ==
    ASSUME TypeOK, idx \in 1..Len(active), NEW d \in Downloaders,
           active' = SwapRemove(active, idx)
    PROVE  Listed(d)' = Listed(d) - Count(active[idx] = d)
<1>1. active \in Seq(Downloaders)
  BY DEF TypeOK, ThreadTypes
<1>2. OccurFrom(SwapRemove(active, idx), 1, {d}) =
         OccurFrom(active, 1, {d}) - (IF active[idx] \in {d} THEN 1 ELSE 0)
  BY <1>1, OccurSwapRemove DEF SwapRemove
<1> QED BY <1>2 DEF Listed, Occur, Count

\* An element of the list is counted.
LEMMA ListedPositive ==
    ASSUME TypeOK, NEW d \in Downloaders
    PROVE  Listed(d) > 0 <=> \E i \in 1..Len(active) : active[i] = d
<1>1. active \in Seq(Downloaders)
  BY DEF TypeOK, ThreadTypes
<1>2. OccurFrom(active, 1, {d}) > 0
         <=> \E i \in 1..Len(active) : active[i] \in {d}
  BY <1>1, OccurPositive
<1> QED BY <1>2 DEF Listed, Occur

\* Every step keeps the accounts of every object: each holder that appears
\* comes with an Acquire, each one that goes with a Release.
LEMMA CountNext ==
    ASSUME IInv, [Next]_vars, NEW d \in Downloaders
    PROVE  ObjectInv(d)'
<1> DEFINE pend == PendingAdds(d)
           que == Queued(d)
           list == Listed(d)
<1>a. TypeOK /\ LockInv /\ AccountInv(d) /\ NetInv(d) /\ LifeInv(d)
  BY DEF IInv, ObjectInv
<1>b. pend \in Nat /\ que \in Nat /\ list \in Nat
  BY <1>a, CountTypes
<1>c. \A e \in Downloaders : AccountInv(e) /\ NetInv(e) /\ LifeInv(e)
  BY DEF IInv, ObjectInv
<1>d. ObjectTypes /\ ThreadTypes /\ LibraryTypes /\ HistoryTypes /\ IndexOK
  BY <1>a DEF TypeOK
<1>e. pend' \in Nat /\ que' \in Nat /\ list' \in Nat
  <2>1. TypeOK'
    BY <1>a, StructNext
  <2>2. /\ queue' \in Seq(Commands) /\ active' \in Seq(Downloaders)
        /\ FirstPending' \in Nat
    BY <2>1, LenProperties DEF TypeOK, ThreadTypes, FirstPending
  <2> QED BY <2>2, OccurType DEF PendingAdds, Queued, Listed, Occur
<1> DEFINE inAdd == Count(WorkerCallOn(d, {"adding"}))
           inStop == Count(WorkerCallOn(d,
                               {"stopping", "queueing", "releasing"}))
           inCancel == Count(CommandOn(d, CancelSteps))
           inUnpack == Count(unpacker[d] # "none")
           lost == Count(refused[d])
<1>f. /\ inAdd \in Nat /\ inStop \in Nat /\ inCancel \in Nat
      /\ inUnpack \in Nat /\ lost \in Nat
      /\ inAdd' \in Nat /\ inStop' \in Nat /\ inCancel' \in Nat
      /\ inUnpack' \in Nat /\ lost' \in Nat
  BY DEF Count
<1>g. /\ Holders(d) = inAdd + pend + list + que + inStop + inCancel + inUnpack
      /\ Holders(d)' =
            inAdd' + pend' + list' + que' + inStop' + inCancel' + inUnpack'
      /\ AccountInv(d) <=> /\ acquires[d] = Holders(d) + lost
                           /\ inAdd + pend + list + lost <= 1
      /\ AccountInv(d)' <=> /\ acquires'[d] = Holders(d)' + lost'
                            /\ inAdd' + pend' + list' + lost' <= 1
  BY DEF AccountInv, Holders, Assignments
<1>i. AccountInv(d)
  BY <1>a
<1>s. ASSUME NEW x1 \in Nat, NEW x2 \in Nat, NEW x3 \in Nat, NEW x4 \in Nat,
             NEW x5 \in Nat, NEW x6 \in Nat, NEW x7 \in Nat
      PROVE  /\ x1 + x2 + x3 + x4 + x5 + x6 + x7 \in Nat
             /\ x1 + x2 + x3 + x4 + x5 + x6 + x7 = 0
                  <=> /\ x1 = 0 /\ x2 = 0 /\ x3 = 0 /\ x4 = 0
                      /\ x5 = 0 /\ x6 = 0 /\ x7 = 0
  OBVIOUS
<1>h. obj[d] # "live" => /\ inAdd = 0 /\ pend = 0 /\ list = 0 /\ que = 0
                       /\ inStop = 0 /\ inCancel = 0 /\ inUnpack = 0
  <2>1. obj[d] # "live" => Holders(d) = 0
    BY <1>a DEF LifeInv
  <2> HIDE DEF inAdd, pend, list, que, inStop, inCancel, inUnpack, lost
  <2> QED BY <1>b, <1>f, <1>g, <1>s, <2>1
<1>j. /\ inAdd' = 0 /\ pend' = 0 /\ list' = 0 /\ que' = 0 /\ inStop' = 0
      /\ inCancel' = 0 /\ inUnpack' = 0
      => Holders(d)' = 0
  <2> HIDE DEF inAdd, pend, list, que, inStop, inCancel, inUnpack, lost
  <2> QED BY <1>e, <1>f, <1>g, <1>s
<1>k. ~(acquires[d] > 0) => /\ inAdd = 0 /\ pend = 0 /\ list = 0 /\ que = 0
                            /\ inStop = 0 /\ inCancel = 0 /\ inUnpack = 0
                            /\ lost = 0
  <2> HIDE DEF inAdd, pend, list, que, inStop, inCancel, inUnpack, lost
  <2>1. Holders(d) \in Nat
    BY <1>b, <1>f, <1>g, <1>s
  <2>2. ~(acquires[d] > 0) => Holders(d) = 0 /\ lost = 0
    BY <1>f, <1>g, <1>i, <2>1
  <2> QED BY <1>b, <1>f, <1>g, <1>s, <2>2
<1> USE DEF object, thread, library, history, Owners, Threads, Nobody,
   CommandSteps, CancelSteps, HoldsRecLock, InCall, HoldsLock, CanLock,
   CanLockThread, LockInv, ObjectTypes, ThreadTypes, LibraryTypes,
   HistoryTypes, WorkerCallOn, CommandOn, CommandNow, Count
<1>1. ASSUME NEW e \in Downloaders, CreateDownloader(e)
      PROVE  ObjectInv(d)'
  <2>1. pend' = pend /\ que' = que /\ list' = list
    BY <1>1, CountsKept DEF CreateDownloader, FirstPending
  <2> QED BY <1>1, <1>a, <1>d, <2>1
     DEF CreateDownloader, ObjectInv, AccountInv, NetInv, LifeInv, Holders,
         Assignments
<1>2. ASSUME NEW e \in Downloaders, StartAsyncDownload(e)
      PROVE  ObjectInv(d)'
  <2> DEFINE delta == Count(e = d)
  <2>1. pend' = pend /\ que' = que /\ list' = list
    BY <1>2, CountsKept DEF StartAsyncDownload, FirstPending
  <2> HIDE DEF pend, que, list
  <2>2. /\ delta \in Nat /\ delta <= 1
        /\ inAdd = 0 /\ inAdd' = delta /\ inStop' = inStop
        /\ inCancel' = inCancel /\ inUnpack' = inUnpack /\ lost' = lost
        /\ acquires'[d] = acquires[d] + delta
        /\ delta = 1 => obj[d] = "live" /\ ~(acquires[d] > 0)
    BY <1>2, <1>a, <1>d
       DEF StartAsyncDownload, Acquire, IsBusy, IsDownloading, NetInv, LifeInv
  <2> HIDE DEF inAdd, inStop, inCancel, inUnpack, lost, delta
  <2>6. delta = 1 => pend = 0 /\ list = 0 /\ inUnpack = 0 /\ lost = 0
    BY <1>k, <2>2
  <2>3. AccountInv(d)'
    <3>1. pend' = pend /\ list' = list /\ que' = que /\ lost' = lost
      BY <2>1, <2>2
    <3>2. Holders(d)' = Holders(d) + delta
      BY <1>b, <1>e, <1>f, <1>g, <2>1, <2>2
    <3>3. acquires'[d] = Holders(d)' + lost'
      <4>1. acquires[d] = Holders(d) + lost
        BY <1>g, <1>i
      <4>2. Holders(d) \in Nat
        BY <1>b, <1>f, <1>g, <1>s
      <4> QED BY <1>f, <2>2, <3>1, <3>2, <4>1, <4>2
    <3>4. inAdd' + pend' + list' + lost' <= 1
      <4>1. delta = 0 \/ delta = 1
        BY DEF delta
      <4>2. CASE delta = 0
        BY <1>b, <1>f, <1>g, <1>i, <2>2, <3>1, <4>2
      <4>3. CASE delta = 1
        BY <2>2, <2>6, <3>1, <4>3
      <4> QED BY <4>1, <4>2, <4>3
    <3> QED BY <1>g, <3>3, <3>4
  <2>4. NetInv(d)'
    BY <1>2, <1>a, <1>b, <1>d, <1>e, <2>1, <2>2, <2>6
       DEF StartAsyncDownload, Acquire, IsBusy, IsDownloading, NetInv, LifeInv,
           pend, list, inAdd, inUnpack, delta
  <2>5. LifeInv(d)'
    <3>1. obj[d] # "live" => Holders(d)' = 0
      BY <1>b, <1>e, <1>f, <1>h, <1>j, <2>1, <2>2, <2>6
    <3> QED BY <1>2, <1>a, <1>d, <2>2, <3>1 DEF StartAsyncDownload, LifeInv
  <2> QED BY <2>3, <2>4, <2>5 DEF ObjectInv
<1>3. ASSUME StartAccepted
      PROVE  ObjectInv(d)'
  <2>1. /\ pend' = pend + Count(wdl = d) /\ que' = que + Count(wdl = d)
        /\ list' = list
    <3> DEFINE entry == [cmd |-> "Add", dl |-> wdl]
    <3>1. /\ entry \in Commands /\ queue' = Append(queue, entry)
          /\ UNCHANGED active
      BY <1>3, <1>a DEF StartAccepted, LockInv, Commands
    <3>2. FirstPending = 1 /\ FirstPending' = 1
      BY <1>3, <1>a DEF StartAccepted, LockInv, FirstPending
    <3>3. /\ pend' = pend + Count(entry.cmd = "Add" /\ entry.dl = d)
          /\ que' = que + Count(entry.dl = d)
      <4> HIDE DEF entry
      <4> QED BY <1>a, <3>1, <3>2, EnqueueCounts
    <3>4. list' = list
      BY <3>1 DEF Listed, Occur
    <3> QED BY <3>3, <3>4
  <2> HIDE DEF pend, que, list
  <2>2. /\ inAdd = Count(wdl = d) /\ inAdd' = 0 /\ inStop' = inStop
        /\ inCancel' = inCancel /\ inUnpack' = inUnpack /\ lost' = lost
        /\ acquires'[d] = acquires[d] + Count(wdl = d)
    BY <1>3, <1>a, <1>d DEF StartAccepted, Acquire, NetInv, LifeInv
  <2> HIDE DEF inAdd, inStop, inCancel, inUnpack, lost
  <2>3. AccountInv(d)'
    BY <1>b, <1>e, <1>f, <1>g, <1>h, <1>i, <2>1, <2>2 DEF Count
  <2>4. NetInv(d)'
    <3>1. unpacker[d] # "none" => /\ pend = 0 /\ ~conn[d]
                                 /\ ~WorkerCallOn(d, {"adding"})
      BY <1>a DEF NetInv, pend
    <3>2. unpacker'[d] # "none" => pend' = 0 /\ ~conn'[d]
      BY <1>3, <1>b, <2>1, <3>1 DEF StartAccepted
    <3>3. (request[d] => list > 0) /\ (request'[d] => list' > 0)
      BY <1>3, <1>a, <2>1 DEF StartAccepted, NetInv, list
    <3> QED BY <1>3, <1>a, <1>d, <3>1, <3>2, <3>3
       DEF StartAccepted, NetInv, pend, list
  <2>5. LifeInv(d)'
    <3>1. obj[d] # "live" => Holders(d)' = 0
      BY <1>b, <1>e, <1>f, <1>h, <1>j, <2>1, <2>2
    <3> QED BY <1>3, <1>a, <1>d, <2>2, <3>1 DEF StartAccepted, LifeInv
  <2> QED BY <2>3, <2>4, <2>5 DEF ObjectInv
<1>4. ASSUME StartRefused
      PROVE  ObjectInv(d)'
  <2>1. pend' = pend /\ que' = que /\ list' = list
    BY <1>4, CountsKept DEF StartRefused, FirstPending
  <2> HIDE DEF pend, que, list
  <2>2. /\ inAdd = Count(wdl = d) /\ inAdd' = 0 /\ inStop' = inStop
        /\ inCancel' = inCancel /\ inUnpack' = inUnpack /\ lost' = lost
        /\ acquires'[d] = acquires[d] - Count(wdl = d)
    BY <1>4, <1>a, <1>d DEF StartRefused, Release, NetInv, LifeInv
  <2> HIDE DEF inAdd, inStop, inCancel, inUnpack, lost
  <2>3. AccountInv(d)'
    BY <1>b, <1>e, <1>f, <1>g, <1>h, <1>i, <2>1, <2>2 DEF Count
  <2>4. NetInv(d)'
    BY <1>4, <1>a, <1>b, <1>d, <1>e, <2>1, <2>2
       DEF StartRefused, Release, NetInv, LifeInv, pend, list, inAdd, inUnpack
  <2>5. LifeInv(d)'
    <3>1. obj[d] # "live" => Holders(d)' = 0
      BY <1>b, <1>e, <1>f, <1>h, <1>j, <2>1, <2>2
    <3> QED BY <1>4, <1>a, <1>d, <2>2, <3>1 DEF StartRefused, LifeInv
  <2> QED BY <2>3, <2>4, <2>5 DEF ObjectInv
<1>5. ASSUME NEW e \in Downloaders, RequestStop(e)
      PROVE  ObjectInv(d)'
  <2> DEFINE delta == Count(e = d)
  <2>1. pend' = pend /\ que' = que /\ list' = list
    BY <1>5, CountsKept DEF RequestStop, FirstPending
  <2> HIDE DEF pend, que, list
  <2>2. /\ delta \in Nat /\ delta <= 1
        /\ delta = 1 => obj[d] = "live"
        /\ inStop = 0 /\ inStop' = delta /\ inAdd' = inAdd
        /\ inCancel' = inCancel /\ inUnpack' = inUnpack /\ lost' = lost
        /\ acquires'[d] = acquires[d] + delta
    BY <1>5, <1>a, <1>d DEF RequestStop, Acquire, NetInv, LifeInv
  <2> HIDE DEF inAdd, inStop, inCancel, inUnpack, lost, delta
  <2>3. AccountInv(d)'
    BY <1>b, <1>e, <1>f, <1>g, <1>h, <1>i, <2>1, <2>2 DEF Count
  <2>4. NetInv(d)'
    BY <1>5, <1>a, <1>b, <1>d, <1>e, <2>1, <2>2
       DEF RequestStop, Acquire, NetInv, LifeInv, pend, list, inAdd, inUnpack,
           delta
  <2>5. LifeInv(d)'
    <3>1. obj[d] # "live" => Holders(d)' = 0
      BY <1>b, <1>e, <1>f, <1>h, <1>j, <2>1, <2>2
    <3> QED BY <1>5, <1>a, <1>d, <2>2, <3>1 DEF RequestStop, LifeInv
  <2> QED BY <2>3, <2>4, <2>5 DEF ObjectInv
<1>6. ASSUME StopEntersQueue
      PROVE  ObjectInv(d)'
  <2>1. pend' = pend /\ que' = que /\ list' = list
    BY <1>6, CountsKept DEF StopEntersQueue, FirstPending
  <2> QED BY <1>6, <1>a, <1>d, <2>1
     DEF StopEntersQueue, ObjectInv, AccountInv, NetInv, LifeInv, Holders,
         Assignments
<1>7. ASSUME StopQueued
      PROVE  ObjectInv(d)'
  <2>1. pend' = pend /\ que' = que + Count(wdl = d) /\ list' = list
    <3> DEFINE entry == [cmd |-> "Stop", dl |-> wdl]
    <3>1. /\ entry \in Commands /\ queue' = Append(queue, entry)
          /\ UNCHANGED active
      BY <1>7, <1>a DEF StopQueued, LockInv, Commands
    <3>2. FirstPending = 1 /\ FirstPending' = 1
      BY <1>7, <1>a DEF StopQueued, LockInv, FirstPending
    <3>3. /\ pend' = pend + Count(entry.cmd = "Add" /\ entry.dl = d)
          /\ que' = que + Count(entry.dl = d)
      <4> HIDE DEF entry
      <4> QED BY <1>a, <3>1, <3>2, EnqueueCounts
    <3>4. list' = list
      BY <3>1 DEF Listed, Occur
    <3> QED BY <1>b, <3>3, <3>4 DEF Count
  <2> HIDE DEF pend, que, list
  <2>2. /\ wdl = d => obj[d] = "live"
        /\ inAdd' = inAdd /\ inStop' = inStop /\ inCancel' = inCancel
        /\ inUnpack' = inUnpack /\ lost' = lost
        /\ acquires'[d] = acquires[d] + Count(wdl = d)
    BY <1>7, <1>a, <1>d DEF StopQueued, Acquire, NetInv, LifeInv
  <2> HIDE DEF inAdd, inStop, inCancel, inUnpack, lost
  <2>3. AccountInv(d)'
    BY <1>b, <1>e, <1>f, <1>g, <1>h, <1>i, <2>1, <2>2 DEF Count
  <2>4. NetInv(d)'
    BY <1>7, <1>a, <1>b, <1>d, <1>e, <2>1, <2>2
       DEF StopQueued, Acquire, NetInv, LifeInv, pend, list, inAdd, inUnpack
  <2>5. LifeInv(d)'
    <3>1. obj[d] # "live" => Holders(d)' = 0
      BY <1>b, <1>e, <1>f, <1>h, <1>j, <2>1, <2>2
    <3> QED BY <1>7, <1>a, <1>d, <2>2, <3>1 DEF StopQueued, LifeInv
  <2> QED BY <2>3, <2>4, <2>5 DEF ObjectInv
<1>8. ASSUME StopReturns
      PROVE  ObjectInv(d)'
  <2>1. pend' = pend /\ que' = que /\ list' = list
    BY <1>8, CountsKept DEF StopReturns, FirstPending
  <2> HIDE DEF pend, que, list
  <2>2. /\ inStop = Count(wdl = d) /\ inStop' = 0 /\ inAdd' = inAdd
        /\ inCancel' = inCancel /\ inUnpack' = inUnpack /\ lost' = lost
        /\ acquires'[d] = acquires[d] - Count(wdl = d)
    BY <1>8, <1>a, <1>d DEF StopReturns, Release, NetInv, LifeInv
  <2> HIDE DEF inAdd, inStop, inCancel, inUnpack, lost
  <2>3. AccountInv(d)'
    BY <1>b, <1>e, <1>f, <1>g, <1>h, <1>i, <2>1, <2>2 DEF Count
  <2>4. NetInv(d)'
    BY <1>8, <1>a, <1>b, <1>d, <1>e, <2>1, <2>2
       DEF StopReturns, Release, NetInv, LifeInv, pend, list, inAdd, inUnpack
  <2>5. LifeInv(d)'
    <3>1. obj[d] # "live" => Holders(d)' = 0
      BY <1>b, <1>e, <1>f, <1>h, <1>j, <2>1, <2>2
    <3> QED BY <1>8, <1>a, <1>d, <2>2, <3>1 DEF StopReturns, LifeInv
  <2> QED BY <2>3, <2>4, <2>5 DEF ObjectInv
<1>9. ASSUME NEW e \in Downloaders, DeleteDownloader(e)
      PROVE  ObjectInv(d)'
  <2>1. pend' = pend /\ que' = que /\ list' = list
    BY <1>9, CountsKept DEF DeleteDownloader, FirstPending
  <2> QED BY <1>9, <1>a, <1>d, <2>1
     DEF DeleteDownloader, ObjectInv, AccountInv, NetInv, LifeInv, Holders,
         Assignments
<1>10. ASSUME DownloaderDeleted
      PROVE  ObjectInv(d)'
  <2>1. pend' = pend /\ que' = que /\ list' = list
    BY <1>10, CountsKept DEF DownloaderDeleted, FirstPending
  <2> HIDE DEF pend, que, list
  <2>2. /\ inAdd' = inAdd /\ inStop' = inStop /\ inCancel' = inCancel
        /\ inUnpack' = inUnpack /\ lost' = lost
        /\ acquires'[d] = acquires[d]
        /\ wdl = d => ~(acquires[d] > 0)
    BY <1>10, <1>a, <1>d
       DEF DownloaderDeleted, IsBusy, IsDownloading, NetInv, LifeInv
  <2> HIDE DEF inAdd, inStop, inCancel, inUnpack, lost
  <2>6. wdl = d => Holders(d)' = 0
    BY <1>j, <1>k, <2>1, <2>2
  <2>3. AccountInv(d)'
    BY <1>b, <1>e, <1>f, <1>g, <1>h, <1>i, <2>1, <2>2, <2>6 DEF Count
  <2>4. NetInv(d)'
    BY <1>10, <1>a, <1>b, <1>d, <1>e, <2>1, <2>2, <2>6
       DEF DownloaderDeleted, IsBusy, IsDownloading, NetInv, LifeInv, pend,
           list, inAdd, inUnpack
  <2>5. LifeInv(d)'
    BY <1>10, <1>a, <1>b, <1>d, <1>e, <1>f, <1>g, <1>h, <2>1, <2>2, <2>6
       DEF DownloaderDeleted, LifeInv
  <2> QED BY <2>3, <2>4, <2>5 DEF ObjectInv
<1>11. ASSUME DeleteThread
      PROVE  ObjectInv(d)'
  <2>1. pend' = pend /\ que' = que /\ list' = list
    BY <1>11, CountsKept DEF DeleteThread, FirstPending
  <2> QED BY <1>11, <1>a, <1>d, <2>1
     DEF DeleteThread, ObjectInv, AccountInv, NetInv, LifeInv, Holders,
         Assignments
<1>12. ASSUME ThreadDeleted
      PROVE  ObjectInv(d)'
  <2>1. pend' = 0 /\ que' = 0 /\ list' = list
    <3>1. queue' = << >> /\ UNCHANGED <<active, tpc>> /\ tpc = "done"
      BY <1>12, <1>a DEF ThreadDeleted, ThreadTerminated, LockInv
    <3>2. FirstPending' = 1 /\ queue' \in Seq(Commands) /\ Len(queue') = 0
      BY <3>1, EmptySeq DEF FirstPending
    <3>3. /\ OccurFrom(queue', 1, {[cmd |-> "Add", dl |-> d]}) = 0
          /\ OccurFrom(queue', 1, [cmd : {"Add", "Stop"}, dl : {d}]) = 0
      <4>1. ASSUME NEW E PROVE OccurFrom(queue', 1, E) = 0
        <5>1. 1 \in Nat /\ 1 > Len(queue')
          BY <3>2
        <5> QED BY <3>2, <5>1, OccurPastEnd
      <4> QED BY <4>1
    <3> QED BY <3>1, <3>2, <3>3 DEF PendingAdds, Queued, Listed, Occur
  <2> HIDE DEF pend, que, list
  <2>2. /\ wpc = "joining" /\ obj[d] # "live"
        /\ inAdd' = inAdd /\ inStop' = inStop /\ inCancel' = inCancel
        /\ inUnpack' = inUnpack /\ lost' = lost
        /\ acquires'[d] = acquires[d] - que
    BY <1>12, <1>a, <1>d
       DEF ThreadDeleted, ThreadTerminated, NetInv, LifeInv, que, Queued
  <2> HIDE DEF inAdd, inStop, inCancel, inUnpack, lost
  <2>3. AccountInv(d)'
    BY <1>b, <1>e, <1>f, <1>g, <1>h, <1>i, <2>1, <2>2 DEF Count
  <2>4. NetInv(d)'
    BY <1>12, <1>a, <1>b, <1>d, <1>e, <2>1, <2>2
       DEF ThreadDeleted, ThreadTerminated, NetInv, LifeInv, pend, list, inAdd,
           inUnpack
  <2>5. LifeInv(d)'
    <3>1. obj[d] # "live" => Holders(d)' = 0
      BY <1>b, <1>e, <1>f, <1>h, <1>j, <2>1, <2>2
    <3> QED BY <1>12, <1>a, <1>d, <2>2, <3>1 DEF ThreadDeleted, LifeInv
  <2> QED BY <2>3, <2>4, <2>5 DEF ObjectInv
<1>13. ASSUME ProcessCommands
      PROVE  ObjectInv(d)'
  <2>1. pend' = pend /\ que' = que /\ list' = list
    BY <1>13, CountsKept DEF ProcessCommands, FirstPending
  <2> QED BY <1>13, <1>a, <1>d, <2>1
     DEF ProcessCommands, ObjectInv, AccountInv, NetInv, LifeInv, Holders,
         Assignments
<1>14. ASSUME StartDownload
      PROVE  ObjectInv(d)'
  <2>0. FindDownloader(CommandNow.dl) = 0
    <3>1. PendingAdds(CommandNow.dl) > 0 /\ CommandNow.dl \in Downloaders
      BY <1>14, <1>a, <1>d, CommandNowType, AddIsPending DEF StartDownload
    <3>2. Listed(CommandNow.dl) = 0
      <4> DEFINE e == CommandNow.dl
      <4>1. PendingAdds(e) \in Nat /\ Listed(e) \in Nat /\ AccountInv(e)
        BY <1>a, <1>c, <3>1, CountTypes
      <4> HIDE DEF e
      <4> QED BY <3>1, <4>1 DEF AccountInv, Assignments, Count, e
    <3>3. ~\E j \in 2..Len(active) : active[j] = CommandNow.dl
      BY <1>a, <3>1, <3>2, ListedPositive
    <3> QED BY <3>3 DEF FindDownloader
  <2>1. pend' = pend /\ que' = que /\ list' = list
    BY <1>14, <2>0, CountsKept DEF StartDownload, FirstPending
  <2> QED BY <1>14, <1>a, <1>d, <2>1
     DEF StartDownload, CommandDone, ObjectInv, AccountInv, NetInv, LifeInv,
         Holders, Assignments
<1>15. ASSUME SaveExStarts
      PROVE  ObjectInv(d)'
  <2>1. pend' = pend /\ que' = que /\ list' = list
    BY <1>15, CountsKept DEF SaveExStarts, FirstPending
  <2> HIDE DEF pend, que, list
  <2>2. /\ inAdd' = inAdd /\ inStop' = inStop /\ inCancel' = inCancel
        /\ inUnpack' = inUnpack /\ lost' = lost
        /\ acquires'[d] = acquires[d]
    BY <1>15, <1>a, <1>d DEF SaveExStarts, NetInv, LifeInv
  <2> HIDE DEF inAdd, inStop, inCancel, inUnpack, lost
  <2>6. CommandNow.dl = d => pend > 0
    BY <1>15, <1>a, AddIsPending DEF SaveExStarts, pend
  <2>3. AccountInv(d)'
    BY <1>b, <1>e, <1>f, <1>g, <1>h, <1>i, <2>1, <2>2, <2>6 DEF Count
  <2>4. NetInv(d)'
    <3>1. unpacker[d] # "none" => /\ pend = 0 /\ ~conn[d]
                                 /\ ~WorkerCallOn(d, {"adding"})
      BY <1>a DEF NetInv, pend
    <3>2. unpacker'[d] # "none" => pend' = 0 /\ ~conn'[d]
      BY <1>15, <1>b, <1>d, <2>1, <2>6, <3>1 DEF SaveExStarts
    <3>3. (request[d] => list > 0) /\ (request'[d] => list' > 0)
      BY <1>15, <1>a, <2>1 DEF SaveExStarts, NetInv, list
    <3> QED BY <1>15, <1>a, <1>d, <3>1, <3>2, <3>3
       DEF SaveExStarts, NetInv, pend, list
  <2>5. LifeInv(d)'
    <3>1. obj[d] # "live" => Holders(d)' = 0
      BY <1>b, <1>e, <1>f, <1>h, <1>j, <2>1, <2>2, <2>6
    <3> QED BY <1>15, <1>a, <1>d, <2>2, <3>1 DEF SaveExStarts, LifeInv
  <2> QED BY <2>3, <2>4, <2>5 DEF ObjectInv
<1>16. ASSUME DownloadRegistered
      PROVE  ObjectInv(d)'
  <2> DEFINE delta == Count(CommandNow.dl = d)
  <2>0. CommandNow.dl \in Downloaders /\ CommandNow.cmd = "Add"
    BY <1>16, <1>a, <1>d, CommandNowType DEF DownloadRegistered, LockInv
  <2>1. /\ pend' = pend - delta /\ que' = que
        /\ list' = list + delta
    <3>1. tpc \in CommandSteps /\ CommandDone /\ UNCHANGED queue
      BY <1>16 DEF DownloadRegistered
    <3>2. active' = Append(active, CommandNow.dl)
      BY <1>16 DEF DownloadRegistered
    <3>3. /\ pend' = pend - Count(CommandNow.cmd = "Add" /\ CommandNow.dl = d)
          /\ que' = que
      BY <1>a, <3>1, CommandDoneCounts
    <3>4. list' = list + delta
      BY <1>a, <2>0, <3>2, ListCounts
    <3> QED BY <2>0, <3>3, <3>4 DEF Count
  <2> HIDE DEF pend, que, list
  <2>2. /\ delta \in Nat /\ delta <= 1
        /\ inCancel = 0 /\ inCancel' = 0 /\ inAdd' = inAdd /\ inStop' = inStop
        /\ inUnpack' = inUnpack /\ lost' = lost
        /\ acquires'[d] = acquires[d]
    BY <1>16, <1>a, <1>d, <2>0
       DEF DownloadRegistered, CommandDone, NetInv, LifeInv
  <2> HIDE DEF inAdd, inStop, inCancel, inUnpack, lost, delta
  <2>3. AccountInv(d)'
    BY <1>b, <1>e, <1>f, <1>g, <1>h, <1>i, <2>1, <2>2 DEF Count
  <2>4. NetInv(d)'
    <3>1. unpacker[d] # "none" => /\ pend = 0 /\ ~conn[d]
                                 /\ ~WorkerCallOn(d, {"adding"})
      BY <1>a DEF NetInv, pend
    <3>2. unpacker'[d] # "none" => pend' = 0 /\ ~conn'[d]
      BY <1>16, <1>b, <1>e, <2>1, <2>2, <3>1 DEF DownloadRegistered
    <3>3. (request[d] => list > 0) /\ (request'[d] => list' > 0)
      <4>1. CASE CommandNow.dl = d
        BY <1>16, <1>a, <1>b, <2>1, <4>1 DEF NetInv, list, delta
      <4>2. CASE CommandNow.dl # d
        BY <1>16, <1>a, <1>b, <1>d, <2>1, <4>2
           DEF DownloadRegistered, NetInv, list, delta
      <4> QED BY <4>1, <4>2
    <3> QED BY <1>16, <1>a, <1>d, <3>1, <3>2, <3>3
       DEF DownloadRegistered, CommandDone, NetInv, pend, list
  <2>5. LifeInv(d)'
    <3>1. obj[d] # "live" => Holders(d)' = 0
      BY <1>b, <1>e, <1>f, <1>h, <1>j, <2>1, <2>2
    <3> QED BY <1>16, <1>a, <1>d, <2>2, <3>1 DEF DownloadRegistered, LifeInv
  <2> QED BY <2>3, <2>4, <2>5 DEF ObjectInv
<1>17. ASSUME SaveExFails
      PROVE  ObjectInv(d)'
  <2> DEFINE delta == Count(CommandNow.dl = d)
  <2>0. CommandNow.dl \in Downloaders /\ CommandNow.cmd = "Add"
    BY <1>17, <1>a, <1>d, CommandNowType DEF SaveExFails, LockInv
  <2>1. pend' = pend - delta /\ que' = que /\ list' = list
    <3>1. tpc \in CommandSteps /\ CommandDone /\ UNCHANGED <<queue, active>>
      BY <1>17 DEF SaveExFails
    <3>2. /\ pend' = pend - Count(CommandNow.cmd = "Add" /\ CommandNow.dl = d)
          /\ que' = que
      BY <1>a, <3>1, CommandDoneCounts
    <3> QED BY <2>0, <3>1, <3>2 DEF Count, Listed, Occur
  <2> HIDE DEF pend, que, list
  <2>2. /\ delta \in Nat /\ delta <= 1
        /\ inCancel = 0 /\ inCancel' = 0 /\ inAdd' = inAdd /\ inStop' = inStop
        /\ inUnpack' = inUnpack
        /\ delta = 1 => lost' = 1
        /\ delta = 0 => lost' = lost
        /\ acquires'[d] = acquires[d]
    BY <1>17, <1>a, <1>d, <2>0 DEF SaveExFails, CommandDone, NetInv, LifeInv
  <2> HIDE DEF inAdd, inStop, inCancel, inUnpack, lost, delta
  <2>6. lost' = lost + delta
    <3>1. delta = 0 \/ delta = 1
      BY DEF delta
    <3>2. delta = 1 => lost = 0
      BY <1>b, <1>e, <1>f, <1>g, <1>i, <2>1
    <3> QED BY <1>f, <2>2, <3>1, <3>2
  <2>3. AccountInv(d)'
    BY <1>b, <1>e, <1>f, <1>g, <1>h, <1>i, <2>1, <2>2, <2>6 DEF Count
  <2>4. NetInv(d)'
    <3>1. unpacker[d] # "none" => /\ pend = 0 /\ ~conn[d]
                                 /\ ~WorkerCallOn(d, {"adding"})
      BY <1>a DEF NetInv, pend
    <3>2. unpacker'[d] # "none" => pend' = 0 /\ ~conn'[d]
      BY <1>17, <1>b, <1>e, <2>1, <2>2, <3>1 DEF SaveExFails
    <3>3. (request[d] => list > 0) /\ (request'[d] => list' > 0)
      BY <1>17, <1>a, <1>d, <2>1 DEF SaveExFails, NetInv, list
    <3>4. CommandNow.dl = d => ~request[d]
      <4>1. CommandNow.dl = d => pend > 0
        BY <1>17, <1>a, AddIsPending DEF SaveExFails, pend
      <4>2. CommandNow.dl = d => list = 0
        BY <1>b, <1>e, <1>f, <1>g, <1>i, <4>1
      <4> QED BY <1>b, <3>3, <4>2
    <3> QED BY <1>17, <1>a, <1>d, <3>1, <3>2, <3>3, <3>4
       DEF SaveExFails, CommandDone, NetInv, pend, list
  <2>5. LifeInv(d)'
    <3>1. obj[d] # "live" => delta = 0
      BY <1>b, <1>e, <1>h, <2>1, <2>2
    <3>2. obj[d] # "live" => Holders(d)' = 0
      BY <1>b, <1>e, <1>f, <1>h, <1>j, <2>1, <2>2, <3>1
    <3> QED BY <1>17, <1>a, <1>d, <2>2, <3>2 DEF SaveExFails, LifeInv
  <2> QED BY <2>3, <2>4, <2>5 DEF ObjectInv
<1>18. ASSUME CancelDownload
      PROVE  ObjectInv(d)'
  <2>0. CommandNow.dl \in Downloaders /\ CommandNow.cmd = "Stop"
    BY <1>18, <1>a, <1>d, CommandNowType DEF CancelDownload
  <2>1. pend' = pend /\ que' = que /\ list' = list
    <3>1. CASE FindDownloader(CommandNow.dl) # 0
      BY <1>18, <3>1, CountsKept DEF CancelDownload, FirstPending
    <3>2. CASE FindDownloader(CommandNow.dl) = 0
      <4>1. tpc \in CommandSteps /\ CommandDone /\ UNCHANGED <<queue, active>>
        BY <1>18, <3>2 DEF CancelDownload
      <4>2. /\ pend' = pend - Count(CommandNow.cmd = "Add" /\ CommandNow.dl = d)
            /\ que' = que
        BY <1>a, <4>1, CommandDoneCounts
      <4> QED BY <1>b, <2>0, <4>1, <4>2 DEF Count, Listed, Occur
    <3> QED BY <3>1, <3>2
  <2> HIDE DEF pend, que, list
  <2>2. /\ inCancel = 0 /\ inAdd' = inAdd /\ inStop' = inStop
        /\ inUnpack' = inUnpack /\ lost' = lost
        /\ acquires'[d] = acquires[d] + inCancel'
        /\ inCancel' # 0 => CommandNow.dl = d /\ FindDownloader(d) # 0
    BY <1>18, <1>a, <1>d, <2>0
       DEF CancelDownload, CommandDone, Acquire, NetInv, LifeInv
  <2> HIDE DEF inAdd, inStop, inCancel, inUnpack, lost
  <2>6. FindDownloader(d) # 0 => list > 0
    <3>1. FindDownloader(d) # 0 => \E j \in 1..Len(active) : active[j] = d
      BY <1>d, LenProperties DEF FindDownloader
    <3> QED BY <1>a, <3>1, ListedPositive DEF list
  <2>3. AccountInv(d)'
    BY <1>b, <1>e, <1>f, <1>g, <1>h, <1>i, <2>1, <2>2, <2>6 DEF Count
  <2>4. NetInv(d)'
    BY <1>18, <1>a, <1>b, <1>d, <1>e, <2>0, <2>1, <2>2, <2>6
       DEF CancelDownload, CommandDone, Acquire, NetInv, LifeInv, pend, list,
           inAdd, inUnpack
  <2>5. LifeInv(d)'
    <3>1. obj[d] # "live" => Holders(d)' = 0
      BY <1>b, <1>e, <1>f, <1>h, <1>j, <2>1, <2>2, <2>6
    <3> QED BY <1>18, <1>a, <1>d, <2>2, <3>1 DEF CancelDownload, LifeInv
  <2> QED BY <2>3, <2>4, <2>5 DEF ObjectInv
<1>19. ASSUME CancelRequest
      PROVE  ObjectInv(d)'
  <2>1. pend' = pend /\ que' = que /\ list' = list
    BY <1>19, CountsKept DEF CancelRequest, FirstPending
  <2> QED BY <1>19, <1>a, <1>d, <2>1
     DEF CancelRequest, ObjectInv, AccountInv, NetInv, LifeInv, Holders,
         Assignments
<1>20. ASSUME CancelFinishes
      PROVE  ObjectInv(d)'
  <2>1. pend' = pend /\ que' = que /\ list' = list
    BY <1>20, CountsKept DEF CancelFinishes, FirstPending
  <2> HIDE DEF pend, que, list
  <2>2. /\ inAdd' = inAdd /\ inStop' = inStop /\ inCancel' = inCancel
        /\ inUnpack' = inUnpack /\ lost' = lost
        /\ acquires'[d] = acquires[d]
    BY <1>20, <1>a, <1>d
       DEF CancelFinishes, OnDownloadFinished, Acquire, NetInv, LifeInv
  <2> HIDE DEF inAdd, inStop, inCancel, inUnpack, lost
  <2>3. AccountInv(d)'
    BY <1>b, <1>e, <1>f, <1>g, <1>h, <1>i, <2>1, <2>2 DEF Count
  <2>4. NetInv(d)'
    BY <1>20, <1>a, <1>b, <1>d, <1>e, <2>1, <2>2
       DEF CancelFinishes, OnDownloadFinished, Acquire, NetInv, LifeInv, pend,
           list, inAdd, inUnpack
  <2>5. LifeInv(d)'
    <3>1. obj[d] # "live" => Holders(d)' = 0
      BY <1>b, <1>e, <1>f, <1>h, <1>j, <2>1, <2>2
    <3> QED BY <1>20, <1>a, <1>d, <2>2, <3>1 DEF CancelFinishes, LifeInv
  <2> QED BY <2>3, <2>4, <2>5 DEF ObjectInv
<1>21. ASSUME CancelReleases
      PROVE  ObjectInv(d)'
  <2>0. CommandNow.dl \in Downloaders /\ CommandNow.cmd = "Stop"
    BY <1>21, <1>a, <1>d, CommandNowType DEF CancelReleases, LockInv
  <2>1. pend' = pend /\ que' = que /\ list' = list
    <3>1. tpc \in CommandSteps /\ CommandDone /\ UNCHANGED <<queue, active>>
      BY <1>21 DEF CancelReleases
    <3>2. /\ pend' = pend - Count(CommandNow.cmd = "Add" /\ CommandNow.dl = d)
          /\ que' = que
      BY <1>a, <3>1, CommandDoneCounts
    <3> QED BY <1>b, <2>0, <3>1, <3>2 DEF Count, Listed, Occur
  <2> HIDE DEF pend, que, list
  <2>2. /\ inCancel = Count(CommandNow.dl = d) /\ inCancel' = 0
        /\ inAdd' = inAdd /\ inStop' = inStop /\ inUnpack' = inUnpack
        /\ lost' = lost
        /\ acquires'[d] = acquires[d] - inCancel
    BY <1>21, <1>a, <1>d, <2>0
       DEF CancelReleases, CommandDone, Release, NetInv, LifeInv
  <2> HIDE DEF inAdd, inStop, inCancel, inUnpack, lost
  <2>3. AccountInv(d)'
    BY <1>b, <1>e, <1>f, <1>g, <1>h, <1>i, <2>1, <2>2 DEF Count
  <2>4. NetInv(d)'
    BY <1>21, <1>a, <1>b, <1>d, <1>e, <2>0, <2>1, <2>2
       DEF CancelReleases, CommandDone, Release, NetInv, LifeInv, pend, list,
           inAdd, inUnpack
  <2>5. LifeInv(d)'
    <3>1. obj[d] # "live" => Holders(d)' = 0
      BY <1>b, <1>e, <1>f, <1>h, <1>j, <2>1, <2>2
    <3> QED BY <1>21, <1>a, <1>d, <2>2, <3>1 DEF CancelReleases, LifeInv
  <2> QED BY <2>3, <2>4, <2>5 DEF ObjectInv
<1>22. ASSUME Flush
      PROVE  ObjectInv(d)'
  <2>1. /\ pend = 0 /\ pend' = 0 /\ que' = que - Count(Head(queue).dl = d)
        /\ list' = list
        /\ Head(queue).dl \in Downloaders
    BY <1>22, <1>a, FlushCounts
  <2> HIDE DEF pend, que, list
  <2>2. /\ inCancel = 0 /\ inCancel' = 0 /\ inAdd' = inAdd /\ inStop' = inStop
        /\ inUnpack' = inUnpack /\ lost' = lost
        /\ acquires'[d] = acquires[d] - Count(Head(queue).dl = d)
    BY <1>22, <1>a, <1>d DEF Flush, Release, NetInv, LifeInv
  <2> HIDE DEF inAdd, inStop, inCancel, inUnpack, lost
  <2>3. AccountInv(d)'
    BY <1>b, <1>e, <1>f, <1>g, <1>h, <1>i, <2>1, <2>2 DEF Count
  <2>4. NetInv(d)'
    BY <1>22, <1>a, <1>b, <1>d, <1>e, <2>1, <2>2
       DEF Flush, Release, NetInv, LifeInv, pend, list, inAdd, inUnpack
  <2>5. LifeInv(d)'
    <3>1. obj[d] # "live" => Holders(d)' = 0
      BY <1>b, <1>e, <1>f, <1>h, <1>j, <2>1, <2>2
    <3> QED BY <1>22, <1>a, <1>d, <2>2, <3>1 DEF Flush, LifeInv
  <2> QED BY <2>3, <2>4, <2>5 DEF ObjectInv
<1>23. ASSUME Scan
      PROVE  ObjectInv(d)'
  <2>1. pend' = pend /\ que' = que /\ list' = list
    BY <1>23, CountsKept DEF Scan, FirstPending
  <2> QED BY <1>23, <1>a, <1>d, <2>1
     DEF Scan, ObjectInv, AccountInv, NetInv, LifeInv, Holders, Assignments
<1>24. ASSUME RemoveFinished
      PROVE  ObjectInv(d)'
  <2> DEFINE delta == Count(active[idx] = d /\ ~request[d])
  <2>0. idx \in 1..Len(active) /\ active[idx] \in Downloaders
    <3>1. idx \in 1..Len(active) /\ active \in Seq(Downloaders)
      BY <1>24, <1>d, LenProperties DEF RemoveFinished, ThreadTypes, IndexOK
    <3> QED BY <3>1, ElementOfSeq
  <2>1. /\ pend' = pend /\ que' = que
        /\ list' = list - delta
    <3>1. /\ UNCHANGED queue /\ FirstPending' = FirstPending
      BY <1>24 DEF RemoveFinished, FirstPending
    <3>2. CASE IsDownloading(active[idx])
      BY <1>24, <1>b, <3>1, <3>2, CountsKept
         DEF RemoveFinished, IsDownloading, Count
    <3>3. CASE ~IsDownloading(active[idx])
      <4>1. list' = list - Count(active[idx] = d)
        BY <1>24, <1>a, <2>0, <3>3, UnlistCounts DEF RemoveFinished
      <4> QED BY <3>1, <3>3, <4>1
         DEF PendingAdds, Queued, Occur, IsDownloading, Count
    <3> QED BY <3>2, <3>3
  <2> HIDE DEF pend, que, list
  <2>2. /\ delta \in Nat /\ delta <= 1
        /\ inCancel = 0 /\ inCancel' = 0 /\ inAdd' = inAdd /\ inStop' = inStop
        /\ inUnpack' = inUnpack /\ lost' = lost
        /\ acquires'[d] = acquires[d] - delta
    BY <1>24, <1>a, <1>d, <2>0
       DEF RemoveFinished, Release, IsBusy, IsDownloading, NetInv, LifeInv
  <2> HIDE DEF inAdd, inStop, inCancel, inUnpack, lost, delta
  <2>3. AccountInv(d)'
    BY <1>b, <1>e, <1>f, <1>g, <1>h, <1>i, <2>1, <2>2 DEF Count
  <2>4. NetInv(d)'
    BY <1>24, <1>a, <1>b, <1>d, <1>e, <2>0, <2>1, <2>2
       DEF RemoveFinished, Release, IsBusy, IsDownloading, NetInv, LifeInv,
           pend, list, inAdd, inUnpack, delta
  <2>5. LifeInv(d)'
    <3>1. obj[d] # "live" => Holders(d)' = 0
      BY <1>b, <1>e, <1>f, <1>h, <1>j, <2>1, <2>2
    <3> QED BY <1>24, <1>a, <1>d, <2>2, <3>1 DEF RemoveFinished, LifeInv
  <2> QED BY <2>3, <2>4, <2>5 DEF ObjectInv
<1>25. ASSUME RemovalDone
      PROVE  ObjectInv(d)'
  <2>1. pend' = pend /\ que' = que /\ list' = list
    BY <1>25, CountsKept DEF RemovalDone, FirstPending
  <2> QED BY <1>25, <1>a, <1>d, <2>1
     DEF RemovalDone, ObjectInv, AccountInv, NetInv, LifeInv, Holders,
         Assignments
<1>26. ASSUME ProcessDownloads
      PROVE  ObjectInv(d)'
  <2>1. pend' = pend /\ que' = que /\ list' = list
    BY <1>26, CountsKept DEF ProcessDownloads, FirstPending
  <2> QED BY <1>26, <1>a, <1>d, <2>1
     DEF ProcessDownloads, ObjectInv, AccountInv, NetInv, LifeInv, Holders,
         Assignments
<1>27. ASSUME Evaluate
      PROVE  ObjectInv(d)'
  <2>1. pend' = pend /\ que' = que /\ list' = list
    BY <1>27, CountsKept DEF Evaluate, FirstPending
  <2> QED BY <1>27, <1>a, <1>d, <2>1
     DEF Evaluate, ObjectInv, AccountInv, NetInv, LifeInv, Holders, Assignments
<1>28. ASSUME Exit
      PROVE  ObjectInv(d)'
  <2>1. pend' = pend /\ que' = que /\ list' = list
    BY <1>28, CountsKept DEF Exit, FirstPending
  <2> QED BY <1>28, <1>a, <1>d, <2>1
     DEF Exit, ObjectInv, AccountInv, NetInv, LifeInv, Holders, Assignments
<1>29. ASSUME MenuThinks
      PROVE  ObjectInv(d)'
  <2>1. pend' = pend /\ que' = que /\ list' = list
    BY <1>29, CountsKept DEF MenuThinks, FirstPending
  <2> QED BY <1>29, <1>a, <1>d, <2>1
     DEF MenuThinks, ObjectInv, AccountInv, NetInv, LifeInv, Holders,
         Assignments
<1>30. ASSUME NEW e \in Downloaders,
           NEW kind \in {"progress", "DOWNLOAD_SUCCESS", "DOWNLOAD_ERROR"},
           CallbackDue(e, kind)
      PROVE  ObjectInv(d)'
  <2>1. pend' = pend /\ que' = que /\ list' = list
    BY <1>30, CountsKept DEF CallbackDue, FirstPending
  <2> QED BY <1>30, <1>a, <1>d, <2>1
     DEF CallbackDue, ObjectInv, AccountInv, NetInv, LifeInv, Holders,
         Assignments
<1>31. ASSUME ProgressCallback
      PROVE  ObjectInv(d)'
  <2>1. pend' = pend /\ que' = que /\ list' = list
    BY <1>31, CountsKept DEF ProgressCallback, FirstPending
  <2> QED BY <1>31, <1>a, <1>d, <2>1
     DEF ProgressCallback, ObjectInv, AccountInv, NetInv, LifeInv, Holders,
         Assignments
<1>32. ASSUME FinishCallback
      PROVE  ObjectInv(d)'
  <2>1. pend' = pend /\ que' = que /\ list' = list
    BY <1>32, CountsKept DEF FinishCallback, FirstPending
  <2> HIDE DEF pend, que, list
  <2>2. /\ inAdd' = inAdd /\ inStop' = inStop /\ inCancel' = inCancel
        /\ lost' = lost
        /\ acquires'[d] = acquires[d] + inUnpack' - inUnpack
        /\ inUnpack' # inUnpack => inUnpack = 0 /\ inUnpack' = 1
    BY <1>32, <1>a, <1>d
       DEF FinishCallback, OnDownloadFinished, Acquire, NetInv, LifeInv
  <2> HIDE DEF inAdd, inStop, inCancel, inUnpack, lost
  <2>6. /\ callback[1] = d => request[d] /\ list > 0 /\ inAdd = 0 /\ pend = 0
        /\ inUnpack' # inUnpack => list > 0
    <3>1. callback[1] = d => request[d]
      BY <1>32, <1>a, <1>d DEF FinishCallback, NetInv
    <3>2. request[d] => list > 0
      BY <1>a DEF NetInv, list
    <3>3. inUnpack' # inUnpack => callback[1] = d
      BY <1>32, <1>d DEF FinishCallback, OnDownloadFinished, inUnpack
    <3> QED BY <1>b, <1>e, <1>f, <1>g, <1>i, <3>1, <3>2, <3>3
  <2>3. AccountInv(d)'
    BY <1>b, <1>e, <1>f, <1>g, <1>h, <1>i, <2>1, <2>2, <2>6 DEF Count
  <2>4. NetInv(d)'
    <3>1. unpacker[d] # "none" => /\ pend = 0 /\ ~conn[d]
                                 /\ ~WorkerCallOn(d, {"adding"})
      BY <1>a DEF NetInv, pend
    <3>2. unpacker'[d] # "none" => /\ pend' = 0 /\ ~conn'[d]
                                  /\ ~WorkerCallOn(d, {"adding"})'
      <4>1. CASE callback[1] = d
        <5>1. ~WorkerCallOn(d, {"adding"})
          BY <2>6, <4>1 DEF inAdd
        <5> QED BY <1>32, <1>d, <2>1, <2>6, <4>1, <5>1 DEF FinishCallback
      <4>2. CASE callback[1] # d
        BY <1>32, <1>d, <2>1, <3>1, <4>2 DEF FinishCallback, OnDownloadFinished
      <4> QED BY <4>1, <4>2
    <3>3. (request[d] => list > 0) /\ (request'[d] => list' > 0)
      BY <1>32, <1>a, <1>d, <2>1
         DEF FinishCallback, OnDownloadFinished, NetInv, list
    <3> QED BY <1>32, <1>a, <1>d, <3>1, <3>2, <3>3
       DEF FinishCallback, OnDownloadFinished, Acquire, NetInv, pend, list
  <2>5. LifeInv(d)'
    <3>1. obj[d] # "live" => Holders(d)' = 0
      BY <1>b, <1>e, <1>f, <1>h, <1>j, <2>1, <2>2, <2>6
    <3> QED BY <1>32, <1>a, <1>d, <2>2, <3>1 DEF FinishCallback, LifeInv
  <2> QED BY <2>3, <2>4, <2>5 DEF ObjectInv
<1>33. ASSUME ThinkReturns
      PROVE  ObjectInv(d)'
  <2>1. pend' = pend /\ que' = que /\ list' = list
    BY <1>33, <1>a, CountsKept DEF ThinkReturns, FirstPending
  <2> QED BY <1>33, <1>a, <1>d, <2>1
     DEF ThinkReturns, ObjectInv, AccountInv, NetInv, LifeInv, Holders,
         Assignments
<1>34. ASSUME NEW e \in Downloaders, NEW ok \in BOOLEAN, Unpack(e, ok)
      PROVE  ObjectInv(d)'
  <2>1. pend' = pend /\ que' = que /\ list' = list
    BY <1>34, CountsKept DEF Unpack, FirstPending
  <2> HIDE DEF pend, que, list
  <2>2. /\ inAdd' = inAdd /\ inStop' = inStop /\ inCancel' = inCancel
        /\ inUnpack' = inUnpack /\ lost' = lost
        /\ acquires'[d] = acquires[d]
    BY <1>34, <1>a, <1>d DEF Unpack, NetInv, LifeInv
  <2> HIDE DEF inAdd, inStop, inCancel, inUnpack, lost
  <2>3. AccountInv(d)'
    BY <1>b, <1>e, <1>f, <1>g, <1>h, <1>i, <2>1, <2>2 DEF Count
  <2>4. NetInv(d)'
    BY <1>34, <1>a, <1>b, <1>d, <1>e, <2>1, <2>2
       DEF Unpack, NetInv, LifeInv, pend, list, inAdd, inUnpack
  <2>5. LifeInv(d)'
    <3>1. obj[d] # "live" => Holders(d)' = 0
      BY <1>b, <1>e, <1>f, <1>h, <1>j, <2>1, <2>2
    <3> QED BY <1>34, <1>a, <1>d, <2>2, <3>1 DEF Unpack, LifeInv
  <2> QED BY <2>3, <2>4, <2>5 DEF ObjectInv
<1>35. ASSUME NEW e \in Downloaders, UnpackerReleases(e)
      PROVE  ObjectInv(d)'
  <2>1. pend' = pend /\ que' = que /\ list' = list
    BY <1>35, CountsKept DEF UnpackerReleases, FirstPending
  <2> HIDE DEF pend, que, list
  <2>2. /\ (e = d => inUnpack' = 0) /\ (e # d => inUnpack' = inUnpack)
        /\ inAdd' = inAdd /\ inStop' = inStop /\ inCancel' = inCancel
        /\ lost' = lost
        /\ acquires'[d] = acquires[d] + inUnpack' - inUnpack
    BY <1>35, <1>a, <1>d DEF UnpackerReleases, Release, NetInv, LifeInv
  <2> HIDE DEF inAdd, inStop, inCancel, inUnpack, lost
  <2>3. AccountInv(d)'
    BY <1>b, <1>e, <1>f, <1>g, <1>h, <1>i, <2>1, <2>2 DEF Count
  <2>4. NetInv(d)'
    BY <1>35, <1>a, <1>b, <1>d, <1>e, <2>1, <2>2
       DEF UnpackerReleases, Release, NetInv, LifeInv, pend, list, inAdd,
           inUnpack
  <2>5. LifeInv(d)'
    <3>1. obj[d] # "live" => Holders(d)' = 0
      BY <1>b, <1>e, <1>f, <1>h, <1>j, <2>1, <2>2
    <3> QED BY <1>35, <1>a, <1>d, <2>2, <3>1 DEF UnpackerReleases, LifeInv
  <2> QED BY <2>3, <2>4, <2>5 DEF ObjectInv
<1>36. CASE UNCHANGED vars
  BY <1>36, <1>a, CountsKept
     DEF vars, FirstPending, ObjectInv, AccountInv, NetInv, LifeInv, Holders,
         Assignments
<1> HIDE DEF object, thread, library, history
<1> QED
  BY <1>1, <1>2, <1>3, <1>4, <1>5, <1>6, <1>7, <1>8, <1>9, <1>10, <1>11, <1>12,
     <1>13, <1>14, <1>15, <1>16, <1>17, <1>18, <1>19, <1>20, <1>21, <1>22,
     <1>23, <1>24, <1>25, <1>26, <1>27, <1>28, <1>29, <1>30, <1>31, <1>32,
     <1>33, <1>34, <1>35, <1>36
     DEF Next, WorkerNext, WorkerCall, DLThreadNext, ThinkNext, UnpackerNext

\* The inductive invariant holds at the start: nothing is acquired, queued or
\* listed, and no object is live.
LEMMA IInvInit ==
    ASSUME Init
    PROVE  IInv
<1>1. TypeOK /\ LockInv
  BY StructInit
<1>2. ASSUME NEW d \in Downloaders PROVE ObjectInv(d)
  <2>1. PendingAdds(d) = 0 /\ Queued(d) = 0 /\ Listed(d) = 0
    <3>1. ASSUME NEW E PROVE OccurFrom(<< >>, 1, E) = 0
      <4>1. 1 \in Nat /\ 1 > Len(<< >>) /\ << >> \in Seq(Commands)
        BY EmptySeq
      <4> QED BY <4>1, OccurPastEnd
    <3>2. queue = << >> /\ active = << >> /\ FirstPending = 1
      BY DEF Init, FirstPending, CommandSteps
    <3> QED BY <3>1, <3>2 DEF PendingAdds, Queued, Listed, Occur
  <2>2. Holders(d) = 0 /\ Assignments(d) = 0
    BY <2>1 DEF Init, Holders, Assignments, Count, WorkerCallOn, CommandOn,
       CancelSteps
  <2>3. AccountInv(d)
    BY <2>2 DEF Init, AccountInv, Count
  <2>4. NetInv(d)
    BY <2>1 DEF Init, NetInv, CommandOn
  <2>5. LifeInv(d)
    BY <2>2 DEF Init, LifeInv, InCall, WorkerCallOn
  <2> QED BY <2>3, <2>4, <2>5 DEF ObjectInv
<1> QED BY <1>1, <1>2 DEF IInv

\* Every step keeps the inductive invariant.
LEMMA IInvNext ==
    ASSUME IInv, [Next]_vars
    PROVE  IInv'
<1>1. TypeOK' /\ LockInv'
  BY StructNext DEF IInv
<1>2. ASSUME NEW d \in Downloaders PROVE ObjectInv(d)'
  BY CountNext
<1> QED BY <1>1, <1>2 DEF IInv

\* IInv is an invariant: in every reachable state the types are right, each
\* lock is owned by the thread between its Lock and Unlock, and each object's
\* count, request, connection and life agree.
THEOREM Inductive == Spec => []IInv
<1>1. Init => IInv
  BY IInvInit
<1>2. IInv /\ [Next]_vars => IInv'
  BY IInvNext
<1> QED BY <1>1, <1>2, PTL DEF Spec

\* m_AcquiresCount always is the number of the object's holders (plus one for
\* an object the HTTP library refused), however the threads interleave.
THEOREM CountIsHolders == Spec => []RefCount
<1>1. IInv => RefCount
  BY DEF IInv, ObjectInv, AccountInv, RefCount
<1> QED BY <1>1, Inductive, PTL

\* No thread, queue, list or callback reaches an object that was deleted: the
\* busy wait of the destructor is enough.
THEOREM DeletedIsUnreachable == Spec => []NoDangling
<1>1. ASSUME IInv PROVE NoDangling
  <2> SUFFICES ASSUME NEW d \in Downloaders, obj[d] # "live"
               PROVE  /\ Holders(d) = 0
                      /\ ~request[d] /\ ~conn[d]
                      /\ callback = << >> \/ callback[1] # d
                      /\ ~CommandOn(d, {"requesting", "registering"})
                      /\ ~WorkerCallOn(d, {"deleting"})
                      /\ lock[d] = Nobody
    BY DEF NoDangling
  <2>1. TypeOK /\ LockInv /\ AccountInv(d) /\ NetInv(d) /\ LifeInv(d)
    BY <1>1 DEF IInv, ObjectInv
  <2>2. /\ PendingAdds(d) \in Nat /\ Queued(d) \in Nat /\ Listed(d) \in Nat
    BY <2>1, CountTypes
  <2>3. Holders(d) = 0
    BY <2>1 DEF LifeInv
  <2>4. PendingAdds(d) = 0 /\ Listed(d) = 0
    <3>1. \A b : Count(b) \in Nat
      BY DEF Count
    <3> QED BY <2>2, <2>3, <3>1 DEF Holders, Assignments
  <2>5. ~CommandOn(d, {"requesting", "registering"})
    <3> SUFFICES ASSUME CommandOn(d, HoldsLock) PROVE FALSE
      BY DEF HoldsLock
    <3>1. tpc \in CommandSteps /\ CommandNow.cmd = "Add" /\ CommandNow.dl = d
      BY <2>1 DEF CommandOn, HoldsLock, CommandSteps, LockInv
    <3> QED BY <2>1, <2>4, <3>1, AddIsPending
  <2>6. ~request[d] /\ ~conn[d]
    BY <2>1, <2>4, <2>5 DEF NetInv, CommandOn
  <2>7. callback = << >> \/ callback[1] # d
    BY <2>1, <2>6 DEF NetInv
  <2>8. ~WorkerCallOn(d, InCall)
    BY <2>1 DEF LifeInv
  <2>9. ~WorkerCallOn(d, {"adding"}) /\ ~WorkerCallOn(d, {"deleting"})
    BY <2>8 DEF WorkerCallOn, InCall
  <2>10. lock[d] = Nobody
    <3>1. lock[d] \in Owners /\ lock[d] # "worker" /\ lock[d] # "dl"
          /\ lock[d] # "menu"
      BY <2>1, <2>5, <2>9 DEF LockInv, HoldsLock, TypeOK, ObjectTypes
    <3> QED BY <3>1 DEF Owners, Threads
  <2> QED BY <2>3, <2>5, <2>6, <2>7, <2>9, <2>10
<1> QED BY <1>1, Inductive, PTL

\* A download is marked as running exactly while the HTTP library has its
\* connection, and a running download is on the thread's list.
THEOREM RequestIsConnection == Spec => []RequestMatchesConnection
<1>1. IInv => RequestMatchesConnection
  BY DEF IInv, ObjectInv, NetInv, RequestMatchesConnection
<1> QED BY <1>1, Inductive, PTL

-------------------------------------------------------------------------------
(* The result, the end of the thread, deadlock freedom and the refinement *)

\* What the count and the number of holders say about each kind of holder.
LEMMA HolderKinds ==
    ASSUME IInv, NEW d \in Downloaders
    PROVE  /\ acquires[d] \in Nat /\ PendingAdds(d) \in Nat
           /\ Queued(d) \in Nat /\ Listed(d) \in Nat
           /\ acquires[d] = 0 => Holders(d) = 0 /\ ~refused[d]
           /\ Holders(d) = 0 =>
                 /\ PendingAdds(d) = 0 /\ Queued(d) = 0 /\ Listed(d) = 0
                 /\ ~WorkerCallOn(d, {"adding"})
                 /\ ~WorkerCallOn(d, {"stopping", "queueing", "releasing"})
                 /\ ~CommandOn(d, CancelSteps) /\ unpacker[d] = "none"
           /\ acquires[d] = 1 /\ WorkerCallOn(d, {"adding"}) =>
                 /\ PendingAdds(d) = 0 /\ Queued(d) = 0 /\ Listed(d) = 0
                 /\ ~CommandOn(d, CancelSteps) /\ unpacker[d] = "none"
                 /\ ~refused[d]
           /\ PendingAdds(d) > 0 => /\ Listed(d) = 0 /\ PendingAdds(d) = 1
                                    /\ obj[d] = "live"
<1> DEFINE x1 == Count(WorkerCallOn(d, {"adding"}))
           x2 == PendingAdds(d)
           x3 == Listed(d)
           x4 == Queued(d)
           x5 == Count(WorkerCallOn(d, {"stopping", "queueing", "releasing"}))
           x6 == Count(CommandOn(d, CancelSteps))
           x7 == Count(unpacker[d] # "none")
           x8 == Count(refused[d])
<1>1. x2 \in Nat /\ x3 \in Nat /\ x4 \in Nat
  BY CountTypes DEF IInv
<1>2. x1 \in Nat /\ x5 \in Nat /\ x6 \in Nat /\ x7 \in Nat /\ x8 \in Nat
  BY DEF Count
<1>3. /\ Holders(d) = x1 + x2 + x3 + x4 + x5 + x6 + x7
      /\ acquires[d] = Holders(d) + x8
      /\ x1 + x2 + x3 + x8 <= 1
      /\ obj[d] # "live" => Holders(d) = 0
  BY DEF IInv, ObjectInv, AccountInv, LifeInv, Holders, Assignments
<1>4. /\ x1 = 0 <=> ~WorkerCallOn(d, {"adding"})
      /\ x1 = 1 <=> WorkerCallOn(d, {"adding"})
      /\ x5 = 0 <=> ~WorkerCallOn(d, {"stopping", "queueing", "releasing"})
      /\ x6 = 0 <=> ~CommandOn(d, CancelSteps)
      /\ x7 = 0 <=> unpacker[d] = "none"
      /\ x8 = 0 <=> ~refused[d]
  BY DEF Count
<1> HIDE DEF x1, x2, x3, x4, x5, x6, x7, x8
<1>5. /\ acquires[d] \in Nat
      /\ acquires[d] = 0 => Holders(d) = 0 /\ x8 = 0
      /\ Holders(d) = 0 => /\ x1 = 0 /\ x2 = 0 /\ x3 = 0 /\ x4 = 0
                           /\ x5 = 0 /\ x6 = 0 /\ x7 = 0
      /\ acquires[d] = 1 /\ x1 = 1 => /\ x2 = 0 /\ x3 = 0 /\ x4 = 0
                                      /\ x6 = 0 /\ x7 = 0 /\ x8 = 0
      /\ x2 > 0 => x3 = 0 /\ x2 = 1 /\ obj[d] = "live"
  BY <1>1, <1>2, <1>3
<1> QED BY <1>1, <1>4, <1>5 DEF x2, x3, x4

\* The DL thread holds the lock only of an object that waits to be started.
LEMMA LockedIsPending ==
    ASSUME IInv, NEW d \in Downloaders, CommandOn(d, HoldsLock)
    PROVE  PendingAdds(d) > 0 /\ Listed(d) = 0 /\ obj[d] = "live"
<1>1. TypeOK /\ tpc \in CommandSteps /\ CommandNow.cmd = "Add"
      /\ CommandNow.dl = d
  BY DEF IInv, CommandOn, HoldsLock, CommandSteps, LockInv
<1>2. PendingAdds(d) > 0
  BY <1>1, AddIsPending
<1> QED BY <1>2, HolderKinds

\* An object at rest has no connection, and nothing of it is underway.
LEMMA RestIsQuiet ==
    ASSUME IInv, NEW d \in Downloaders, ~IsBusy(d)
    PROVE  ~Underway(d) /\ ~conn[d]
<1>1. acquires[d] = 0 /\ ~request[d] /\ Holders(d) = 0 /\ ~refused[d]
  BY HolderKinds DEF IsBusy, IsDownloading
<1>2. PendingAdds(d) = 0 /\ ~CommandOn(d, CancelSteps) /\ unpacker[d] = "none"
  BY <1>1, HolderKinds
<1>3. ~CommandOn(d, {"registering"})
  <2>1. CommandOn(d, {"registering"}) => CommandOn(d, HoldsLock)
    BY DEF CommandOn, HoldsLock
  <2> QED BY <1>2, <2>1, LockedIsPending, HolderKinds
<1>4. ~conn[d]
  BY <1>1, <1>3 DEF IInv, ObjectInv, NetInv
<1> QED BY <1>1, <1>2, <1>4 DEF Underway, CommandOn, CancelSteps

\* An object whose start is pending is not on the list, so that StartDownload
\* does not take it for a download that runs already.
LEMMA NotListedYet ==
    ASSUME IInv, tpc \in CommandSteps, CommandNow.cmd = "Add"
    PROVE  CommandNow.dl \in Downloaders /\ FindDownloader(CommandNow.dl) = 0
<1> DEFINE e == CommandNow.dl
<1>1. TypeOK /\ e \in Downloaders
  BY CommandNowType DEF IInv, TypeOK
<1>2. PendingAdds(e) > 0
  BY <1>1, AddIsPending
<1> HIDE DEF e
<1>3. ~(Listed(e) > 0)
  BY <1>1, <1>2, HolderKinds
<1>4. ~\E j \in 2..Len(active) : active[j] = e
  BY <1>1, <1>3, ListedPositive DEF TypeOK, ThreadTypes
<1> QED BY <1>1, <1>4 DEF FindDownloader, e

\* Every step keeps the result of every object: what leaves one stage of a
\* download (queue, connection, cancellation, unpacker) enters the next one.
LEMMA ResultNext ==
    ASSUME IInv, \A e \in Downloaders : ResultInv(e), [Next]_vars,
           NEW d \in Downloaders
    PROVE  ResultInv(d)'
<1> DEFINE pend == PendingAdds(d)
<1>a. /\ ObjectTypes /\ ThreadTypes /\ LibraryTypes /\ HistoryTypes /\ LockInv
      /\ IndexOK /\ NetInv(d) /\ LifeInv(d) /\ ResultInv(d)
  BY DEF IInv, TypeOK, ObjectInv
<1>b. /\ acquires[d] \in Nat /\ pend \in Nat /\ pend' \in Nat
      /\ acquires[d] = 0 => ~refused[d]
      /\ pend > 0 => obj[d] = "live"
      /\ CommandOn(d, HoldsLock) => pend > 0 /\ obj[d] = "live"
  <2>1. pend' \in Nat
    <3>1. IInv'
      BY IInvNext
    <3>2. queue' \in Seq(Commands) /\ FirstPending' \in Nat
      BY <3>1, LenProperties DEF IInv, TypeOK, ThreadTypes, FirstPending
    <3> QED BY <3>2, OccurType DEF PendingAdds
  <2> QED BY <2>1, HolderKinds, LockedIsPending
<1>c. TypeOK
  BY DEF IInv
<1> USE DEF object, thread, library, history, Owners, Threads, Nobody,
   CommandSteps, CancelSteps, HoldsRecLock, InCall, HoldsLock, CanLock,
   CanLockThread, LockInv, ObjectTypes, ThreadTypes, LibraryTypes,
   HistoryTypes, WorkerCallOn, CommandOn, CommandNow, ResultInv, Underway
<1>1. ASSUME NEW e \in Downloaders, CreateDownloader(e)
      PROVE  ResultInv(d)'
  <2>1. pend' = pend
    BY <1>1, <1>a, CountsKept DEF CreateDownloader, FirstPending
  <2> HIDE DEF pend
  <2> QED BY <1>1, <1>a, <1>b, <2>1 DEF CreateDownloader, NetInv, LifeInv, pend
<1>2. ASSUME NEW e \in Downloaders, StartAsyncDownload(e)
      PROVE  ResultInv(d)'
  <2>1. pend' = pend
    BY <1>2, <1>a, CountsKept DEF StartAsyncDownload, FirstPending
  <2> HIDE DEF pend
  <2> QED BY <1>2, <1>a, <1>b, <2>1 DEF StartAsyncDownload, Acquire, IsBusy,
     IsDownloading, NetInv, LifeInv, pend
<1>3. ASSUME StartAccepted
      PROVE  ResultInv(d)'
  <2>1. pend' = pend + Count(wdl = d)
    <3> DEFINE entry == [cmd |-> "Add", dl |-> wdl]
    <3>1. /\ entry \in Commands /\ queue' = Append(queue, entry)
          /\ FirstPending = 1 /\ FirstPending' = 1
      BY <1>3, <1>a DEF StartAccepted, Commands, FirstPending
    <3>2. pend' = pend + Count(entry.cmd = "Add" /\ entry.dl = d)
      <4> HIDE DEF entry
      <4> QED BY <1>c, <3>1, EnqueueCounts
    <3> QED BY <3>2
  <2>2. wdl = d => pend' > 0
    BY <1>b, <2>1 DEF Count
  <2>3. wdl # d => pend' = pend
    BY <1>b, <2>1 DEF Count
  <2> HIDE DEF pend
  <2> QED BY <1>3, <1>a, <2>2, <2>3 DEF StartAccepted, Acquire, pend
<1>4. ASSUME StartRefused
      PROVE  ResultInv(d)'
  <2>1. pend' = pend
    BY <1>4, <1>a, CountsKept DEF StartRefused, FirstPending
  <2> HIDE DEF pend
  <2> QED BY <1>4, <1>a, <1>b, <2>1 DEF StartRefused, Release, NetInv,
     LifeInv, pend
<1>5. ASSUME NEW e \in Downloaders, RequestStop(e)
      PROVE  ResultInv(d)'
  <2>1. pend' = pend
    BY <1>5, <1>a, CountsKept DEF RequestStop, FirstPending
  <2> HIDE DEF pend
  <2> QED BY <1>5, <1>a, <1>b, <2>1 DEF RequestStop, Acquire, NetInv, LifeInv,
     pend
<1>6. ASSUME StopEntersQueue
      PROVE  ResultInv(d)'
  <2>1. pend' = pend
    BY <1>6, <1>a, CountsKept DEF StopEntersQueue, FirstPending
  <2> HIDE DEF pend
  <2> QED BY <1>6, <1>a, <1>b, <2>1 DEF StopEntersQueue, NetInv, LifeInv, pend
<1>7. ASSUME StopQueued
      PROVE  ResultInv(d)'
  <2>1. pend' = pend
    <3> DEFINE entry == [cmd |-> "Stop", dl |-> wdl]
    <3>1. /\ entry \in Commands /\ queue' = Append(queue, entry)
          /\ FirstPending = 1 /\ FirstPending' = 1
      BY <1>7, <1>a DEF StopQueued, Commands, FirstPending
    <3>2. pend' = pend + Count(entry.cmd = "Add" /\ entry.dl = d)
      <4> HIDE DEF entry
      <4> QED BY <1>c, <3>1, EnqueueCounts
    <3> QED BY <1>b, <3>2 DEF Count
  <2> HIDE DEF pend
  <2> QED BY <1>7, <1>a, <2>1 DEF StopQueued, Acquire, pend
<1>8. ASSUME StopReturns
      PROVE  ResultInv(d)'
  <2>1. pend' = pend
    BY <1>8, <1>a, CountsKept DEF StopReturns, FirstPending
  <2> HIDE DEF pend
  <2> QED BY <1>8, <1>a, <1>b, <2>1 DEF StopReturns, Release, NetInv, LifeInv,
     pend
<1>9. ASSUME NEW e \in Downloaders, DeleteDownloader(e)
      PROVE  ResultInv(d)'
  <2>1. pend' = pend
    BY <1>9, <1>a, CountsKept DEF DeleteDownloader, FirstPending
  <2> HIDE DEF pend
  <2> QED BY <1>9, <1>a, <1>b, <2>1 DEF DeleteDownloader, NetInv, LifeInv, pend
<1>10. ASSUME DownloaderDeleted
      PROVE  ResultInv(d)'
  <2>1. pend' = pend
    BY <1>10, <1>a, CountsKept DEF DownloaderDeleted, FirstPending
  <2> HIDE DEF pend
  <2> QED BY <1>10, <1>a, <1>b, <2>1 DEF DownloaderDeleted, IsBusy,
     IsDownloading,
     NetInv, LifeInv, pend
<1>11. ASSUME DeleteThread
      PROVE  ResultInv(d)'
  <2>1. pend' = pend
    BY <1>11, <1>a, CountsKept DEF DeleteThread, FirstPending
  <2> HIDE DEF pend
  <2> QED BY <1>11, <1>a, <1>b, <2>1 DEF DeleteThread, NetInv, LifeInv, pend
<1>12. ASSUME ThreadDeleted
      PROVE  ResultInv(d)'
  <2>1. pend = 0
    BY <1>12, <1>a, <1>b DEF ThreadDeleted, LifeInv
  <2> HIDE DEF pend
  <2> QED BY <1>12, <1>a, <2>1 DEF ThreadDeleted, ThreadTerminated, pend
<1>13. ASSUME ProcessCommands
      PROVE  ResultInv(d)'
  <2>1. pend' = pend
    BY <1>13, <1>a, CountsKept DEF ProcessCommands, FirstPending
  <2> HIDE DEF pend
  <2> QED BY <1>13, <1>a, <1>b, <2>1 DEF ProcessCommands, NetInv, LifeInv, pend
<1>14. ASSUME StartDownload
      PROVE  ResultInv(d)'
  <2>1. CommandNow.dl \in Downloaders /\ FindDownloader(CommandNow.dl) = 0
    BY <1>14, <1>c, NotListedYet DEF StartDownload
  <2>2. pend' = pend
    BY <1>14, <2>1, CountsKept DEF StartDownload, FirstPending
  <2> HIDE DEF pend
  <2> QED BY <1>14, <1>a, <2>1, <2>2 DEF StartDownload, pend
<1>15. ASSUME SaveExStarts
      PROVE  ResultInv(d)'
  <2>1. pend' = pend
    BY <1>15, <1>a, CountsKept DEF SaveExStarts, FirstPending
  <2> HIDE DEF pend
  <2> QED BY <1>15, <1>a, <1>b, <2>1 DEF SaveExStarts, NetInv, LifeInv, pend
<1>16. ASSUME DownloadRegistered
      PROVE  ResultInv(d)'
  <2>1. tpc \in CommandSteps /\ CommandDone /\ UNCHANGED queue
    BY <1>16 DEF DownloadRegistered
  <2>2. pend' = pend - Count(CommandNow.cmd = "Add" /\ CommandNow.dl = d)
    BY <1>c, <2>1, CommandDoneCounts
  <2>3. CommandNow.dl = d \/ pend' = pend
    BY <1>b, <2>2 DEF Count
  <2>4. CommandNow.dl = d => conn[d]
    BY <1>16, <1>a DEF DownloadRegistered, NetInv
  <2> HIDE DEF pend
  <2> QED BY <1>16, <1>a, <2>3, <2>4 DEF DownloadRegistered, pend
<1>17. ASSUME SaveExFails
      PROVE  ResultInv(d)'
  <2>1. tpc \in CommandSteps /\ CommandDone /\ UNCHANGED queue
    BY <1>17 DEF SaveExFails
  <2>2. pend' = pend - Count(CommandNow.cmd = "Add" /\ CommandNow.dl = d)
    BY <1>c, <2>1, CommandDoneCounts
  <2>3. CommandNow.dl = d \/ pend' = pend
    BY <1>b, <2>2 DEF Count
  <2>4. CommandNow.dl = d => obj[d] = "live"
    BY <1>17, <1>b DEF SaveExFails
  <2> HIDE DEF pend
  <2> QED BY <1>17, <1>a, <2>3, <2>4 DEF SaveExFails, pend
<1>18. ASSUME CancelDownload
      PROVE  ResultInv(d)'
  <2>1. pend' = pend
    <3>1. CASE FindDownloader(CommandNow.dl) # 0
      BY <1>18, <3>1, CountsKept DEF CancelDownload, FirstPending
    <3>2. CASE FindDownloader(CommandNow.dl) = 0
      <4>1. tpc \in CommandSteps /\ CommandDone /\ UNCHANGED queue
        BY <1>18, <3>2 DEF CancelDownload
      <4>2. pend' = pend - Count(CommandNow.cmd = "Add" /\ CommandNow.dl = d)
        BY <1>c, <4>1, CommandDoneCounts
      <4> QED BY <1>18, <1>b, <4>2 DEF CancelDownload, Count
    <3> QED BY <3>1, <3>2
  <2> HIDE DEF pend
  <2> QED BY <1>18, <1>a, <2>1 DEF CancelDownload, Acquire, pend
<1>19. ASSUME CancelRequest
      PROVE  ResultInv(d)'
  <2>1. pend' = pend
    BY <1>19, <1>a, CountsKept DEF CancelRequest, FirstPending
  <2> HIDE DEF pend
  <2> QED BY <1>19, <1>a, <1>b, <2>1 DEF CancelRequest, NetInv, LifeInv, pend
<1>20. ASSUME CancelFinishes
      PROVE  ResultInv(d)'
  <2>1. pend' = pend
    BY <1>20, <1>a, CountsKept DEF CancelFinishes, FirstPending
  <2> HIDE DEF pend
  <2> QED BY <1>20, <1>a, <1>b, <2>1 DEF CancelFinishes, OnDownloadFinished,
     Acquire, NetInv, LifeInv, pend
<1>21. ASSUME CancelReleases
      PROVE  ResultInv(d)'
  <2>1. tpc \in CommandSteps /\ CommandDone /\ UNCHANGED queue
    BY <1>21 DEF CancelReleases
  <2>2. pend' = pend - Count(CommandNow.cmd = "Add" /\ CommandNow.dl = d)
    BY <1>c, <2>1, CommandDoneCounts
  <2>3. pend' = pend
    BY <1>21, <1>a, <1>b, <2>2 DEF CancelReleases, Count
  <2> HIDE DEF pend
  <2> QED BY <1>21, <1>a, <2>3 DEF CancelReleases, Release, pend
<1>22. ASSUME Flush
      PROVE  ResultInv(d)'
  <2>1. pend' = pend
    BY <1>22, <1>c, FlushCounts
  <2> HIDE DEF pend
  <2> QED BY <1>22, <1>a, <2>1 DEF Flush, Release, pend
<1>23. ASSUME Scan
      PROVE  ResultInv(d)'
  <2>1. pend' = pend
    BY <1>23, <1>a, CountsKept DEF Scan, FirstPending
  <2> HIDE DEF pend
  <2> QED BY <1>23, <1>a, <1>b, <2>1 DEF Scan, NetInv, LifeInv, pend
<1>24. ASSUME RemoveFinished
      PROVE  ResultInv(d)'
  <2>1. pend' = pend
    BY <1>24 DEF RemoveFinished, PendingAdds, FirstPending
  <2> HIDE DEF pend
  <2> QED BY <1>24, <1>a, <2>1 DEF RemoveFinished, Release, pend
<1>25. ASSUME RemovalDone
      PROVE  ResultInv(d)'
  <2>1. pend' = pend
    BY <1>25, <1>a, CountsKept DEF RemovalDone, FirstPending
  <2> HIDE DEF pend
  <2> QED BY <1>25, <1>a, <1>b, <2>1 DEF RemovalDone, NetInv, LifeInv, pend
<1>26. ASSUME ProcessDownloads
      PROVE  ResultInv(d)'
  <2>1. pend' = pend
    BY <1>26, <1>a, CountsKept DEF ProcessDownloads, FirstPending
  <2> HIDE DEF pend
  <2> QED BY <1>26, <1>a, <1>b, <2>1 DEF ProcessDownloads, NetInv, LifeInv,
     pend
<1>27. ASSUME Evaluate
      PROVE  ResultInv(d)'
  <2>1. pend' = pend
    BY <1>27, <1>a, CountsKept DEF Evaluate, FirstPending
  <2> HIDE DEF pend
  <2> QED BY <1>27, <1>a, <1>b, <2>1 DEF Evaluate, NetInv, LifeInv, pend
<1>28. ASSUME Exit
      PROVE  ResultInv(d)'
  <2>1. pend' = pend
    BY <1>28, <1>a, CountsKept DEF Exit, FirstPending
  <2> HIDE DEF pend
  <2> QED BY <1>28, <1>a, <1>b, <2>1 DEF Exit, NetInv, LifeInv, pend
<1>29. ASSUME MenuThinks
      PROVE  ResultInv(d)'
  <2>1. pend' = pend
    BY <1>29, <1>a, CountsKept DEF MenuThinks, FirstPending
  <2> HIDE DEF pend
  <2> QED BY <1>29, <1>a, <1>b, <2>1 DEF MenuThinks, NetInv, LifeInv, pend
<1>30. ASSUME NEW e \in Downloaders,
           NEW kind \in {"progress", "DOWNLOAD_SUCCESS", "DOWNLOAD_ERROR"},
           CallbackDue(e, kind)
      PROVE  ResultInv(d)'
  <2>1. pend' = pend
    BY <1>30, <1>a, CountsKept DEF CallbackDue, FirstPending
  <2> HIDE DEF pend
  <2> QED BY <1>30, <1>a, <1>b, <2>1 DEF CallbackDue, NetInv, LifeInv, pend
<1>31. ASSUME ProgressCallback
      PROVE  ResultInv(d)'
  <2>1. pend' = pend
    BY <1>31, <1>a, CountsKept DEF ProgressCallback, FirstPending
  <2> HIDE DEF pend
  <2> QED BY <1>31, <1>a, <1>b, <2>1 DEF ProgressCallback, NetInv, LifeInv,
     pend
<1>32. ASSUME FinishCallback
      PROVE  ResultInv(d)'
  <2>1. pend' = pend
    BY <1>32, <1>a, CountsKept DEF FinishCallback, FirstPending
  <2> HIDE DEF pend
  <2> QED BY <1>32, <1>a, <1>b, <2>1 DEF FinishCallback, OnDownloadFinished,
     Acquire, NetInv, LifeInv, pend
<1>33. ASSUME ThinkReturns
      PROVE  ResultInv(d)'
  <2>1. pend' = pend
    BY <1>33, <1>a, CountsKept DEF ThinkReturns, FirstPending
  <2> HIDE DEF pend
  <2> QED BY <1>33, <1>a, <1>b, <2>1 DEF ThinkReturns, NetInv, LifeInv, pend
<1>34. ASSUME NEW e \in Downloaders, NEW ok \in BOOLEAN, Unpack(e, ok)
      PROVE  ResultInv(d)'
  <2>1. pend' = pend
    BY <1>34, <1>a, CountsKept DEF Unpack, FirstPending
  <2> HIDE DEF pend
  <2> QED BY <1>34, <1>a, <1>b, <2>1 DEF Unpack, NetInv, LifeInv, pend
<1>35. ASSUME NEW e \in Downloaders, UnpackerReleases(e)
      PROVE  ResultInv(d)'
  <2>1. pend' = pend
    BY <1>35, <1>a, CountsKept DEF UnpackerReleases, FirstPending
  <2> HIDE DEF pend
  <2> QED BY <1>35, <1>a, <1>b, <2>1 DEF UnpackerReleases, Release, NetInv,
     LifeInv, pend
<1>36. CASE UNCHANGED vars
  BY <1>36, <1>a, CountsKept DEF vars, FirstPending
<1> HIDE DEF object, thread, library, history
<1> QED
  BY <1>1, <1>2, <1>3, <1>4, <1>5, <1>6, <1>7, <1>8, <1>9, <1>10, <1>11, <1>12,
     <1>13, <1>14, <1>15, <1>16, <1>17, <1>18, <1>19, <1>20, <1>21, <1>22,
     <1>23, <1>24, <1>25, <1>26, <1>27, <1>28, <1>29, <1>30, <1>31, <1>32,
     <1>33, <1>34, <1>35, <1>36
     DEF Next, WorkerNext, WorkerCall, DLThreadNext, ThinkNext, UnpackerNext

\* At the start nothing was accepted or refused.
LEMMA FullInit ==
    ASSUME Init
    PROVE  FullInv
  BY IInvInit DEF FullInv, Init, ResultInv, WorkerCallOn

\* Every step keeps the full invariant.
LEMMA FullNext ==
    ASSUME FullInv, [Next]_vars
    PROVE  FullInv'
<1>1. IInv'
  BY IInvNext DEF FullInv
<1>2. \A d \in Downloaders : ResultInv(d)'
  BY ResultNext DEF FullInv
<1>3. wpc' = "done" => tpc' = "done"
  <2> USE DEF object, thread, library, history
  <2>1. (threadActive <=> tpc # "done") /\ (wpc = "done" => tpc = "done")
    BY DEF FullInv, IInv, LockInv
  <2>2. tpc = "done" => tpc' = "done"
    <3>1. CASE UNCHANGED vars
      BY <3>1 DEF vars
    <3>2. CASE WorkerNext
      BY <3>2 DEF WorkerNext, WorkerCall, CreateDownloader, StartAsyncDownload,
         StartAccepted, StartRefused, RequestStop, StopEntersQueue, StopQueued,
         StopReturns, DeleteDownloader, DownloaderDeleted, DeleteThread,
         ThreadDeleted
    <3>3. CASE DLThreadNext
      BY <3>3 DEF DLThreadNext, ProcessCommands, StartDownload, SaveExStarts,
         DownloadRegistered, SaveExFails, CancelDownload, CancelRequest,
         CancelFinishes, CancelReleases, Flush, Scan, RemoveFinished,
         RemovalDone, ProcessDownloads, Evaluate, Exit
    <3>4. CASE MenuThinks \/ ThinkNext
      <4>1. gsLock = "dl" => tpc = "thinking"
        BY DEF FullInv, IInv, LockInv
      <4> QED BY <3>4, <4>1 DEF MenuThinks, ThinkNext, CallbackDue,
            ProgressCallback, FinishCallback, ThinkReturns
    <3>5. CASE \E d \in Downloaders : UnpackerNext(d)
      BY <3>5 DEF UnpackerNext, Unpack, UnpackerReleases
    <3> QED BY <3>1, <3>2, <3>3, <3>4, <3>5 DEF Next
  <2>3. wpc' = "done" => wpc = "done" \/ ~threadActive
    <3>1. CASE UNCHANGED vars
      BY <3>1 DEF vars
    <3>2. CASE WorkerNext
      BY <3>2 DEF WorkerNext, WorkerCall, CreateDownloader, StartAsyncDownload,
         StartAccepted, StartRefused, RequestStop, StopEntersQueue, StopQueued,
         StopReturns, DeleteDownloader, DownloaderDeleted, DeleteThread,
         ThreadDeleted, ThreadTerminated
    <3>3. CASE DLThreadNext
      BY <3>3 DEF DLThreadNext, ProcessCommands, StartDownload, SaveExStarts,
         DownloadRegistered, SaveExFails, CancelDownload, CancelRequest,
         CancelFinishes, CancelReleases, Flush, Scan, RemoveFinished,
         RemovalDone, ProcessDownloads, Evaluate, Exit
    <3>4. CASE MenuThinks \/ ThinkNext
      BY <3>4 DEF MenuThinks, ThinkNext, CallbackDue,
            ProgressCallback, FinishCallback, ThinkReturns
    <3>5. CASE \E d \in Downloaders : UnpackerNext(d)
      BY <3>5 DEF UnpackerNext, Unpack, UnpackerReleases
    <3> QED BY <3>1, <3>2, <3>3, <3>4, <3>5 DEF Next
  <2> QED BY <2>1, <2>2, <2>3
<1> QED BY <1>1, <1>2, <1>3 DEF FullInv

\* The full invariant holds in every reachable state.
THEOREM FullInductive == Spec => []FullInv
<1>1. Init => FullInv
  BY FullInit
<1>2. FullInv /\ [Next]_vars => FullInv'
  BY FullNext
<1> QED BY <1>1, <1>2, PTL DEF Spec

\* The file of a started object at rest that reports success.
LEMMA QuietSuccess ==
    ASSUME FullInv, NEW d \in Downloaders, ~IsBusy(d), accepted[d],
           status[d] = "DOWNLOAD_SUCCESS"
    PROVE  file[d] = "ready"
  BY RestIsQuiet DEF FullInv, ResultInv

\* A caller that finds the object idle and successful after an accepted start
\* has the whole file, unpacked: no interleaving of the DL thread, the
\* callbacks, cancellations and unpackers lets IsBusy turn false earlier.
THEOREM SuccessIsComplete == Spec => []SuccessMeansComplete
<1>1. FullInv => SuccessMeansComplete
  BY QuietSuccess DEF SuccessMeansComplete
<1> QED BY <1>1, FullInductive, PTL

\* When delete thread has returned, the thread has left its body, nothing is
\* queued or listed, and the HTTP library holds no pointer into the downloader.
THEOREM ThreadEndsClean == Spec => []ThreadDeletedClean
<1>1. ASSUME FullInv PROVE ThreadDeletedClean
  <2> SUFFICES ASSUME wpc = "done"
               PROVE  /\ tpc = "done" /\ queue = << >> /\ active = << >>
                      /\ gsLock # "dl" /\ \A d \in Downloaders : ~conn[d]
    BY DEF ThreadDeletedClean
  <2>1. IInv /\ TypeOK /\ LockInv /\ tpc = "done"
    BY <1>1 DEF FullInv, IInv
  <2>2. ASSUME NEW d \in Downloaders
        PROVE  Queued(d) = 0 /\ Listed(d) = 0 /\ ~conn[d]
    <3>1. Holders(d) = 0
      BY <2>1 DEF IInv, ObjectInv, LifeInv
    <3>2. Queued(d) = 0 /\ Listed(d) = 0
      BY <2>1, <3>1, HolderKinds
    <3>3. conn[d] => request[d] \/ CommandOn(d, {"registering"})
      BY <2>1 DEF IInv, ObjectInv, NetInv
    <3>4. request[d] => Listed(d) > 0
      BY <2>1 DEF IInv, ObjectInv, NetInv
    <3>5. ~CommandOn(d, {"registering"})
      BY <2>1 DEF CommandOn
    <3> QED BY <3>2, <3>3, <3>4, <3>5
  <2>3. queue = << >>
    <3> SUFFICES ASSUME queue # << >> PROVE FALSE
      OBVIOUS
    <3>1. queue \in Seq(Commands)
      BY <2>1 DEF TypeOK, ThreadTypes
    <3>2. 1 \in 1..Len(queue) /\ queue[1] \in Commands
      BY <3>1, EmptySeq, LenProperties, ElementOfSeq
    <3> DEFINE d == queue[1].dl
               E == [cmd : {"Add", "Stop"}, dl : {d}]
    <3>3. d \in Downloaders /\ queue[1] \in E
      BY <3>2 DEF Commands
    <3>4. OccurFrom(queue, 1, E) > 0
      <4> HIDE DEF d, E
      <4> QED BY <3>1, <3>2, <3>3, OccurPositive
    <3>5. Queued(d) = OccurFrom(queue, 1, E)
      BY DEF Queued, Occur
    <3>6. Queued(d) = 0
      BY <2>2, <3>3
    <3> HIDE DEF d, E
    <3> QED BY <3>4, <3>5, <3>6
  <2>4. active = << >>
    <3> SUFFICES ASSUME active # << >> PROVE FALSE
      OBVIOUS
    <3>1. active \in Seq(Downloaders)
      BY <2>1 DEF TypeOK, ThreadTypes
    <3>2. 1 \in 1..Len(active) /\ active[1] \in Downloaders
      BY <3>1, EmptySeq, LenProperties, ElementOfSeq
    <3> QED BY <2>1, <2>2, <3>2, ListedPositive
  <2>5. gsLock # "dl"
    BY <2>1 DEF LockInv
  <2> QED BY <2>1, <2>2, <2>3, <2>4, <2>5
<1> QED BY <1>1, FullInductive, PTL

\* The object StartAsyncDownload holds is in no other hands.
LEMMA AddingIsAlone ==
    ASSUME FullInv, NEW d \in Downloaders, lock[d] = "worker"
    PROVE  Queued(d) = 0 /\ Listed(d) = 0 /\ ~conn[d]
<1>1. IInv /\ WorkerCallOn(d, {"adding"}) /\ acquires[d] = 1
  BY DEF FullInv, IInv, LockInv, ResultInv
<1>2. Queued(d) = 0 /\ Listed(d) = 0 /\ PendingAdds(d) = 0
  BY <1>1, HolderKinds
<1>3. ~CommandOn(d, {"registering"})
  <2>1. CommandOn(d, {"registering"}) => CommandOn(d, HoldsLock)
    BY DEF CommandOn, HoldsLock
  <2> QED BY <1>1, <1>2, <2>1, LockedIsPending
<1>4. ~conn[d]
  <2>1. NetInv(d) /\ Listed(d) \in Nat
    BY <1>1, HolderKinds DEF IInv, ObjectInv
  <2> QED BY <1>2, <1>3, <2>1 DEF NetInv
<1> QED BY <1>2, <1>4

\* A command in the queue is counted.
LEMMA QueuedPositive ==
    ASSUME TypeOK, NEW i \in 1..Len(queue)
    PROVE  queue[i].dl \in Downloaders /\ Queued(queue[i].dl) > 0
<1> DEFINE d == queue[i].dl
           E == [cmd : {"Add", "Stop"}, dl : {d}]
<1>1. queue \in Seq(Commands) /\ queue[i] \in Commands
  BY ElementOfSeq DEF TypeOK, ThreadTypes
<1>2. d \in Downloaders /\ queue[i] \in E
  BY <1>1 DEF Commands
<1>3. Queued(d) = OccurFrom(queue, 1, E)
  BY DEF Queued, Occur
<1>4. OccurFrom(queue, 1, E) > 0
  <2> HIDE DEF d, E
  <2> QED BY <1>1, <1>2, OccurPositive
<1> HIDE DEF E
<1> QED BY <1>2, <1>3, <1>4

\* No interleaving of the worker, the DL thread and the game's Think ends in a
\* cycle of waits among m_Lock, m_RecursiveLock and the lock of the HTTP
\* library, whatever the objects and calls.
THEOREM LocksNeverCycle == Spec => []NoDeadlock
<1>1. ASSUME FullInv PROVE NoDeadlock
  <2>0. /\ IInv /\ TypeOK /\ ObjectTypes /\ ThreadTypes /\ LibraryTypes
        /\ IndexOK /\ LockInv
        /\ \A d \in Downloaders : NetInv(d)
    BY <1>1 DEF FullInv, IInv, TypeOK, ObjectInv
  <2>1. \A d \in Downloaders :
           /\ lock[d] \in {"worker", "dl", Nobody}
           /\ lock[d] = "worker" => wpc = "adding" /\ wdl = d
           /\ lock[d] = "dl" <=> CommandOn(d, HoldsLock)
    BY <2>0 DEF ObjectTypes, LockInv, Owners, Threads, WorkerCallOn
  <2>2. /\ recLock \in {"worker", "dl", Nobody}
        /\ recLock = "worker" <=> wpc = "queueing"
        /\ recLock = "dl" <=> tpc \in HoldsRecLock
        /\ gsLock \in {"dl", "menu", Nobody}
        /\ gsLock = "dl" <=> tpc = "thinking"
    BY <2>0 DEF ThreadTypes, LibraryTypes, LockInv, Owners, Threads
  <2>3. callback # << >> => callback[1] \in Downloaders /\ conn[callback[1]]
    BY <2>0 DEF LibraryTypes, NetInv
  <2>4. WaitsFor("worker") \in {"dl", Nobody}
    <3>1. wpc \in InCall => wdl \in Downloaders
      BY <2>0 DEF LockInv
    <3> QED BY <2>1, <2>2, <3>1 DEF WaitsFor, Holder, InCall
  <2>5. /\ WaitsFor("menu") \in {"dl", Nobody}
        /\ WaitsFor("menu") = "dl" => tpc = "registering"
    <3>1. CASE gsLock = "menu" /\ callback # << >>
      <4> DEFINE d == callback[1]
      <4>1. d \in Downloaders /\ conn[d]
        BY <2>3, <3>1
      <4>2. WaitsFor("menu") = Holder("menu", lock[d])
        BY <3>1 DEF WaitsFor
      <4> HIDE DEF d
      <4>3. lock[d] # "worker"
        BY <1>1, <4>1, AddingIsAlone
      <4>4. lock[d] = "dl" => tpc = "registering"
        <5> SUFFICES ASSUME lock[d] = "dl", tpc # "registering" PROVE FALSE
          OBVIOUS
        <5>1. CommandOn(d, HoldsLock) /\ ~CommandOn(d, {"registering"})
          BY <2>1, <4>1 DEF CommandOn
        <5>2. Listed(d) = 0
          BY <2>0, <4>1, <5>1, LockedIsPending
        <5>3. Listed(d) > 0
          BY <2>0, <4>1, <5>1 DEF NetInv
        <5> QED BY <5>2, <5>3
      <4> QED BY <2>1, <4>1, <4>2, <4>3, <4>4 DEF Holder
    <3>2. CASE ~(gsLock = "menu" /\ callback # << >>)
      BY <3>2 DEF WaitsFor, Nobody
    <3> QED BY <3>1, <3>2
  <2>6. /\ WaitsFor("dl") \in {"worker", "menu", Nobody}
        /\ WaitsFor("dl") = "worker" => tpc \in {"commands", "scan"}
        /\ WaitsFor("dl") = "menu" => tpc # "registering"
    <3>1. ASSUME NEW d \in Downloaders,
                 Queued(d) > 0 \/ Listed(d) > 0 \/ conn[d]
          PROVE  Holder("dl", lock[d]) = Nobody
      <4>1. lock[d] # "worker"
        BY <1>1, <3>1, AddingIsAlone
      <4> QED BY <2>1, <4>1 DEF Holder
    <3>2. CASE tpc \in {"command", "cancelfinish", "cancelled"}
      <4>1. idx \in 1..Len(queue)
        BY <2>0, <3>2 DEF IndexOK, CommandSteps
      <4>2. Holder("dl", lock[CommandNow.dl]) = Nobody
        BY <2>0, <3>1, <4>1, QueuedPositive DEF CommandNow
      <4> QED BY <3>2, <4>2 DEF WaitsFor, Nobody
    <3>3. CASE tpc = "flush"
      <4>1. queue \in Seq(Commands) /\ queue # << >>
        BY <2>0, <3>3 DEF IndexOK, ThreadTypes
      <4>2. 1 \in 1..Len(queue) /\ Head(queue) = queue[1]
        BY <4>1, EmptySeq, LenProperties
      <4>3. Holder("dl", lock[Head(queue).dl]) = Nobody
        BY <2>0, <3>1, <4>2, QueuedPositive
      <4> QED BY <3>3, <4>3 DEF WaitsFor, Nobody
    <3>4. CASE tpc = "removing" /\ idx > 0
      <4>1. /\ idx \in 1..Len(active) /\ active \in Seq(Downloaders)
        BY <2>0, <3>4, LenProperties DEF IndexOK, ThreadTypes
      <4>2. active[idx] \in Downloaders /\ Listed(active[idx]) > 0
        BY <2>0, <4>1, ElementOfSeq, ListedPositive
      <4>3. Holder("dl", lock[active[idx]]) = Nobody
        BY <3>1, <4>2
      <4> QED BY <3>4, <4>3 DEF WaitsFor, Nobody
    <3>5. CASE tpc = "thinking" /\ callback # << >>
      <4>1. Holder("dl", lock[callback[1]]) = Nobody
        BY <2>3, <3>1, <3>5
      <4> QED BY <3>5, <4>1 DEF WaitsFor, Nobody
    <3>6. CASE tpc \in {"commands", "scan"}
      BY <2>2, <3>6 DEF WaitsFor, Holder
    <3>7. CASE tpc \in {"requesting", "cancelling", "process"}
      BY <2>2, <3>7 DEF WaitsFor, Nobody
    <3> QED BY <3>2, <3>3, <3>4, <3>5, <3>6, <3>7 DEF WaitsFor, Nobody
  <2>7. WaitsFor("dl") = "worker" => WaitsFor("worker") = Nobody
    <3> SUFFICES ASSUME WaitsFor("dl") = "worker"
                 PROVE  WaitsFor("worker") = Nobody
      OBVIOUS
    <3>1. tpc \in {"commands", "scan"}
      BY <2>6
    <3>2. WaitsFor("dl") = Holder("dl", recLock)
      BY <3>1 DEF WaitsFor
    <3>3. recLock = "worker" /\ wpc = "queueing" /\ wdl \in Downloaders
      BY <2>0, <2>2, <3>2 DEF Holder, Nobody, LockInv, InCall
    <3>4. WaitsFor("worker") = Holder("worker", lock[wdl])
      BY <3>3 DEF WaitsFor
    <3>5. lock[wdl] # "dl"
      BY <2>1, <3>1, <3>3 DEF CommandOn, HoldsLock
    <3> QED BY <2>1, <3>3, <3>4, <3>5 DEF Holder
  <2>8. ASSUME NEW S \in (SUBSET Threads) \ {{}},
               \A t \in S : WaitsFor(t) \in S
        PROVE  FALSE
    <3>1. Nobody \notin S /\ S # {} /\ S \subseteq Threads
      BY DEF Threads, Nobody
    <3>2. "dl" \in S
      BY <2>4, <2>5, <2>8, <3>1 DEF Threads
    <3> QED BY <2>4, <2>5, <2>6, <2>7, <2>8, <3>1, <3>2
  <2> QED BY <2>8 DEF NoDeadlock
<1> QED BY <1>1, FullInductive, PTL

\* An object with a holder is live and busy.
LEMMA HeldIsBusy ==
    ASSUME IInv, NEW d \in Downloaders,
           \/ PendingAdds(d) > 0 \/ Queued(d) > 0 \/ Listed(d) > 0
           \/ WorkerCallOn(d, {"adding", "stopping", "queueing", "releasing"})
           \/ CommandOn(d, CancelSteps) \/ unpacker[d] # "none"
    PROVE  acquires[d] > 0 /\ acquires[d] \in Nat /\ obj[d] = "live"
<1>1. acquires[d] \in Nat /\ Holders(d) # 0
  BY HolderKinds DEF WorkerCallOn
<1>2. acquires[d] # 0
  BY <1>1, HolderKinds
<1>3. obj[d] = "live"
  BY <1>1 DEF IInv, ObjectInv, LifeInv
<1> QED BY <1>1, <1>2, <1>3

\* A started object at rest that reports success has its file ...
QuietIsComplete ==
    \A d \in Downloaders :
        ~IsBusy(d) /\ accepted[d] /\ status[d] = "DOWNLOAD_SUCCESS"
          => file[d] = "ready"

\* ... in the state after a step, too.
LEMMA QuietSuccessNext == FullInv' => QuietIsComplete'
<1>1. FullInv => QuietIsComplete
  BY QuietSuccess DEF QuietIsComplete
<1> QED BY <1>1, PTL

\* A step that changes nothing the caller sees is a stuttering step of the
\* service.
LEMMA ServiceStutters ==
    ASSUME \A e \in Downloaders : ServicePhase(e)' = ServicePhase(e),
           UNCHANGED <<accepted, status, file>>
    PROVE  UNCHANGED Service!vars
<1>1. UNCHANGED [d \in Downloaders |-> ServicePhase(d)]
  OBVIOUS
<1>2. UNCHANGED [d \in Downloaders |-> file[d] = "ready"]
  OBVIOUS
<1> QED BY <1>1, <1>2 DEF Service!vars

\* A step that changes only the phase of one object.
LEMMA ServiceMoves ==
    ASSUME NEW d \in Downloaders, NEW from, NEW to,
           ServicePhase(d) = from, ServicePhase(d)' = to,
           \A e \in Downloaders \ {d} : ServicePhase(e)' = ServicePhase(e),
           UNCHANGED <<accepted, status, file>>
    PROVE  Service!Move(d, from, to)
<1>1. UNCHANGED [e \in Downloaders |-> file[e] = "ready"]
  OBVIOUS
<1>2. [e \in Downloaders |-> ServicePhase(e)]'
         = [[e \in Downloaders |-> ServicePhase(e)] EXCEPT ![d] = to]
  OBVIOUS
<1> QED BY <1>1, <1>2 DEF Service!Move

\* A step that works on one busy object.
LEMMA ServiceWorks ==
    ASSUME NEW d \in Downloaders, ServicePhase(d) = "busy",
           \A e \in Downloaders : ServicePhase(e)' = ServicePhase(e),
           UNCHANGED accepted, ObjectTypes, HistoryTypes,
           NEW r \in {"DOWNLOAD_SUCCESS", "DOWNLOAD_ERROR"}, NEW f,
           status' = [status EXCEPT ![d] = r],
           file' = [file EXCEPT ![d] = f]
    PROVE  Service!Work(d)
<1>1. UNCHANGED [e \in Downloaders |-> ServicePhase(e)]
  OBVIOUS
<1>2. [e \in Downloaders |-> file[e] = "ready"]'
         = [[e \in Downloaders |-> file[e] = "ready"]
               EXCEPT ![d] = (f = "ready")]
  BY DEF HistoryTypes
<1>3. (f = "ready") \in BOOLEAN
  OBVIOUS
<1>4. [e \in Downloaders |-> ServicePhase(e)][d] = "busy"
  OBVIOUS
<1> QED BY <1>1, <1>2, <1>3, <1>4 DEF Service!Work

\* A step that gives one acquisition back, or gives the object back to its
\* caller: it stays busy, or comes to rest with a result that is true.
LEMMA ServiceReleases ==
    ASSUME FullInv, FullInv', NEW d \in Downloaders, obj[d] = "live",
           acquires[d] > 0, Release(d),
           UNCHANGED <<obj, request, status, accepted, file>>
    PROVE  UNCHANGED Service!vars \/ Service!Settle(d)
<1>1. /\ acquires' = [acquires EXCEPT ![d] = @ - 1]
      /\ acquires \in [Downloaders -> Int]
  BY DEF Release, FullInv, IInv, TypeOK, ObjectTypes
<1>2. \A e \in Downloaders \ {d} : ServicePhase(e)' = ServicePhase(e)
  BY <1>1 DEF ServicePhase, IsBusy, IsDownloading
<1>3. ServicePhase(d) = "busy"
  BY DEF ServicePhase, IsBusy
<1>4. ServicePhase(d)' = IF IsBusy(d)' THEN "busy" ELSE "idle"
  BY DEF ServicePhase
<1>5. CASE IsBusy(d)'
  BY <1>2, <1>3, <1>4, <1>5, ServiceStutters
<1>6. CASE ~IsBusy(d)'
  <2>1. Service!Move(d, "busy", "idle")
    BY <1>2, <1>3, <1>4, <1>6, ServiceMoves
  <2>2. accepted[d] /\ status[d] = "DOWNLOAD_SUCCESS" => file[d] = "ready"
    BY <1>6, QuietSuccessNext DEF QuietIsComplete
  <2> QED BY <2>1, <2>2 DEF Service!Settle
<1> QED BY <1>5, <1>6

\* Every step of the threads, callbacks and unpackers is a step of the service
\* or leaves what the caller sees as it was.
LEMMA ServiceStep ==
    ASSUME FullInv, [Next]_vars
    PROVE  [Service!Next]_(Service!vars)
<1>a. /\ FullInv' /\ IInv /\ TypeOK /\ ObjectTypes /\ ThreadTypes
      /\ LibraryTypes /\ HistoryTypes /\ IndexOK /\ LockInv
  BY FullNext DEF FullInv, IInv, TypeOK
<1>b. \A d \in Downloaders :
         NetInv(d) /\ LifeInv(d) /\ ResultInv(d) /\ acquires[d] \in Nat
  BY <1>a, HolderKinds DEF FullInv, IInv, ObjectInv
<1>s. ASSUME UNCHANGED <<obj, acquires, request, accepted, status, file>>
      PROVE  UNCHANGED Service!vars
  BY <1>s, ServiceStutters DEF ServicePhase, IsBusy, IsDownloading
<1> USE DEF object, thread, library, history
<1>1. ASSUME NEW e \in Downloaders, CreateDownloader(e)
      PROVE  [Service!Next]_(Service!vars)
  <2>1. acquires[e] = 0 /\ ~request[e]
    <3>1. obj[e] # "live"
      BY <1>1 DEF CreateDownloader
    <3>2. Holders(e) = 0 /\ ~refused[e]
      BY <1>b, <3>1 DEF LifeInv, ResultInv
    <3>3. acquires[e] = 0
      BY <1>a, <3>2 DEF IInv, ObjectInv, AccountInv, Count
    <3>4. ~request[e]
      BY <1>a, <1>b, <3>2, HolderKinds DEF NetInv
    <3> QED BY <3>3, <3>4
  <2>2. Service!Move(e, "none", "idle")
    <3>1. ServicePhase(e) = "none" /\ ServicePhase(e)' = "idle"
      BY <1>1, <1>a, <2>1 DEF CreateDownloader, ServicePhase, IsBusy,
         IsDownloading, ObjectTypes
    <3>2. \A d \in Downloaders \ {e} : ServicePhase(d)' = ServicePhase(d)
      BY <1>1, <1>a DEF CreateDownloader, ServicePhase, IsBusy,
         IsDownloading, ObjectTypes
    <3> QED BY <1>1, <3>1, <3>2, ServiceMoves DEF CreateDownloader
  <2> QED BY <2>2 DEF Service!Next, Service!Create
<1>2. ASSUME NEW e \in Downloaders, StartAsyncDownload(e)
      PROVE  [Service!Next]_(Service!vars)
  <2>1. ServicePhase(e) = "idle" /\ ServicePhase(e)' = "busy"
    BY <1>2, <1>a, <1>b DEF StartAsyncDownload, Acquire, ServicePhase, IsBusy,
       IsDownloading, ObjectTypes
  <2>2. \A d \in Downloaders \ {e} : ServicePhase(d)' = ServicePhase(d)
    BY <1>2, <1>a DEF StartAsyncDownload, Acquire, ServicePhase, IsBusy,
       IsDownloading, ObjectTypes
  <2>3. Service!Move(e, "idle", "busy")
    BY <1>2, <2>1, <2>2, ServiceMoves DEF StartAsyncDownload
  <2> QED BY <2>3 DEF Service!Next, Service!Call
<1>3. ASSUME StartAccepted
      PROVE  [Service!Next]_(Service!vars)
  <2>1. /\ wdl \in Downloaders
        /\ acquires[wdl] > 0 /\ obj[wdl] = "live"
    BY <1>3, <1>a, HeldIsBusy DEF StartAccepted, LockInv, InCall, WorkerCallOn
  <2>2. ServicePhase(wdl) = "busy"
    BY <2>1 DEF ServicePhase, IsBusy
  <2>3. \A d \in Downloaders : ServicePhase(d)' = ServicePhase(d)
    BY <1>3, <1>a, <1>b, <2>1 DEF StartAccepted, Acquire, ServicePhase, IsBusy,
       IsDownloading, ObjectTypes
  <2>4. Service!Accept(wdl)
    <3>1. UNCHANGED [d \in Downloaders |-> ServicePhase(d)]
      BY <2>3
    <3>2. UNCHANGED [d \in Downloaders |-> file[d] = "ready"]
      BY <1>3 DEF StartAccepted
    <3> QED BY <1>3, <2>1, <2>2, <3>1, <3>2 DEF StartAccepted, Service!Accept
  <2> QED BY <2>1, <2>4 DEF Service!Next
<1>4. ASSUME StartRefused
      PROVE  [Service!Next]_(Service!vars)
  <2>1. /\ wdl \in Downloaders
        /\ acquires[wdl] > 0 /\ obj[wdl] = "live"
    BY <1>4, <1>a, HeldIsBusy DEF StartRefused, LockInv, InCall, WorkerCallOn
  <2>2. accepted' = accepted
    BY <1>4, <1>a, <1>b, <2>1 DEF StartRefused, ResultInv, HistoryTypes
  <2>3. UNCHANGED Service!vars \/ Service!Settle(wdl)
    BY <1>4, <1>a, <2>1, <2>2, ServiceReleases DEF StartRefused
  <2> QED BY <2>1, <2>3 DEF Service!Next
<1>5. ASSUME NEW e \in Downloaders, RequestStop(e)
      PROVE  [Service!Next]_(Service!vars)
  <2>1. \A d \in Downloaders \ {e} : ServicePhase(d)' = ServicePhase(d)
    BY <1>5, <1>a DEF RequestStop, Acquire, ServicePhase, IsBusy,
       IsDownloading, ObjectTypes
  <2>2. ServicePhase(e) \in {"idle", "busy"} /\ ServicePhase(e)' = "busy"
    BY <1>5, <1>a, <1>b DEF RequestStop, Acquire, ServicePhase, IsBusy,
       IsDownloading, ObjectTypes
  <2>3. CASE ServicePhase(e) = "busy"
    BY <1>5, <2>1, <2>2, <2>3, ServiceStutters DEF RequestStop
  <2>4. CASE ServicePhase(e) = "idle"
    <3>1. Service!Move(e, "idle", "busy")
      BY <1>5, <2>1, <2>2, <2>4, ServiceMoves DEF RequestStop
    <3> QED BY <3>1 DEF Service!Next, Service!Call
  <2> QED BY <2>2, <2>3, <2>4
<1>6. ASSUME StopEntersQueue
      PROVE  [Service!Next]_(Service!vars)
  BY <1>6, <1>s DEF StopEntersQueue
<1>7. ASSUME StopQueued
      PROVE  [Service!Next]_(Service!vars)
  <2>1. /\ wdl \in Downloaders
        /\ acquires[wdl] > 0 /\ obj[wdl] = "live"
    BY <1>7, <1>a, HeldIsBusy DEF StopQueued, LockInv, InCall, WorkerCallOn
  <2>2. \A d \in Downloaders : ServicePhase(d)' = ServicePhase(d)
    BY <1>7, <1>a, <1>b, <2>1 DEF StopQueued, Acquire, ServicePhase, IsBusy,
       IsDownloading, ObjectTypes
  <2> QED BY <1>7, <2>2, ServiceStutters DEF StopQueued
<1>8. ASSUME StopReturns
      PROVE  [Service!Next]_(Service!vars)
  <2>1. /\ wdl \in Downloaders
        /\ acquires[wdl] > 0 /\ obj[wdl] = "live"
    BY <1>8, <1>a, HeldIsBusy DEF StopReturns, LockInv, InCall, WorkerCallOn
  <2>2. UNCHANGED Service!vars \/ Service!Settle(wdl)
    BY <1>8, <1>a, <2>1, ServiceReleases DEF StopReturns
  <2> QED BY <2>1, <2>2 DEF Service!Next
<1>9. ASSUME NEW e \in Downloaders, DeleteDownloader(e)
      PROVE  [Service!Next]_(Service!vars)
  BY <1>9, <1>s DEF DeleteDownloader
<1>10. ASSUME DownloaderDeleted
      PROVE  [Service!Next]_(Service!vars)
  <2>1. PICK d \in Downloaders : d = wdl /\ obj[d] = "live"
    BY <1>10, <1>a, <1>b
       DEF DownloaderDeleted, LockInv, InCall, WorkerCallOn, LifeInv
  <2>2. ServicePhase(d) = "idle" /\ ServicePhase(d)' = "gone"
    BY <1>10, <1>a, <2>1 DEF DownloaderDeleted, ServicePhase, ObjectTypes
  <2>3. \A e \in Downloaders \ {d} : ServicePhase(e)' = ServicePhase(e)
    BY <1>10, <1>a, <2>1 DEF DownloaderDeleted, ServicePhase, IsBusy,
       IsDownloading,
       ObjectTypes
  <2>4. Service!Move(d, "idle", "gone")
    BY <1>10, <2>1, <2>2, <2>3, ServiceMoves DEF DownloaderDeleted
  <2> QED BY <2>1, <2>4 DEF Service!Next, Service!Delete
<1>11. ASSUME DeleteThread
      PROVE  [Service!Next]_(Service!vars)
  BY <1>11, <1>s DEF DeleteThread
<1>12. ASSUME ThreadDeleted
      PROVE  [Service!Next]_(Service!vars)
  <2>1. \A d \in Downloaders : obj[d] \in {"unborn", "freed"}
    BY <1>12, <1>a, <1>b DEF ThreadDeleted, LifeInv, ObjectTypes
  <2>2. \A d \in Downloaders : ServicePhase(d)' = ServicePhase(d)
    BY <1>12, <2>1 DEF ThreadDeleted, ServicePhase
  <2> QED BY <1>12, <2>2, ServiceStutters DEF ThreadDeleted
<1>13. ASSUME ProcessCommands
      PROVE  [Service!Next]_(Service!vars)
  BY <1>13, <1>s DEF ProcessCommands
<1>14. ASSUME StartDownload
      PROVE  [Service!Next]_(Service!vars)
  BY <1>14, <1>s DEF StartDownload, CommandDone
<1>15. ASSUME SaveExStarts
      PROVE  [Service!Next]_(Service!vars)
  <2>0. CommandNow.dl \in Downloaders /\ acquires[CommandNow.dl] > 0
        /\ obj[CommandNow.dl] = "live"
    <3>1. tpc \in HoldsLock /\ tpc \in CommandSteps
      BY <1>15 DEF SaveExStarts, HoldsLock, CommandSteps
    <3>2. CommandNow.dl \in Downloaders
      BY <1>a, <3>1, CommandNowType
    <3>3. PendingAdds(CommandNow.dl) > 0
      BY <1>a, <3>1, <3>2, LockedIsPending DEF CommandOn
    <3> QED BY <1>a, <3>2, <3>3, HeldIsBusy
  <2>1. PICK d \in Downloaders :
           d = CommandNow.dl /\ acquires[d] > 0 /\ obj[d] = "live"
    BY <2>0
  <2>2. \A e \in Downloaders : ServicePhase(e)' = ServicePhase(e)
    BY <1>15 DEF SaveExStarts, ServicePhase, IsBusy, IsDownloading
  <2>3. ServicePhase(d) = "busy"
    BY <2>1 DEF ServicePhase, IsBusy
  <2>4. /\ status' = [status EXCEPT ![d] = status[d]]
        /\ status[d] \in {"DOWNLOAD_SUCCESS", "DOWNLOAD_ERROR"}
        /\ file' = [file EXCEPT ![d] = "partial"] /\ UNCHANGED accepted
    BY <1>15, <1>a, <2>1 DEF SaveExStarts, ObjectTypes
  <2>5. Service!Work(d)
    BY <1>a, <2>1, <2>2, <2>3, <2>4, ServiceWorks
  <2> QED BY <2>1, <2>5 DEF Service!Next
<1>16. ASSUME DownloadRegistered
      PROVE  [Service!Next]_(Service!vars)
  <2>1. /\ CommandNow.dl \in Downloaders
        /\ acquires[CommandNow.dl] > 0 /\ obj[CommandNow.dl] = "live"
    <3>1. tpc \in HoldsLock /\ tpc \in CommandSteps
      BY <1>16 DEF DownloadRegistered, HoldsLock, CommandSteps
    <3>2. CommandNow.dl \in Downloaders
      BY <1>a, <3>1, CommandNowType
    <3>3. PendingAdds(CommandNow.dl) > 0
      BY <1>a, <3>1, <3>2, LockedIsPending DEF CommandOn
    <3> QED BY <1>a, <3>2, <3>3, HeldIsBusy
  <2>2. \A d \in Downloaders : ServicePhase(d)' = ServicePhase(d)
    BY <1>16, <1>a, <1>b, <2>1 DEF DownloadRegistered, ServicePhase, IsBusy,
       IsDownloading, ObjectTypes
  <2> QED BY <1>16, <2>2, ServiceStutters DEF DownloadRegistered
<1>17. ASSUME SaveExFails
      PROVE  [Service!Next]_(Service!vars)
  <2>1. /\ CommandNow.dl \in Downloaders
        /\ acquires[CommandNow.dl] > 0 /\ obj[CommandNow.dl] = "live"
    <3>1. tpc \in HoldsLock /\ tpc \in CommandSteps
      BY <1>17 DEF SaveExFails, HoldsLock, CommandSteps
    <3>2. CommandNow.dl \in Downloaders
      BY <1>a, <3>1, CommandNowType
    <3>3. PendingAdds(CommandNow.dl) > 0
      BY <1>a, <3>1, <3>2, LockedIsPending DEF CommandOn
    <3> QED BY <1>a, <3>2, <3>3, HeldIsBusy
  <2>2. \A d \in Downloaders : ServicePhase(d)' = ServicePhase(d)
    BY <1>17, <1>a, <1>b, <2>1 DEF SaveExFails, ServicePhase, IsBusy,
       IsDownloading, ObjectTypes
  <2> QED BY <1>17, <2>2, ServiceStutters DEF SaveExFails
<1>18. ASSUME CancelDownload
      PROVE  [Service!Next]_(Service!vars)
  <2>1. /\ CommandNow.dl \in Downloaders
        /\ acquires[CommandNow.dl] > 0 /\ obj[CommandNow.dl] = "live"
    <3>1. tpc \in CommandSteps
      BY <1>18 DEF CancelDownload, CommandSteps
    <3>2. CommandNow.dl \in Downloaders /\ Queued(CommandNow.dl) > 0
      BY <1>a, <3>1, QueuedPositive DEF IndexOK, CommandNow
    <3> QED BY <1>a, <3>2, HeldIsBusy
  <2>2. \A d \in Downloaders : ServicePhase(d)' = ServicePhase(d)
    BY <1>18, <1>a, <1>b, <2>1 DEF CancelDownload, Acquire, ServicePhase,
       IsBusy,
       IsDownloading, ObjectTypes
  <2> QED BY <1>18, <2>2, ServiceStutters DEF CancelDownload
<1>19. ASSUME CancelRequest
      PROVE  [Service!Next]_(Service!vars)
  BY <1>19, <1>s DEF CancelRequest
<1>20. ASSUME CancelFinishes
      PROVE  [Service!Next]_(Service!vars)
  <2>0. CommandNow.dl \in Downloaders /\ acquires[CommandNow.dl] > 0
        /\ obj[CommandNow.dl] = "live"
    <3>1. tpc \in CommandSteps
      BY <1>20 DEF CancelFinishes, CommandSteps
    <3>2. CommandNow.dl \in Downloaders /\ Queued(CommandNow.dl) > 0
      BY <1>a, <3>1, QueuedPositive DEF IndexOK, CommandNow
    <3> QED BY <1>a, <3>2, HeldIsBusy
  <2>1. PICK d \in Downloaders :
           d = CommandNow.dl /\ acquires[d] > 0 /\ obj[d] = "live"
    BY <2>0
  <2>2. /\ status' = [status EXCEPT ![d] = "DOWNLOAD_ERROR"]
        /\ file' = [file EXCEPT ![d] = file[d]]
        /\ request' = [request EXCEPT ![d] = FALSE]
        /\ UNCHANGED <<obj, acquires, accepted>>
    BY <1>20, <1>a, <2>1 DEF CancelFinishes, OnDownloadFinished, HistoryTypes
  <2>3. \A e \in Downloaders : ServicePhase(e)' = ServicePhase(e)
    BY <1>a, <2>1, <2>2 DEF ServicePhase, IsBusy, IsDownloading, ObjectTypes
  <2>4. ServicePhase(d) = "busy"
    BY <2>1 DEF ServicePhase, IsBusy
  <2>5. Service!Work(d)
    BY <1>a, <2>1, <2>2, <2>3, <2>4, ServiceWorks
  <2> QED BY <2>1, <2>5 DEF Service!Next
<1>21. ASSUME CancelReleases
      PROVE  [Service!Next]_(Service!vars)
  <2>1. /\ CommandNow.dl \in Downloaders
        /\ acquires[CommandNow.dl] > 0 /\ obj[CommandNow.dl] = "live"
    <3>1. tpc \in CommandSteps
      BY <1>21 DEF CancelReleases, CommandSteps
    <3>2. CommandNow.dl \in Downloaders /\ Queued(CommandNow.dl) > 0
      BY <1>a, <3>1, QueuedPositive DEF IndexOK, CommandNow
    <3> QED BY <1>a, <3>2, HeldIsBusy
  <2>2. UNCHANGED Service!vars \/ Service!Settle(CommandNow.dl)
    BY <1>21, <1>a, <2>1, ServiceReleases DEF CancelReleases
  <2> QED BY <2>1, <2>2 DEF Service!Next
<1>22. ASSUME Flush
      PROVE  [Service!Next]_(Service!vars)
  <2>1. /\ Head(queue).dl \in Downloaders
        /\ acquires[Head(queue).dl] > 0 /\ obj[Head(queue).dl] = "live"
    <3>1. queue \in Seq(Commands) /\ queue # << >>
      BY <1>22, <1>a DEF Flush, IndexOK, ThreadTypes
    <3>2. 1 \in 1..Len(queue) /\ Head(queue) = queue[1]
      BY <3>1, EmptySeq, LenProperties
    <3> QED BY <1>a, <3>2, QueuedPositive, HeldIsBusy
  <2>2. UNCHANGED Service!vars \/ Service!Settle(Head(queue).dl)
    BY <1>22, <1>a, <2>1, ServiceReleases DEF Flush
  <2> QED BY <2>1, <2>2 DEF Service!Next
<1>23. ASSUME Scan
      PROVE  [Service!Next]_(Service!vars)
  BY <1>23, <1>s DEF Scan
<1>24. ASSUME RemoveFinished
      PROVE  [Service!Next]_(Service!vars)
  <2>1. CASE IsDownloading(active[idx])
    BY <1>24, <1>s, <2>1 DEF RemoveFinished
  <2>2. CASE ~IsDownloading(active[idx])
    <3> DEFINE d == active[idx]
    <3>1. d \in Downloaders /\ acquires[d] > 0 /\ obj[d] = "live"
      <4>1. idx \in 1..Len(active) /\ active \in Seq(Downloaders)
        BY <1>24, <1>a, LenProperties DEF RemoveFinished, IndexOK, ThreadTypes
      <4>2. d \in Downloaders /\ Listed(d) > 0
        BY <1>a, <4>1, ElementOfSeq, ListedPositive
      <4> QED BY <1>a, <4>2, HeldIsBusy
    <3>2. Release(d) /\ UNCHANGED <<obj, request, status, accepted, file>>
      BY <1>24, <2>2 DEF RemoveFinished
    <3> HIDE DEF d
    <3>3. UNCHANGED Service!vars \/ Service!Settle(d)
      BY <1>a, <3>1, <3>2, ServiceReleases
    <3> QED BY <3>1, <3>3 DEF Service!Next
  <2> QED BY <2>1, <2>2
<1>25. ASSUME RemovalDone
      PROVE  [Service!Next]_(Service!vars)
  BY <1>25, <1>s DEF RemovalDone
<1>26. ASSUME ProcessDownloads
      PROVE  [Service!Next]_(Service!vars)
  BY <1>26, <1>s DEF ProcessDownloads
<1>27. ASSUME Evaluate
      PROVE  [Service!Next]_(Service!vars)
  BY <1>27, <1>s DEF Evaluate
<1>28. ASSUME Exit
      PROVE  [Service!Next]_(Service!vars)
  BY <1>28, <1>s DEF Exit
<1>29. ASSUME MenuThinks
      PROVE  [Service!Next]_(Service!vars)
  BY <1>29, <1>s DEF MenuThinks
<1>30. ASSUME NEW e \in Downloaders,
           NEW kind \in {"progress", "DOWNLOAD_SUCCESS", "DOWNLOAD_ERROR"},
           CallbackDue(e, kind)
      PROVE  [Service!Next]_(Service!vars)
  BY <1>30, <1>s DEF CallbackDue
<1>31. ASSUME ProgressCallback
      PROVE  [Service!Next]_(Service!vars)
  BY <1>31, <1>s DEF ProgressCallback
<1>32. ASSUME FinishCallback
      PROVE  [Service!Next]_(Service!vars)
  <2>1. PICK d \in Downloaders, r \in {"DOWNLOAD_SUCCESS", "DOWNLOAD_ERROR"} :
           d = callback[1] /\ r = callback[2] /\ conn[d]
    BY <1>32, <1>a, <1>b DEF FinishCallback, LibraryTypes, NetInv
  <2>2. acquires[d] > 0 /\ obj[d] = "live" /\ acquires[d] \in Nat
    <3>1. CASE request[d]
      BY <1>a, <1>b, <2>1, <3>1, HeldIsBusy DEF NetInv
    <3>2. CASE ~request[d]
      <4>1. CommandOn(d, HoldsLock)
        BY <1>b, <2>1, <3>2 DEF NetInv, CommandOn, HoldsLock
      <4> QED BY <1>a, <2>1, <4>1, LockedIsPending, HeldIsBusy
    <3> QED BY <3>1, <3>2
  <2>3. PICK f :
        /\ status' = [status EXCEPT ![d] = r]
        /\ file' = [file EXCEPT ![d] = f]
        /\ request' = [request EXCEPT ![d] = FALSE]
        /\ acquires' \in {acquires, [acquires EXCEPT ![d] = @ + 1]}
        /\ UNCHANGED <<obj, accepted>>
    BY <1>32, <2>1 DEF FinishCallback, OnDownloadFinished, Acquire
  <2>4. \A e \in Downloaders : ServicePhase(e)' = ServicePhase(e)
    BY <1>a, <2>1, <2>2, <2>3 DEF ServicePhase, IsBusy, IsDownloading,
       ObjectTypes
  <2>5. ServicePhase(d) = "busy"
    BY <2>2 DEF ServicePhase, IsBusy
  <2>6. Service!Work(d)
    BY <1>a, <2>1, <2>3, <2>4, <2>5, ServiceWorks
  <2> QED BY <2>1, <2>6 DEF Service!Next
<1>33. ASSUME ThinkReturns
      PROVE  [Service!Next]_(Service!vars)
  BY <1>33, <1>s DEF ThinkReturns
<1>34. ASSUME NEW e \in Downloaders, NEW ok \in BOOLEAN, Unpack(e, ok)
      PROVE  [Service!Next]_(Service!vars)
  <2>1. acquires[e] > 0 /\ obj[e] = "live"
    BY <1>34, <1>a, HeldIsBusy DEF Unpack
  <2>2. \A d \in Downloaders : ServicePhase(d)' = ServicePhase(d)
    BY <1>34 DEF Unpack, ServicePhase, IsBusy, IsDownloading
  <2>3. ServicePhase(e) = "busy"
    BY <2>1 DEF ServicePhase, IsBusy
  <2>4. PICK r \in {"DOWNLOAD_SUCCESS", "DOWNLOAD_ERROR"} :
           status' = [status EXCEPT ![e] = r]
    <3>1. status = [status EXCEPT ![e] = status[e]]
      BY <1>a DEF ObjectTypes
    <3>2. status[e] \in {"DOWNLOAD_SUCCESS", "DOWNLOAD_ERROR"}
      BY <1>a DEF ObjectTypes
    <3> QED BY <1>34, <3>1, <3>2 DEF Unpack
  <2>5. PICK f : file' = [file EXCEPT ![e] = f]
    <3>1. file = [file EXCEPT ![e] = file[e]]
      BY <1>a DEF HistoryTypes
    <3> QED BY <1>34, <3>1 DEF Unpack
  <2>6. Service!Work(e)
    BY <1>34, <1>a, <2>2, <2>3, <2>4, <2>5, ServiceWorks DEF Unpack
  <2> QED BY <2>6 DEF Service!Next
<1>35. ASSUME NEW e \in Downloaders, UnpackerReleases(e)
      PROVE  [Service!Next]_(Service!vars)
  <2>1. /\ e \in Downloaders
        /\ acquires[e] > 0 /\ obj[e] = "live"
    BY <1>35, <1>a, HeldIsBusy DEF UnpackerReleases
  <2>2. UNCHANGED Service!vars \/ Service!Settle(e)
    BY <1>35, <1>a, <2>1, ServiceReleases DEF UnpackerReleases
  <2> QED BY <2>1, <2>2 DEF Service!Next
<1>36. CASE UNCHANGED vars
  BY <1>36, <1>s DEF vars
<1> HIDE DEF object, thread, library, history
<1> QED
  BY <1>1, <1>2, <1>3, <1>4, <1>5, <1>6, <1>7, <1>8, <1>9, <1>10, <1>11, <1>12,
     <1>13, <1>14, <1>15, <1>16, <1>17, <1>18, <1>19, <1>20, <1>21, <1>22,
     <1>23, <1>24, <1>25, <1>26, <1>27, <1>28, <1>29, <1>30, <1>31, <1>32,
     <1>33, <1>34, <1>35, <1>36
     DEF Next, WorkerNext, WorkerCall, DLThreadNext, ThinkNext, UnpackerNext

\* The downloader implements the service its callers see: for any number of
\* objects, starts and stops, each step of a thread, a callback or an unpacker
\* is one of Create, Call, Accept, Work, Settle and Delete, or invisible.
THEOREM DownloaderImplementsService == Spec => ImplementsService
<1>1. Init => Service!Init
  <2> SUFFICES ASSUME Init PROVE Service!Init
    OBVIOUS
  <2>1. [d \in Downloaders |-> ServicePhase(d)]
           = [d \in Downloaders |-> "none"]
    BY DEF Init, ServicePhase
  <2>2. [d \in Downloaders |-> file[d] = "ready"]
           = [d \in Downloaders |-> FALSE]
    BY DEF Init
  <2> QED BY <2>1, <2>2 DEF Init, Service!Init
<1>2. FullInv /\ [Next]_vars => [Service!Next]_(Service!vars)
  BY ServiceStep
<1> QED BY <1>1, <1>2, FullInductive, PTL DEF Spec, ImplementsService,
   Service!Spec
===============================================================================
