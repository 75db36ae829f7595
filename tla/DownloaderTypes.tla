-------------------------- MODULE DownloaderTypes --------------------------
(***************************************************************************)
(* Proofs: what appending, flushing and removing do to the counts of      *)
(* module Occurrences; every variable of Downloader keeps its type, no     *)
(* loop of the DL thread leaves its vector, and the owner of each lock is  *)
(* the thread that is at a step between its Lock and its Unlock.           *)
(***************************************************************************)
EXTENDS DownloaderProperties, FiniteSetTheorems, FunctionTheorems,
        SequenceTheorems, TLAPS

-------------------------------------------------------------------------------
(* What the operations on a sequence do to the number of occurrences *)

Positions(s, k, E) == {i \in k..Len(s) : s[i] \in E}

\* The positions counted form a finite set.
LEMMA PositionsFinite ==
    ASSUME NEW T, NEW s \in Seq(T), NEW k \in Nat, NEW E
    PROVE  IsFiniteSet(Positions(s, k, E))
<1>1. IsFiniteSet(k..Len(s))
  BY FS_Interval, LenProperties
<1>2. Positions(s, k, E) \in SUBSET (k..Len(s))
  BY DEF Positions
<1> QED BY <1>1, <1>2, FS_Subset

\* The count is a natural number.
LEMMA OccurType ==
    ASSUME NEW T, NEW s \in Seq(T), NEW k \in Nat, NEW E
    PROVE  OccurFrom(s, k, E) \in Nat
  BY PositionsFinite, FS_CardinalityType DEF OccurFrom, Positions

\* Past the end nothing occurs.
LEMMA OccurPastEnd ==
    ASSUME NEW T, NEW s \in Seq(T), NEW k \in Nat, k > Len(s), NEW E
    PROVE  OccurFrom(s, k, E) = 0
<1>1. {i \in k..Len(s) : s[i] \in E} = {}
  BY LenProperties
<1> QED BY <1>1, FS_EmptySet DEF OccurFrom

\* Moving one position on takes the element at that position away.
LEMMA OccurNext ==
    ASSUME NEW T, NEW s \in Seq(T), NEW k \in 1..Len(s), NEW E
    PROVE  OccurFrom(s, k, E) =
               OccurFrom(s, k + 1, E) + (IF s[k] \in E THEN 1 ELSE 0)
<1>0. Len(s) \in Nat /\ k \in Nat /\ k + 1 \in Nat
  BY LenProperties
<1>1. IsFiniteSet(Positions(s, k, E))
  BY PositionsFinite, <1>0
<1>2. Positions(s, k + 1, E) = Positions(s, k, E) \ {k}
  BY <1>0 DEF Positions
<1>3. k \in Positions(s, k, E) <=> s[k] \in E
  BY <1>0 DEF Positions
<1>4. Cardinality(Positions(s, k, E)) \in Nat
  BY <1>1, FS_CardinalityType
<1>5. Cardinality(Positions(s, k + 1, E)) =
         IF s[k] \in E THEN Cardinality(Positions(s, k, E)) - 1
                       ELSE Cardinality(Positions(s, k, E))
  BY <1>1, <1>2, <1>3, FS_RemoveElement
<1>6. Cardinality(Positions(s, k, E)) =
         Cardinality(Positions(s, k + 1, E)) + (IF s[k] \in E THEN 1 ELSE 0)
  BY <1>4, <1>5
<1> QED BY <1>6 DEF OccurFrom, Positions

\* Appending adds the new element, wherever the counting starts.
LEMMA OccurAppend ==
    ASSUME NEW T, NEW s \in Seq(T), NEW e \in T,
           NEW k \in 1..(Len(s) + 1), NEW E
    PROVE  OccurFrom(Append(s, e), k, E) =
               OccurFrom(s, k, E) + (IF e \in E THEN 1 ELSE 0)
<1> DEFINE n == Len(s) + 1
           a == Append(s, e)
<1>0. /\ Len(s) \in Nat /\ k \in Nat
      /\ Len(a) = n /\ a[n] = e /\ \A i \in 1..Len(s) : a[i] = s[i]
  BY LenProperties, AppendProperties
<1>1. IsFiniteSet(Positions(s, k, E))
  BY PositionsFinite, <1>0
<1>2. n \notin Positions(s, k, E)
  BY <1>0 DEF Positions
<1>3. Positions(a, k, E) = IF e \in E THEN Positions(s, k, E) \cup {n}
                                      ELSE Positions(s, k, E)
  BY <1>0 DEF Positions
<1>4. Cardinality(Positions(s, k, E)) \in Nat
  BY <1>1, FS_CardinalityType
<1>5. Cardinality(Positions(a, k, E)) =
         Cardinality(Positions(s, k, E)) + (IF e \in E THEN 1 ELSE 0)
  <2> DEFINE A == Positions(a, k, E)
             B == Positions(s, k, E)
  <2>1. Cardinality(B \cup {n}) = Cardinality(B) + 1
    BY <1>1, <1>2, FS_AddElement
  <2> HIDE DEF a, n
  <2>2. CASE e \in E
    <3>1. Cardinality(A) = Cardinality(B) + 1
      BY <2>1, <2>2, <1>3
    <3> QED BY <3>1, <2>2
  <2>3. CASE e \notin E
    <3>1. A = B
      BY <2>3, <1>3
    <3>2. Cardinality(A) = Cardinality(B) + 0
      BY <3>1, <1>4
    <3> QED BY <3>2, <2>3
  <2> QED BY <2>2, <2>3
<1> QED BY <1>5 DEF OccurFrom, Positions

\* Counting the tail is counting from the second position.
LEMMA OccurTail ==
    ASSUME NEW T, NEW s \in Seq(T), s # << >>, NEW E
    PROVE  OccurFrom(Tail(s), 1, E) = OccurFrom(s, 2, E)
<1> DEFINE t == Tail(s)
           S2 == Positions(s, 2, E)
           S1 == Positions(t, 1, E)
           f == [i \in S1 |-> i + 1]
<1>0. /\ Len(s) \in Nat /\ Len(t) = Len(s) - 1 /\ Len(t) \in Nat
      /\ t \in Seq(T) /\ \A i \in 1..Len(t) : t[i] = s[i + 1]
  BY LenProperties, HeadTailProperties
<1>1. IsFiniteSet(S1)
  BY PositionsFinite, <1>0
<1>2. f \in [S1 -> S2]
  BY <1>0 DEF Positions
<1>3. \A x, y \in S1 : f[x] = f[y] => x = y
  BY <1>0 DEF Positions
<1>4. \A y \in S2 : \E x \in S1 : f[x] = y
  <2> TAKE y \in S2
  <2>1. y - 1 \in S1
    BY <1>0 DEF Positions
  <2>2. f[y - 1] = y
    BY <2>1, <1>0 DEF Positions
  <2> QED BY <2>1, <2>2
<1>5. f \in Bijection(S1, S2)
  BY <1>2, <1>3, <1>4 DEF Bijection, Injection, Surjection, IsInjective
<1>6. Cardinality(S2) = Cardinality(S1)
  BY <1>1, <1>5, FS_Bijection DEF ExistsBijection
<1> QED BY <1>6 DEF OccurFrom, Positions

\* An element found makes the count positive, and conversely.
LEMMA OccurPositive ==
    ASSUME NEW T, NEW s \in Seq(T), NEW k \in Nat, NEW E
    PROVE  OccurFrom(s, k, E) > 0 <=> \E i \in k..Len(s) : s[i] \in E
<1>1. IsFiniteSet(Positions(s, k, E))
  BY PositionsFinite
<1>2. Cardinality(Positions(s, k, E)) \in Nat
  BY <1>1, FS_CardinalityType
<1>3. Cardinality(Positions(s, k, E)) = 0 <=> Positions(s, k, E) = {}
  BY <1>1, FS_EmptySet
<1>4. Cardinality(Positions(s, k, E)) > 0 <=> Positions(s, k, E) # {}
  BY <1>2, <1>3
<1> QED BY <1>4 DEF OccurFrom, Positions

\* Overwriting position i with the last element and dropping the last one
\* takes away exactly the element at i.
LEMMA OccurSwapRemove ==
    ASSUME NEW T, NEW s \in Seq(T), NEW i \in 1..Len(s), NEW E
    PROVE  LET r == SubSeq([s EXCEPT ![i] = s[Len(s)]], 1, Len(s) - 1) IN
           /\ r \in Seq(T)
           /\ Len(r) = Len(s) - 1
           /\ OccurFrom(r, 1, E) =
                 OccurFrom(s, 1, E) - (IF s[i] \in E THEN 1 ELSE 0)
<1> DEFINE n == Len(s)
           x == [s EXCEPT ![i] = s[n]]
           r == SubSeq(x, 1, n - 1)
           P == Positions(s, 1, E)
           R == Positions(r, 1, E)
<1>0. n \in Nat /\ n >= 1 /\ i \in 1..n /\ n \in 1..n /\ s[n] \in T
  BY LenProperties, ElementOfSeq
<1>1. /\ x \in Seq(T) /\ Len(x) = n
      /\ \A j \in 1..n : x[j] = IF j = i THEN s[n] ELSE s[j]
  BY <1>0, ExceptSeq
<1>2. \A j \in 1..(n - 1) : x[j] \in T
  BY <1>0, <1>1, ElementOfSeq
<1>3. /\ r \in Seq(T) /\ Len(r) = n - 1
      /\ \A j \in 1..(n - 1) : r[j] = x[j]
  <2>1. /\ r \in Seq(T)
        /\ Len(r) = IF 1 <= n - 1 THEN n - 1 - 1 + 1 ELSE 0
        /\ \A j \in 1..(n - 1 - 1 + 1) : r[j] = x[1 + j - 1]
    BY <1>0, <1>2, SubSeqProperties
  <2> HIDE DEF n, x, r
  <2>2. Len(r) = n - 1 /\ n - 1 - 1 + 1 = n - 1
    BY <2>1, <1>0
  <2>3. ASSUME NEW j \in 1..(n - 1) PROVE r[j] = x[j]
    <3>1. 1 + j - 1 = j
      BY <1>0
    <3> QED BY <2>1, <2>2, <3>1
  <2> QED BY <2>1, <2>2, <2>3
<1>4. /\ \A j \in 1..(n - 1) : r[j] = IF j = i THEN s[n] ELSE s[j]
  BY <1>0, <1>1, <1>3
<1>5. IsFiniteSet(P) /\ IsFiniteSet(R)
  BY <1>3, PositionsFinite
<1>6. Cardinality(P) \in Nat /\ Cardinality(R) \in Nat
  BY <1>5, FS_CardinalityType
<1>7. Cardinality(P \ {n}) = IF s[n] \in E THEN Cardinality(P) - 1
                                            ELSE Cardinality(P)
  <2>1. n \in P <=> s[n] \in E
    BY <1>0 DEF Positions
  <2> QED BY <2>1, <1>5, FS_RemoveElement
<1>8. Cardinality(R) = Cardinality(P) - (IF s[i] \in E THEN 1 ELSE 0)
  <2>1. CASE i = n
    <3>1. R = P \ {n}
      BY <2>1, <1>0, <1>3, <1>4 DEF Positions
    <3> HIDE DEF n, x, r, P, R
    <3>2. s[n] \in E <=> s[i] \in E
      BY <2>1
    <3>3. CASE s[i] \in E
      BY <3>1, <3>2, <3>3, <1>6, <1>7
    <3>4. CASE s[i] \notin E
      BY <3>1, <3>2, <3>4, <1>6, <1>7
    <3> QED BY <3>3, <3>4
  <2>2. CASE i # n
    <3>1. R \ {i} = (P \ {n}) \ {i}
      BY <2>2, <1>0, <1>3, <1>4 DEF Positions
    <3>2. i \in R <=> s[n] \in E
      BY <2>2, <1>0, <1>3, <1>4 DEF Positions
    <3>3. i \in P \ {n} <=> s[i] \in E
      BY <2>2, <1>0 DEF Positions
    <3>4. IsFiniteSet(P \ {n})
      BY <1>5, FS_RemoveElement
    <3>5. Cardinality((P \ {n}) \ {i}) =
             IF s[i] \in E THEN Cardinality(P \ {n}) - 1
                           ELSE Cardinality(P \ {n})
      BY <3>3, <3>4, FS_RemoveElement
    <3>6. Cardinality(R \ {i}) = IF s[n] \in E THEN Cardinality(R) - 1
                                               ELSE Cardinality(R)
      BY <3>2, <1>5, FS_RemoveElement
    <3> HIDE DEF n, x, r, P, R
    <3>7. Cardinality(R) = Cardinality(R \ {i}) + (IF s[n] \in E THEN 1 ELSE 0)
      BY <3>6, <1>6
    <3>8. Cardinality(P) = Cardinality(P \ {n}) + (IF s[n] \in E THEN 1 ELSE 0)
      BY <1>6, <1>7
    <3>9. Cardinality(P \ {n}) \in Nat /\ Cardinality(R \ {i}) \in Nat
      <4>1. IsFiniteSet(R \ {i})
        BY <1>5, FS_RemoveElement
      <4> QED BY <3>4, <4>1, FS_CardinalityType
    <3>10. Cardinality(R \ {i}) = IF s[i] \in E THEN Cardinality(P \ {n}) - 1
                                                ELSE Cardinality(P \ {n})
      BY <3>1, <3>5, Zenon
    <3>11. Cardinality(P \ {n}) = Cardinality(R \ {i})
                                   + (IF s[i] \in E THEN 1 ELSE 0)
      BY <3>9, <3>10
    <3> QED BY <3>7, <3>8, <3>9, <3>11, <1>6
  <2> QED BY <2>1, <2>2
<1> QED BY <1>3, <1>8 DEF OccurFrom, Positions

-------------------------------------------------------------------------------
(* Types and locks *)

\* The command the DL thread is working on is a command.
LEMMA CommandNowType ==
    ASSUME ThreadTypes, IndexOK, tpc \in CommandSteps
    PROVE  CommandNow \in Commands /\ CommandNow.dl \in Downloaders
<1>1. idx \in 1..Len(queue) /\ queue \in Seq(Commands)
  BY DEF ThreadTypes, IndexOK
<1>2. queue[idx] \in Commands
  BY <1>1, ElementOfSeq
<1> QED BY <1>2 DEF CommandNow, Commands

\* Every step keeps the types and the owners of the locks.
LEMMA StructNext ==
    ASSUME TypeOK, LockInv, [Next]_vars
    PROVE  TypeOK' /\ LockInv'
<1> USE DownloaderAssumption DEF TypeOK, ObjectTypes, ThreadTypes,
   LibraryTypes, HistoryTypes, IndexOK, LockInv, object, thread, library,
   history, Commands, Owners, Threads, Nobody, CommandSteps, CancelSteps,
   HoldsRecLock, InCall, HoldsLock, WorkerCallOn, CommandOn, CommandNow,
   CanLock, CanLockThread
<1>1. ASSUME NEW d \in Downloaders, CreateDownloader(d)
      PROVE  TypeOK' /\ LockInv'
  BY <1>1 DEF CreateDownloader
<1>2. ASSUME NEW d \in Downloaders, StartAsyncDownload(d)
      PROVE  TypeOK' /\ LockInv'
  BY <1>2 DEF StartAsyncDownload, Acquire
<1>3. ASSUME StartAccepted
      PROVE  TypeOK' /\ LockInv'
  BY <1>3 DEF StartAccepted, Acquire
<1>4. ASSUME StartRefused
      PROVE  TypeOK' /\ LockInv'
  BY <1>4 DEF StartRefused, Release
<1>5. ASSUME NEW d \in Downloaders, RequestStop(d)
      PROVE  TypeOK' /\ LockInv'
  BY <1>5 DEF RequestStop, Acquire
<1>6. ASSUME StopEntersQueue
      PROVE  TypeOK' /\ LockInv'
  BY <1>6 DEF StopEntersQueue
<1>7. ASSUME StopQueued
      PROVE  TypeOK' /\ LockInv'
  BY <1>7 DEF StopQueued, Acquire
<1>8. ASSUME StopReturns
      PROVE  TypeOK' /\ LockInv'
  BY <1>8 DEF StopReturns, Release
<1>9. ASSUME NEW d \in Downloaders, DeleteDownloader(d)
      PROVE  TypeOK' /\ LockInv'
  BY <1>9 DEF DeleteDownloader
<1>10. ASSUME DownloaderDeleted
      PROVE  TypeOK' /\ LockInv'
  BY <1>10 DEF DownloaderDeleted
<1>11. ASSUME DeleteThread
      PROVE  TypeOK' /\ LockInv'
  BY <1>11 DEF DeleteThread
<1>12. ASSUME ThreadDeleted
      PROVE  TypeOK' /\ LockInv'
  <2>1. ObjectTypes'
    <3>1. \A d \in Downloaders :
             Occur(queue, [cmd : {"Add", "Stop"}, dl : {d}]) \in Nat
      BY OccurType DEF Occur
    <3> DEFINE q(d) == Occur(queue, [cmd : {"Add", "Stop"}, dl : {d}])
    <3>2. acquires' = [d \in Downloaders |-> acquires[d] - q(d)]
      BY <1>12 DEF ThreadDeleted
    <3>3. \A d \in Downloaders : q(d) \in Nat
      BY <3>1
    <3> HIDE DEF q
    <3>4. acquires' \in [Downloaders -> Int]
      BY <3>2, <3>3
    <3> QED BY <1>12, <3>4 DEF ThreadDeleted
  <2>2. ThreadTypes'
    BY <1>12 DEF ThreadDeleted, ThreadTerminated
  <2>3. LibraryTypes'
    BY <1>12 DEF ThreadDeleted, ThreadTerminated
  <2>4. HistoryTypes'
    BY <1>12 DEF ThreadDeleted, ThreadTerminated
  <2>5. IndexOK'
    BY <1>12 DEF ThreadDeleted, ThreadTerminated
  <2>6. LockInv'
    BY <1>12 DEF ThreadDeleted, ThreadTerminated
  <2> QED BY <2>1, <2>2, <2>3, <2>4, <2>5, <2>6
<1>13. ASSUME ProcessCommands
      PROVE  TypeOK' /\ LockInv'
  BY <1>13 DEF ProcessCommands
<1>14. ASSUME StartDownload
      PROVE  TypeOK' /\ LockInv'
  <2>1. ObjectTypes'
    BY <1>14 DEF StartDownload, CommandDone
  <2>2. ThreadTypes'
    BY <1>14 DEF StartDownload, CommandDone
  <2>3. LibraryTypes'
    BY <1>14 DEF StartDownload, CommandDone
  <2>4. HistoryTypes'
    BY <1>14 DEF StartDownload, CommandDone
  <2>5. IndexOK'
    BY <1>14 DEF StartDownload, CommandDone
  <2>6. LockInv'
    <3>1. CASE FindDownloader(CommandNow.dl) = 0
      BY <1>14, <3>1 DEF StartDownload
    <3>2. CASE FindDownloader(CommandNow.dl) # 0
      BY <1>14, <3>2 DEF StartDownload, CommandDone
    <3> QED BY <3>1, <3>2
  <2> QED BY <2>1, <2>2, <2>3, <2>4, <2>5, <2>6
<1>15. ASSUME SaveExStarts
      PROVE  TypeOK' /\ LockInv'
  BY <1>15 DEF SaveExStarts
<1>16. ASSUME DownloadRegistered
      PROVE  TypeOK' /\ LockInv'
  <2>1. ObjectTypes'
    BY <1>16 DEF DownloadRegistered, CommandDone
  <2>2. ThreadTypes'
    <3>1. queue[idx].dl \in Downloaders
      BY <1>16, CommandNowType DEF DownloadRegistered
    <3>2. active' \in Seq(Downloaders)
      BY <1>16, <3>1, AppendProperties DEF DownloadRegistered
    <3> QED BY <1>16, <3>2 DEF DownloadRegistered, CommandDone
  <2>3. LibraryTypes'
    BY <1>16 DEF DownloadRegistered, CommandDone
  <2>4. HistoryTypes'
    BY <1>16 DEF DownloadRegistered, CommandDone
  <2>5. IndexOK'
    BY <1>16 DEF DownloadRegistered, CommandDone
  <2>6. LockInv'
    BY <1>16 DEF DownloadRegistered, CommandDone
  <2> QED BY <2>1, <2>2, <2>3, <2>4, <2>5, <2>6
<1>17. ASSUME SaveExFails
      PROVE  TypeOK' /\ LockInv'
  <2>1. ObjectTypes'
    BY <1>17 DEF SaveExFails, CommandDone
  <2>2. ThreadTypes'
    BY <1>17 DEF SaveExFails, CommandDone
  <2>3. LibraryTypes'
    BY <1>17 DEF SaveExFails, CommandDone
  <2>4. HistoryTypes'
    BY <1>17 DEF SaveExFails, CommandDone
  <2>5. IndexOK'
    BY <1>17 DEF SaveExFails, CommandDone
  <2>6. LockInv'
    BY <1>17 DEF SaveExFails, CommandDone
  <2> QED BY <2>1, <2>2, <2>3, <2>4, <2>5, <2>6
<1>18. ASSUME CancelDownload
      PROVE  TypeOK' /\ LockInv'
  <2>0. CommandNow.dl \in Downloaders
    BY <1>18, CommandNowType DEF CancelDownload
  <2>1. ObjectTypes'
    BY <1>18, <2>0 DEF CancelDownload, Acquire
  <2>2. ThreadTypes' /\ LibraryTypes' /\ HistoryTypes' /\ IndexOK'
    <3>1. CASE FindDownloader(CommandNow.dl) # 0
      BY <1>18, <3>1 DEF CancelDownload
    <3>2. CASE FindDownloader(CommandNow.dl) = 0
      BY <1>18, <3>2 DEF CancelDownload, CommandDone
    <3> QED BY <3>1, <3>2
  <2>3. LockInv'
    BY <1>18 DEF CancelDownload, CommandDone
  <2> QED BY <2>1, <2>2, <2>3
<1>19. ASSUME CancelRequest
      PROVE  TypeOK' /\ LockInv'
  BY <1>19 DEF CancelRequest
<1>20. ASSUME CancelFinishes
      PROVE  TypeOK' /\ LockInv'
  BY <1>20 DEF CancelFinishes, OnDownloadFinished, Acquire
<1>21. ASSUME CancelReleases
      PROVE  TypeOK' /\ LockInv'
  <2>1. ObjectTypes'
    <3>1. queue[idx].dl \in Downloaders
      BY <1>21, CommandNowType DEF CancelReleases
    <3> QED BY <1>21, <3>1 DEF CancelReleases, Release
  <2>2. ThreadTypes'
    BY <1>21 DEF CancelReleases, CommandDone, Release
  <2>3. LibraryTypes'
    BY <1>21 DEF CancelReleases, CommandDone, Release
  <2>4. HistoryTypes'
    BY <1>21 DEF CancelReleases, CommandDone, Release
  <2>5. IndexOK'
    BY <1>21 DEF CancelReleases, CommandDone, Release
  <2>6. LockInv'
    BY <1>21 DEF CancelReleases, CommandDone, Release
  <2> QED BY <2>1, <2>2, <2>3, <2>4, <2>5, <2>6
<1>22. ASSUME Flush
      PROVE  TypeOK' /\ LockInv'
  <2>1. ObjectTypes'
    <3>1. Head(queue) \in Commands /\ Head(queue).dl \in Downloaders
      <4>1. queue \in Seq(Commands) /\ queue # << >>
        BY <1>22 DEF Flush
      <4>2. Head(queue) \in Commands
        BY <4>1, HeadTailProperties
      <4> QED BY <4>2
    <3> QED BY <1>22, <3>1 DEF Flush, Release
  <2>2. ThreadTypes'
    BY <1>22 DEF Flush, Release
  <2>3. LibraryTypes'
    BY <1>22 DEF Flush, Release
  <2>4. HistoryTypes'
    BY <1>22 DEF Flush, Release
  <2>5. IndexOK'
    <3>1. queue # << >> /\ queue' = Tail(queue) /\ UNCHANGED <<idx, active>>
      BY <1>22 DEF Flush
    <3>2. Len(queue) # 1 => Tail(queue) # << >>
      <4>1. queue \in Seq(Commands)
        OBVIOUS
      <4>2. Len(Tail(queue)) = Len(queue) - 1 /\ Len(queue) \in Nat
        BY <3>1, <4>1, HeadTailProperties, LenProperties
      <4>3. Tail(queue) = << >> => Len(Tail(queue)) = 0
        BY EmptySeq
      <4> QED BY <4>2, <4>3
    <3>3. tpc' = "flush" => Len(queue) # 1
      BY <1>22 DEF Flush
    <3>4. tpc' \in {"flush", "scan"}
      BY <1>22 DEF Flush
    <3> QED BY <3>1, <3>2, <3>3, <3>4
  <2>6. LockInv'
    BY <1>22 DEF Flush, Release
  <2> QED BY <2>1, <2>2, <2>3, <2>4, <2>5, <2>6
<1>23. ASSUME Scan
      PROVE  TypeOK' /\ LockInv'
  BY <1>23 DEF Scan
<1>24. ASSUME RemoveFinished
      PROVE  TypeOK' /\ LockInv'
  <2>1. ObjectTypes'
    BY <1>24 DEF RemoveFinished, Release
  <2> DEFINE removed == SwapRemove(active, idx)
  <2>0. removed \in Seq(Downloaders) /\ Len(removed) = Len(active) - 1
    <3>1. idx \in 1..Len(active)
      BY <1>24, LenProperties DEF RemoveFinished
    <3> QED BY <3>1, OccurSwapRemove DEF SwapRemove
  <2>2. ThreadTypes'
    <3> HIDE DEF removed
    <3>1. active' \in {active, removed}
      BY <1>24 DEF RemoveFinished, removed
    <3>2. idx' \in Nat
      BY <1>24 DEF RemoveFinished
    <3> QED BY <1>24, <2>0, <3>1, <3>2 DEF RemoveFinished
  <2>3. LibraryTypes'
    BY <1>24 DEF RemoveFinished, Release
  <2>4. HistoryTypes'
    BY <1>24 DEF RemoveFinished, Release
  <2>5. IndexOK'
    <3> HIDE DEF removed
    <3>1. active' \in {active, removed}
      BY <1>24 DEF RemoveFinished, removed
    <3>2. idx' = idx - 1 /\ idx <= Len(active) /\ tpc' = "removing"
      BY <1>24 DEF RemoveFinished
    <3>3. Len(active) \in Nat
      BY LenProperties
    <3>4. idx' <= Len(active')
      <4>1. idx - 1 <= Len(active) /\ idx - 1 <= Len(active) - 1
        BY <3>2, <3>3
      <4> QED BY <2>0, <3>1, <3>2, <4>1
    <3> QED BY <3>2, <3>4
  <2>6. LockInv'
    BY <1>24 DEF RemoveFinished, Release
  <2> QED BY <2>1, <2>2, <2>3, <2>4, <2>5, <2>6
<1>25. ASSUME RemovalDone
      PROVE  TypeOK' /\ LockInv'
  BY <1>25 DEF RemovalDone
<1>26. ASSUME ProcessDownloads
      PROVE  TypeOK' /\ LockInv'
  BY <1>26 DEF ProcessDownloads
<1>27. ASSUME Evaluate
      PROVE  TypeOK' /\ LockInv'
  BY <1>27 DEF Evaluate
<1>28. ASSUME Exit
      PROVE  TypeOK' /\ LockInv'
  BY <1>28 DEF Exit
<1>29. ASSUME MenuThinks
      PROVE  TypeOK' /\ LockInv'
  BY <1>29 DEF MenuThinks
<1>30. ASSUME NEW d \in Downloaders,
           NEW kind \in {"progress", "DOWNLOAD_SUCCESS", "DOWNLOAD_ERROR"},
           CallbackDue(d, kind)
      PROVE  TypeOK' /\ LockInv'
  BY <1>30 DEF CallbackDue
<1>31. ASSUME ProgressCallback
      PROVE  TypeOK' /\ LockInv'
  BY <1>31 DEF ProgressCallback
<1>32. ASSUME FinishCallback
      PROVE  TypeOK' /\ LockInv'
  <2>1. ObjectTypes'
    BY <1>32 DEF FinishCallback, OnDownloadFinished, Acquire
  <2>2. ThreadTypes'
    BY <1>32 DEF FinishCallback, OnDownloadFinished, Acquire
  <2>3. LibraryTypes'
    BY <1>32 DEF FinishCallback, OnDownloadFinished, Acquire
  <2>4. HistoryTypes'
    BY <1>32 DEF FinishCallback, OnDownloadFinished, Acquire
  <2>5. IndexOK'
    BY <1>32 DEF FinishCallback, OnDownloadFinished, Acquire
  <2>6. LockInv'
    BY <1>32 DEF FinishCallback, OnDownloadFinished, Acquire
  <2> QED BY <2>1, <2>2, <2>3, <2>4, <2>5, <2>6
<1>33. ASSUME ThinkReturns
      PROVE  TypeOK' /\ LockInv'
  BY <1>33 DEF ThinkReturns
<1>34. ASSUME NEW d \in Downloaders, NEW ok \in BOOLEAN, Unpack(d, ok)
      PROVE  TypeOK' /\ LockInv'
  <2>1. ObjectTypes'
    BY <1>34 DEF Unpack
  <2>2. ThreadTypes'
    BY <1>34 DEF Unpack
  <2>3. LibraryTypes'
    BY <1>34 DEF Unpack
  <2>4. HistoryTypes'
    BY <1>34 DEF Unpack
  <2>5. IndexOK'
    BY <1>34 DEF Unpack
  <2>6. LockInv'
    BY <1>34 DEF Unpack
  <2> QED BY <2>1, <2>2, <2>3, <2>4, <2>5, <2>6
<1>35. ASSUME NEW d \in Downloaders, UnpackerReleases(d)
      PROVE  TypeOK' /\ LockInv'
  BY <1>35 DEF UnpackerReleases, Release
<1>36. CASE UNCHANGED vars
  BY <1>36 DEF vars
<1> HIDE DEF TypeOK, LockInv, object, thread, library, history
<1> QED
  BY <1>1, <1>2, <1>3, <1>4, <1>5, <1>6, <1>7, <1>8, <1>9, <1>10, <1>11, <1>12,
     <1>13, <1>14, <1>15, <1>16, <1>17, <1>18, <1>19, <1>20, <1>21, <1>22,
     <1>23, <1>24, <1>25, <1>26, <1>27, <1>28, <1>29, <1>30, <1>31, <1>32,
     <1>33, <1>34, <1>35, <1>36
     DEF Next, WorkerNext, WorkerCall, DLThreadNext, ThinkNext, UnpackerNext

\* At the start the variables have their types and no lock is owned.
LEMMA StructInit ==
    ASSUME Init
    PROVE  TypeOK /\ LockInv
<1> USE DEF Init, Owners, Nobody, CommandSteps
<1>1. ObjectTypes /\ HistoryTypes
  BY DEF ObjectTypes, HistoryTypes
<1>2. ThreadTypes
  BY EmptySeq DEF ThreadTypes
<1>3. LibraryTypes /\ IndexOK
  BY DEF LibraryTypes, IndexOK
<1>4. LockInv
  BY DEF LockInv, HoldsRecLock, HoldsLock, InCall, CancelSteps, WorkerCallOn,
     CommandOn
<1> QED BY <1>1, <1>2, <1>3, <1>4 DEF TypeOK

\* Type correctness, for any number of objects, starts and stops: each step of
\* the worker, the DL thread, the game's Think and the unpackers keeps the
\* types, and ProcessCommands, Flush and the removal loop stay in bounds.
THEOREM TypeCorrect == Spec => []TypeOK
<1>1. Init => TypeOK /\ LockInv
  BY StructInit
<1>2. TypeOK /\ LockInv /\ [Next]_vars => (TypeOK /\ LockInv)'
  BY StructNext
<1> QED BY <1>1, <1>2, PTL DEF Spec
===============================================================================
