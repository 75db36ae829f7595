-------------------------- MODULE FileManagerProofs --------------------------
(***************************************************************************)
(* The invariant IInv of module FileManagerProperties holds of FileManager *)
(* for every set of files, contents and lists and any number of slots, and *)
(* the safety properties follow from it.  First come facts about finite    *)
(* searches and about the operators of FileList, then one section for each *)
(* part of the invariant, with one step per action.                        *)
(***************************************************************************)
EXTENDS FileManagerProperties, FiniteSetTheorems, SequenceTheorems,
        WellFoundedInduction, TLAPS

\* The steps outside FZFiles and its transfers, which move neither list nor disk.
Asides == UserCancels \/ \E g \in Names : LibraryRefuses(g)

USE DEF outside

-------------------------------------------------------------------------------
(* Searches of a list *)

\* A set of natural numbers has a least element, a bounded one a greatest.
LEMMA Least ==
    ASSUME NEW T \in SUBSET Nat, T # {}
    PROVE  \E x \in T : \A y \in T : x <= y
<1> DEFINE R == OpToRel(<, Nat)
<1>1. IsWellFoundedOn(R, Nat)
  BY NatLessThanWellFounded
<1>2. \A x, y \in Nat : x < y => <<x, y>> \in R
  BY DEF OpToRel
<1> HIDE DEF R
<1>3. PICK x \in T : \A y \in T : ~(<<y, x>> \in R)
  BY <1>1, WFMin
<1>4. x \in Nat /\ \A y \in T : y \in Nat
  OBVIOUS
<1>5. ASSUME NEW y \in T PROVE x <= y
  <2>1. ~(y < x)
    BY <1>2, <1>3, <1>4
  <2> QED BY <1>4, <2>1
<1> QED BY <1>5

LEMMA Greatest ==
    ASSUME NEW n \in Nat, NEW S \in SUBSET (0..n), S # {}
    PROVE  \E x \in S : \A y \in S : x >= y
<1> DEFINE T == {k \in Nat : n - k \in S}
<1>1. T # {}
  <2>1. PICK x \in S : TRUE
    OBVIOUS
  <2>2. n - x \in T
    BY <2>1
  <2> QED BY <2>2
<1>2. PICK k \in T : \A y \in T : k <= y
  <2>1. T \in SUBSET Nat
    OBVIOUS
  <2> HIDE DEF T
  <2> QED BY <1>1, <2>1, Least
<1>3. k \in Nat /\ n - k \in S
  OBVIOUS
<1>4. ASSUME NEW y \in S PROVE n - k >= y
  <2>1. y \in Nat /\ n - y \in Nat /\ n - (n - y) = y
    OBVIOUS
  <2>2. n - y \in T
    BY <2>1
  <2>3. k <= n - y
    BY <1>2, <2>2
  <2> HIDE DEF T
  <2> QED BY <1>3, <2>1, <2>3
<1> QED BY <1>3, <1>4

\* What the two searches of a list return: the first, and the last, place.
LEMMA FindFirst ==
    ASSUME NEW T, NEW s \in Seq(T), NEW name
    PROVE  /\ Find(s, name) \in 0..Len(s)
           /\ Find(s, name) # 0 => s[Find(s, name)].name = name
           /\ Find(s, name) = 0 => \A j \in 1..Len(s) : s[j].name # name
<1> DEFINE I == {k \in 1..Len(s) : s[k].name = name}
<1>1. Find(s, name) = IF I # {} THEN Min(I) ELSE 0
  BY DEF Find, SelectInSeq
<1>2. I # {} => Min(I) \in I
  <2>1. I \in SUBSET Nat
    OBVIOUS
  <2>2. I # {} => \E x \in I : \A y \in I : x <= y
    <3> HIDE DEF I
    <3> QED BY <2>1, Least
  <2> QED BY <2>2 DEF Min
<1>3. Len(s) \in Nat
  BY LenProperties
<1>4. CASE I = {}
  BY <1>1, <1>3, <1>4
<1>5. CASE I # {}
  BY <1>1, <1>2, <1>3, <1>5
<1> QED BY <1>4, <1>5

\* The search for the next download finds the last one due.
LEMMA NextIsLast ==
    ASSUME NEW T, files \in Seq(T), last \in 0..Len(files)
    PROVE  /\ NextDownload \in 0..last
           /\ NextDownload # 0 => files[NextDownload].action = "DOWNLOAD"
           /\ \A k \in 1..last : k > NextDownload => files[k].action # "DOWNLOAD"
<1> DEFINE I == {k \in 1..last : files[k].action = "DOWNLOAD"}
<1>1. NextDownload = IF I # {} THEN Max(I) ELSE 0
  BY DEF NextDownload, SelectLastInSubSeq
<1>2. last \in Nat
  BY LenProperties
<1>3. I # {} => Max(I) \in I /\ \A y \in I : Max(I) >= y
  <2>1. I \in SUBSET (0..last)
    BY <1>2
  <2>2. I # {} => \E x \in I : \A y \in I : x >= y
    <3> HIDE DEF I
    <3> QED BY <1>2, <2>1, Greatest
  <2> QED BY <2>2 DEF Max
<1>4. CASE I = {}
  BY <1>1, <1>2, <1>4
<1>5. CASE I # {}
  <2>1. NextDownload \in I /\ \A y \in I : NextDownload >= y
    BY <1>1, <1>3, <1>5
  <2>2. \A k \in 1..last : k > NextDownload => k \notin I
    BY <1>2, <2>1
  <2> QED BY <1>2, <2>1, <2>2
<1> QED BY <1>4, <1>5

-------------------------------------------------------------------------------
(* SortBySize *)

\* The checks that entries hold are records of natural numbers.
LEMMA SizesAreNumbers ==
    ASSUME NEW c \in AllChecks
    PROVE  c.size \in Nat /\ c.crc \in Nat
<1>1. \A x \in Contents : x.size \in Nat \ {0} /\ x.crc \in Nat
                          /\ x = [size |-> x.size, crc |-> x.crc]
  BY FileManagerAssumption
<1>2. ASSUME NEW x \in Contents
      PROVE  /\ ChecksOf(x).size \in Nat /\ ChecksOf(x).crc \in Nat
             /\ [x EXCEPT !.crc = 0].size \in Nat
             /\ [x EXCEPT !.crc = 0].crc \in Nat
  BY <1>1 DEF ChecksOf
<1> QED BY <1>1, <1>2 DEF AllChecks, Dummy

\* The search of SortBySize for the largest entry always ends where it began:
\* the candidate is compared with element i itself.
LEMMA LargestIsLast ==
    ASSUME NEW fs \in Seq(Entry), NEW n \in 1..Len(fs)
    PROVE  LargestUpTo(fs, n) = n
<1> DEFINE Step(g) == [j \in 1..n |->
                          IF j = n THEN n
                          ELSE IF fs[g[j + 1]].target.size < fs[n].target.size
                               THEN j ELSE g[j + 1]]
           max == CHOOSE g : g = Step(g)
           const == [j \in 1..n |-> n]
<1>0. n \in Nat /\ n >= 1 /\ fs[n] \in Entry
  BY LenProperties, ElementOfSeq
<1>1. fs[n].target.size \in Nat
  <2>1. fs[n].target \in Contents \cup {Dummy}
    BY <1>0 DEF Entry
  <2> QED BY <2>1, FileManagerAssumption DEF Dummy
<1>2. const = Step(const)
  <2>1. \A j \in 1..n : j # n => j + 1 \in 1..n
    BY <1>0
  <2>2. \A j \in 1..n : j # n => const[j + 1] = n
    BY <2>1
  <2>3. \A j \in 1..n : Step(const)[j] = n
    BY <1>0, <1>1, <2>2
  <2> QED BY <2>3
<1>3. max = Step(max)
  BY <1>2
<1>4. LargestUpTo(fs, n) = max[1]
  BY DEF LargestUpTo
<1> HIDE DEF max
<1>5. \A j \in 1..n : max[j] = IF j = n THEN n
                          ELSE IF fs[max[j + 1]].target.size < fs[n].target.size
                               THEN j ELSE max[j + 1]
  BY <1>3
<1>6. \A j \in 1..n : max[j] = n
  <2> DEFINE Bad == {j \in 1..n : max[j] # n}
  <2> SUFFICES ASSUME Bad # {} PROVE FALSE
    OBVIOUS
  <2>1. PICK m \in Bad : \A y \in Bad : m >= y
    <3>1. Bad \in SUBSET (0..n)
      BY <1>0
    <3> HIDE DEF Bad
    <3> QED BY <1>0, <3>1, Greatest
  <2>2. m # n
    BY <1>0, <1>5
  <2>3. m + 1 \in 1..n /\ m + 1 \notin Bad
    BY <1>0, <2>1, <2>2
  <2>4. max[m + 1] = n
    BY <2>3
  <2>5. max[m] = n
    BY <1>0, <1>1, <1>5, <2>1, <2>2, <2>4
  <2> QED BY <2>5
<1> QED BY <1>0, <1>4, <1>6

\* SortBySize leaves every list as it is: the code compares the candidate with
\* element i itself, so no entry ever changes its place.
THEOREM SortKeepsList ==
    ASSUME NEW fs \in Seq(Entry)
    PROVE  SortBySize(fs) = fs
<1> DEFINE n == Len(fs)
           Before(g, j) == IF j = n THEN fs ELSE g[j + 1]
           Step(g) == [j \in 2..n |->
                         SwapEntries(Before(g, j), j, LargestUpTo(Before(g, j), j))]
           after == CHOOSE g : g = Step(g)
           const == [j \in 2..n |-> fs]
<1>0. n \in Nat
  BY LenProperties
<1>1. \A j \in 2..n : SwapEntries(fs, j, LargestUpTo(fs, j)) = fs
  <2> TAKE j \in 2..n
  <2>1. j \in 1..Len(fs)
    BY <1>0
  <2>2. LargestUpTo(fs, j) = j
    BY <2>1, LargestIsLast
  <2> QED BY <2>1, <2>2 DEF SwapEntries
<1>2. const = Step(const)
  <2>1. \A j \in 2..n : Before(const, j) = fs
    BY <1>0
  <2>2. \A j \in 2..n : Step(const)[j] = fs
    BY <1>1, <2>1
  <2> QED BY <2>2
<1>3. after = Step(after)
  BY <1>2
<1>4. SortBySize(fs) = IF n < 2 THEN fs ELSE after[2]
  BY DEF SortBySize
<1> HIDE DEF after
<1>5. \A j \in 2..n : after[j] =
         SwapEntries(Before(after, j), j, LargestUpTo(Before(after, j), j))
  BY <1>3
<1>6. \A j \in 2..n : after[j] = fs
  <2> DEFINE Bad == {j \in 2..n : after[j] # fs}
  <2> SUFFICES ASSUME Bad # {} PROVE FALSE
    OBVIOUS
  <2>1. PICK m \in Bad : \A y \in Bad : m >= y
    <3>1. Bad \in SUBSET (0..n)
      BY <1>0
    <3> HIDE DEF Bad
    <3> QED BY <1>0, <3>1, Greatest
  <2>2. Before(after, m) = fs
    <3>1. CASE m = n
      BY <3>1
    <3>2. CASE m # n
      <4>1. m + 1 \in 2..n /\ m + 1 \notin Bad
        BY <1>0, <2>1, <3>2
      <4> QED BY <4>1, <3>2
    <3> QED BY <3>1, <3>2
  <2>3. after[m] = fs
    BY <1>1, <1>5, <2>1, <2>2
  <2> QED BY <2>3
<1> QED BY <1>0, <1>4, <1>6

-------------------------------------------------------------------------------
(* The operations on the list *)

\* No file occurs twice in list s.
Distinct(s) == IsInjective([k \in DOMAIN s |-> s[k].name])

\* The same, said of places.
LEMMA DistinctNames ==
    ASSUME NEW T, NEW s \in Seq(T)
    PROVE  Distinct(s) <=> \A k, l \in 1..Len(s) : s[k].name = s[l].name => k = l
<1>1. DOMAIN s = 1..Len(s)
  OBVIOUS
<1>2. DOMAIN [k \in DOMAIN s |-> s[k].name] = 1..Len(s)
  BY <1>1
<1> QED BY <1>1, <1>2 DEF Distinct, IsInjective

\* A list whose entries keep their places and names stays a list of entries,
\* each file once.
LEMMA Relabelled ==
    ASSUME NEW fs \in Seq(Entry), Distinct(fs), NEW g \in [1..Len(fs) -> Entry],
           \A k \in 1..Len(fs) : g[k].name = fs[k].name
    PROVE  g \in Seq(Entry) /\ Len(g) = Len(fs) /\ Distinct(g)
<1> DEFINE n == Len(fs)
<1>1. n \in Nat
  BY LenProperties
<1>2. g \in [1..n -> Entry]
  OBVIOUS
<1> HIDE DEF n
<1>3. g \in Seq(Entry) /\ Len(g) = n
  BY <1>1, <1>2
<1>4. g \in Seq(Entry) /\ Len(g) = Len(fs)
  BY <1>3 DEF n
<1>5. \A k, l \in 1..Len(fs) : fs[k].name = fs[l].name => k = l
  BY DistinctNames
<1>6. \A k, l \in 1..Len(g) : g[k].name = g[l].name => k = l
  BY <1>4, <1>5
<1> QED BY <1>4, <1>6, DistinctNames

\* Replacing an entry by one for the same file.
LEMMA ReplaceEntry ==
    ASSUME NEW fs \in Seq(Entry), Distinct(fs), NEW n \in 1..Len(fs),
           NEW e \in Entry, e.name = fs[n].name
    PROVE  /\ [fs EXCEPT ![n] = e] \in Seq(Entry)
           /\ Len([fs EXCEPT ![n] = e]) = Len(fs)
           /\ Distinct([fs EXCEPT ![n] = e])
           /\ \A k \in 1..Len(fs) :
                 [fs EXCEPT ![n] = e][k] = IF k = n THEN e ELSE fs[k]
<1> DEFINE new == [fs EXCEPT ![n] = e]
<1>1. /\ new \in Seq(Entry) /\ Len(new) = Len(fs)
      /\ \A k \in 1..Len(fs) : new[k] = IF k = n THEN e ELSE fs[k]
  BY ExceptSeq
<1> HIDE DEF new
<1>2. new \in [1..Len(fs) -> Entry] /\ \A k \in 1..Len(fs) : new[k].name = fs[k].name
  BY <1>1
<1>3. Distinct(new)
  BY <1>2, Relabelled
<1> QED BY <1>1, <1>3 DEF new

\* An entry of the list, and what its fields are.
LEMMA EntryFields ==
    ASSUME NEW e \in Entry
    PROVE  /\ e.name \in Names /\ e.target \in Contents \cup {Dummy}
           /\ e.action \in {"UNDEFINED", "NO", "DOWNLOAD", "VERIFY", "IGNORE"}
           /\ e.real \in AllChecks
           /\ \A a \in {"UNDEFINED", "NO", "DOWNLOAD", "VERIFY", "IGNORE"} :
                 /\ [e EXCEPT !.action = a] \in Entry
                 /\ [e EXCEPT !.action = a].name = e.name
                 /\ [e EXCEPT !.action = a].target = e.target
                 /\ [e EXCEPT !.action = a].real = e.real
                 /\ [e EXCEPT !.action = a].action = a
           /\ \A c \in AllChecks :
                 /\ [e EXCEPT !.real = c] \in Entry
                 /\ [e EXCEPT !.real = c].name = e.name
                 /\ [e EXCEPT !.real = c].target = e.target
                 /\ [e EXCEPT !.real = c].action = e.action
  BY DEF Entry

\* What a line of a file list does to the list: the other entries stay, the
\* file's entry has the new target, the checks it had or those given, and
\* needs nothing only if these agree.
LEMMA UpdateList ==
    ASSUME NEW fs \in Seq(Entry), Distinct(fs), NEW name \in Names,
           NEW t \in Targets, NEW c \in AllChecks
    PROVE  LET new == UpdateFileInfo(fs, name, t, c) IN
           /\ new \in Seq(Entry) /\ Distinct(new) /\ Len(new) >= Len(fs)
           /\ \A k \in 1..Len(new) :
                 \/ k \in 1..Len(fs) /\ new[k] = fs[k]
                 \/ /\ new[k].name = name /\ new[k].target = t
                    /\ new[k].action \in {"NO", "DOWNLOAD"}
                    /\ new[k].action = "NO" => CompareFiles(new[k].real, t)
                    /\ \/ new[k].real \in {Dummy, c}
                       \/ /\ k \in 1..Len(fs) /\ fs[k].name = name
                          /\ new[k].real = fs[k].real
<1> DEFINE new == UpdateFileInfo(fs, name, t, c)
           p == Find(fs, name)
<1>0. /\ Len(fs) \in Nat /\ t \in Contents /\ Dummy \in AllChecks
      /\ \A k \in 1..Len(fs) : fs[k] \in Entry
  BY LenProperties, ElementOfSeq, FileManagerAssumption DEF AllChecks
<1>1. p \in 0..Len(fs)
  BY FindFirst
<1>1a. p # 0 => fs[p].name = name
  BY FindFirst
<1>1b. p = 0 => \A j \in 1..Len(fs) : fs[j].name # name
  BY FindFirst
<1>2. CASE p = 0
  <2> DEFINE e == [Found(name) EXCEPT !.action = "DOWNLOAD", !.target = t]
  <2>1. /\ e \in Entry /\ e.name = name /\ e.target = t
        /\ e.action = "DOWNLOAD" /\ e.real = Dummy
    BY <1>0 DEF Found, Entry
  <2>2. new = Append(fs, e)
    BY <1>2 DEF UpdateFileInfo
  <2> HIDE DEF e, new
  <2>3. /\ new \in Seq(Entry) /\ Len(new) = Len(fs) + 1
        /\ \A k \in 1..Len(fs) : new[k] = fs[k]
        /\ new[Len(fs) + 1] = e
    BY <2>1, <2>2, AppendProperties
  <2>4. \A k \in 1..Len(new) : k \in 1..Len(fs) \/ k = Len(fs) + 1
    BY <1>0, <2>3
  <2>5. Distinct(new)
    <3>1. \A k, l \in 1..Len(fs) : fs[k].name = fs[l].name => k = l
      BY DistinctNames
    <3>2. \A k, l \in 1..Len(new) : new[k].name = new[l].name => k = l
      BY <1>1b, <1>2, <2>1, <2>3, <2>4, <3>1
    <3> QED BY <2>3, <3>2, DistinctNames
  <2>6. Len(new) >= Len(fs)
    BY <1>0, <2>3
  <2> QED BY <2>1, <2>3, <2>4, <2>5, <2>6 DEF new
<1>3. CASE p # 0
  <2> DEFINE real == IF IsDummy(fs[p].real) THEN c ELSE fs[p].real
             e == [name |-> name, target |-> t, real |-> real,
                   action |-> IF CompareFiles(real, t) THEN "NO" ELSE "DOWNLOAD"]
  <2>1. p \in 1..Len(fs) /\ fs[p].name = name
    BY <1>0, <1>1, <1>1a, <1>3
  <2>2. real \in AllChecks
    BY <1>0, <2>1, EntryFields
  <2>3. /\ e \in Entry /\ e.name = name /\ e.target = t /\ e.real = real
        /\ e.action \in {"NO", "DOWNLOAD"}
        /\ e.action = "NO" => CompareFiles(e.real, t)
    <3> HIDE DEF real
    <3> QED BY <1>0, <2>2 DEF Entry
  <2>4. real = c \/ real = fs[p].real
    OBVIOUS
  <2>5. new = [fs EXCEPT ![p] = e]
    BY <1>3 DEF UpdateFileInfo
  <2> HIDE DEF real, e, new
  <2>6. /\ new \in Seq(Entry) /\ Len(new) = Len(fs) /\ Distinct(new)
        /\ \A k \in 1..Len(fs) : new[k] = IF k = p THEN e ELSE fs[k]
    <3> HIDE DEF p
    <3>1. p \in 1..Len(fs) /\ e \in Entry /\ e.name = fs[p].name
      BY <2>1, <2>3
    <3>2. new \in Seq(Entry) /\ Len(new) = Len(fs)
      BY <2>5, <3>1, ReplaceEntry
    <3>3. Distinct(new)
      BY <2>5, <3>1, ReplaceEntry
    <3>4. \A k \in 1..Len(fs) : new[k] = IF k = p THEN e ELSE fs[k]
      BY <2>5, <3>1, ReplaceEntry
    <3> QED BY <3>2, <3>3, <3>4
  <2>8. Len(new) >= Len(fs)
    BY <1>0, <2>6
  <2> QED BY <2>1, <2>3, <2>4, <2>6, <2>8 DEF new
<1> QED BY <1>2, <1>3

\* A line to ignore a file only changes what is to be done with it.
LEMMA IgnoreList ==
    ASSUME NEW fs \in Seq(Entry), Distinct(fs), NEW name \in Names
    PROVE  LET new == AddIgnoredFile(fs, name) IN
           /\ new \in Seq(Entry) /\ Distinct(new) /\ Len(new) = Len(fs)
           /\ \A k \in 1..Len(fs) :
                 new[k] \in {fs[k], [fs[k] EXCEPT !.action = "IGNORE"]}
<1> DEFINE new == AddIgnoredFile(fs, name)
           p == Find(fs, name)
<1>0. Len(fs) \in Nat /\ \A k \in 1..Len(fs) : fs[k] \in Entry
  BY LenProperties, ElementOfSeq
<1>1. p \in 0..Len(fs)
  BY FindFirst
<1>2. CASE p = 0
  BY <1>2 DEF AddIgnoredFile
<1>3. CASE p # 0
  <2>1. p \in 1..Len(fs)
    BY <1>0, <1>1, <1>3
  <2>2. new = [fs EXCEPT ![p] = [fs[p] EXCEPT !.action = "IGNORE"]]
    BY <1>3 DEF AddIgnoredFile
  <2> HIDE DEF new, p
  <2>3. PICK e \in Entry : e = [fs[p] EXCEPT !.action = "IGNORE"]
    BY <1>0, <2>1, EntryFields
  <2>3a. e.name = fs[p].name
    BY <1>0, <2>1, <2>3, EntryFields
  <2>4. /\ new \in Seq(Entry) /\ Len(new) = Len(fs) /\ Distinct(new)
        /\ \A k \in 1..Len(fs) : new[k] = IF k = p THEN e ELSE fs[k]
    <3>1. new = [fs EXCEPT ![p] = e]
      BY <2>2, <2>3
    <3>2. e.name = fs[p].name
      BY <2>3a
    <3>3. new \in Seq(Entry) /\ Len(new) = Len(fs)
      BY <2>1, <3>1, <3>2, ReplaceEntry
    <3>4. Distinct(new)
      BY <2>1, <3>1, <3>2, ReplaceEntry
    <3>5. \A k \in 1..Len(fs) : new[k] = IF k = p THEN e ELSE fs[k]
      BY <2>1, <3>1, <3>2, ReplaceEntry
    <3> QED BY <3>3, <3>4, <3>5
  <2> QED BY <2>3, <2>4 DEF new
<1> QED BY <1>2, <1>3

\* PreprocessFiles spares the list files, and the user's data that the lists do
\* not name.
LEMMA PreprocessList ==
    ASSUME NEW fs \in Seq(Entry), Distinct(fs)
    PROVE  LET new == PreprocessFiles(fs) IN
           /\ new \in Seq(Entry) /\ Distinct(new) /\ Len(new) = Len(fs)
           /\ \A k \in 1..Len(fs) :
                 /\ new[k] \in {fs[k], [fs[k] EXCEPT !.action = "IGNORE"]}
                 /\ new[k].name \in ListFiles => new[k].action = "IGNORE"
                 /\ new[k].name \in Userdata => new[k].action # "UNDEFINED"
<1> DEFINE new == PreprocessFiles(fs)
<1>0. Len(fs) \in Nat /\ \A k \in 1..Len(fs) : fs[k] \in Entry
  BY LenProperties, ElementOfSeq
<1>1. new = [k \in 1..Len(fs) |-> new[k]]
  BY DEF PreprocessFiles
<1>2. ASSUME NEW k \in 1..Len(fs)
      PROVE  /\ new[k] \in {fs[k], [fs[k] EXCEPT !.action = "IGNORE"]}
             /\ new[k].name \in ListFiles => new[k].action = "IGNORE"
             /\ new[k].name \in Userdata => new[k].action # "UNDEFINED"
             /\ new[k] \in Entry /\ new[k].name = fs[k].name
  <2>1. new[k] = IF \/ fs[k].name \in ListFiles
                    \/ fs[k].name \in Userdata /\ fs[k].action = "UNDEFINED"
                 THEN [fs[k] EXCEPT !.action = "IGNORE"] ELSE fs[k]
    BY DEF PreprocessFiles
  <2> HIDE DEF new
  <2>2. fs[k] \in Entry
    BY <1>0
  <2>3. PICK e \in Entry : e = [fs[k] EXCEPT !.action = "IGNORE"]
    BY <2>2, EntryFields
  <2>4. e.name = fs[k].name /\ e.action = "IGNORE"
    BY <2>2, <2>3, EntryFields
  <2>5. new[k] = IF \/ fs[k].name \in ListFiles
                    \/ fs[k].name \in Userdata /\ fs[k].action = "UNDEFINED"
                 THEN e ELSE fs[k]
    BY <2>1, <2>3
  <2> QED BY <2>2, <2>3, <2>4, <2>5
<1> HIDE DEF new
<1>3. new \in Seq(Entry) /\ Len(new) = Len(fs) /\ Distinct(new)
  <2>1. new \in [1..Len(fs) -> Entry]
    BY <1>1, <1>2
  <2> QED BY <1>2, <2>1, Relabelled
<1> QED BY <1>2, <1>3 DEF new

\* Erasing an entry moves the later ones down by one.
LEMMA EraseEntry ==
    ASSUME NEW fs \in Seq(Entry), Distinct(fs), NEW n \in 1..Len(fs)
    PROVE  LET new == RemoveAt(fs, n) IN
           /\ new \in Seq(Entry) /\ Distinct(new) /\ Len(new) = Len(fs) - 1
           /\ \A k \in 1..Len(new) :
                 \E l \in 1..Len(fs) : l # n /\ new[k] = fs[l]
<1> DEFINE a == SubSeq(fs, 1, n - 1)
           b == SubSeq(fs, n + 1, Len(fs))
           new == a \o b
<1>0. Len(fs) \in Nat /\ n \in Nat /\ \A k \in 1..Len(fs) : fs[k] \in Entry
  BY LenProperties, ElementOfSeq
<1>1. /\ a \in Seq(Entry) /\ Len(a) = n - 1
      /\ \A k \in 1..(n - 1) : a[k] = fs[k]
  <2>1. \A k \in 1..(n - 1) : fs[k] \in Entry
    BY <1>0
  <2>2. /\ a \in Seq(Entry)
        /\ Len(a) = IF 1 <= n - 1 THEN n - 1 - 1 + 1 ELSE 0
        /\ \A k \in 1..(n - 1 - 1 + 1) : a[k] = fs[1 + k - 1]
    BY <1>0, <2>1, SubSeqProperties
  <2> HIDE DEF a
  <2> QED BY <1>0, <2>2
<1>2. /\ b \in Seq(Entry) /\ Len(b) = Len(fs) - n
      /\ \A k \in 1..(Len(fs) - n) : b[k] = fs[n + k]
  <2>1. \A k \in (n + 1)..Len(fs) : fs[k] \in Entry
    BY <1>0
  <2>2. /\ b \in Seq(Entry)
        /\ Len(b) = IF n + 1 <= Len(fs) THEN Len(fs) - (n + 1) + 1 ELSE 0
        /\ \A k \in 1..(Len(fs) - (n + 1) + 1) : b[k] = fs[n + 1 + k - 1]
    BY <1>0, <2>1, SubSeqProperties
  <2>3. Len(fs) - (n + 1) + 1 = Len(fs) - n
    BY <1>0
  <2>4. \A k \in 1..(Len(fs) - n) : n + 1 + k - 1 = n + k
    BY <1>0
  <2> HIDE DEF b
  <2>5. Len(b) = Len(fs) - n
    BY <1>0, <2>2
  <2>6. \A k \in 1..(Len(fs) - n) : b[k] = fs[n + k]
    BY <2>2, <2>3, <2>4
  <2> QED BY <2>2, <2>5, <2>6
<1> HIDE DEF a, b
<1>3. /\ new \in Seq(Entry) /\ Len(new) = Len(fs) - 1
      /\ \A k \in 1..Len(new) :
            new[k] = IF k <= n - 1 THEN a[k] ELSE b[k - (n - 1)]
  <2>0. a \in Seq(Entry) /\ b \in Seq(Entry)
    BY <1>1, <1>2
  <2>1. /\ new \in Seq(Entry) /\ Len(new) = Len(a) + Len(b)
        /\ \A k \in 1..(Len(a) + Len(b)) :
              new[k] = IF k <= Len(a) THEN a[k] ELSE b[k - Len(a)]
    BY <2>0, ConcatProperties
  <2> HIDE DEF new
  <2>2. Len(a) + Len(b) = Len(fs) - 1
    BY <1>0, <1>1, <1>2
  <2> QED BY <1>1, <2>1, <2>2
<1> HIDE DEF new
<1>4. \A k \in 1..Len(new) :
         new[k] = fs[IF k < n THEN k ELSE k + 1]
  <2> TAKE k \in 1..Len(new)
  <2>1. CASE k < n
    BY <1>0, <1>1, <1>3, <2>1
  <2>2. CASE ~(k < n)
    <3>1. k - (n - 1) \in 1..(Len(fs) - n) /\ n + (k - (n - 1)) = k + 1
          /\ ~(k <= n - 1)
      BY <1>0, <1>3, <2>2
    <3> QED BY <1>2, <1>3, <2>2, <3>1
  <2> QED BY <2>1, <2>2
<1>5. Distinct(new)
  <2>1. \A k, l \in 1..Len(fs) : fs[k].name = fs[l].name => k = l
    BY DistinctNames
  <2>2. \A k \in 1..Len(new) : (IF k < n THEN k ELSE k + 1) \in 1..Len(fs)
    BY <1>0, <1>3
  <2>3. \A k, l \in 1..Len(new) : new[k].name = new[l].name => k = l
    <3> TAKE k, l \in 1..Len(new)
    <3> HAVE new[k].name = new[l].name
    <3>1. (IF k < n THEN k ELSE k + 1) = (IF l < n THEN l ELSE l + 1)
      BY <1>4, <2>1, <2>2
    <3> QED BY <1>0, <1>3, <3>1
  <2> QED BY <1>3, <2>3, DistinctNames
<1>6. \A k \in 1..Len(new) : \E l \in 1..Len(fs) : l # n /\ new[k] = fs[l]
  <2> TAKE k \in 1..Len(new)
  <2>1. (IF k < n THEN k ELSE k + 1) \in 1..Len(fs)
        /\ (IF k < n THEN k ELSE k + 1) # n
    BY <1>0, <1>3
  <2> QED BY <1>4, <2>1
<1>7. RemoveAt(fs, n) = new
  BY DEF RemoveAt, new, a, b
<1> QED BY <1>3, <1>5, <1>6, <1>7

\* The list of the files found is a list of entries, each file once.
LEMMA FoundList ==
    ASSUME NEW S \in SUBSET Names, NEW order \in SetToSeqs(S)
    PROVE  LET new == [k \in DOMAIN order |-> Found(order[k])] IN
           /\ new \in Seq(Entry) /\ Distinct(new)
           /\ \A k \in DOMAIN new : new[k].real = Dummy /\ new[k].action = "UNDEFINED"
<1> DEFINE n == Cardinality(S)
           new == [k \in DOMAIN order |-> Found(order[k])]
<1>1. n \in Nat
  BY FileListAssumption, FS_Subset, FS_CardinalityType
<1>2. order \in [1..n -> S] /\ \A k, l \in 1..n : k # l => order[k] # order[l]
  BY DEF SetToSeqs
<1>3. \A x \in Names : Found(x) \in Entry /\ Found(x).name = x
                       /\ Found(x).real = Dummy /\ Found(x).action = "UNDEFINED"
  BY DEF Found, Entry, AllChecks
<1>4. new \in [1..n -> Entry] /\ \A k \in 1..n : new[k] = Found(order[k])
  BY <1>2, <1>3
<1> HIDE DEF new, n
<1>5. new \in Seq(Entry) /\ Len(new) = n
  BY <1>1, <1>4
<1>6. Distinct(new)
  BY <1>2, <1>3, <1>4, <1>5, DistinctNames
<1> QED BY <1>2, <1>3, <1>4, <1>5, <1>6 DEF new

-------------------------------------------------------------------------------
(* The steps that change one entry *)

\* Checks that the code computes are checks an entry may hold.
LEMMA ChecksTyped ==
    /\ \A c \in Contents \cup {Partial} : ChecksOf(c) \in AllChecks
    /\ \A c \in AllChecks : [c EXCEPT !.crc = 0] \in AllChecks
<1>1. \A c \in Contents : c \in [size : Nat \ {0}, crc : Nat]
  BY FileManagerAssumption
<1>2. \A c \in Contents : [[c EXCEPT !.crc = 0] EXCEPT !.crc = 0] = [c EXCEPT !.crc = 0]
  BY <1>1
<1>3. ASSUME NEW c \in Contents PROVE ChecksOf(c) \in AllChecks
  BY DEF AllChecks
<1>4. ChecksOf(Partial) \in AllChecks
  BY DEF ChecksOf, Partial, Dummy, AllChecks
<1>5. ASSUME NEW c \in Contents PROVE [c EXCEPT !.crc = 0] \in AllChecks
  BY DEF AllChecks
<1>6. ASSUME NEW c \in Contents PROVE [ChecksOf(c) EXCEPT !.crc = 0] \in AllChecks
  BY <1>2, <1>5 DEF ChecksOf
<1>7. /\ [Dummy EXCEPT !.crc = 0] \in AllChecks
      /\ [[size |-> 0, crc |-> 1] EXCEPT !.crc = 0] \in AllChecks
  BY DEF Dummy, AllChecks
<1>8. ASSUME NEW c \in AllChecks PROVE [c EXCEPT !.crc = 0] \in AllChecks
  <2>1. \/ c \in Contents
        \/ c = Dummy \/ c = [size |-> 0, crc |-> 1]
        \/ \E d \in Contents : c = ChecksOf(d)
        \/ \E d \in Contents : c = [d EXCEPT !.crc = 0]
    BY DEF AllChecks
  <2> QED BY <2>1, <1>2, <1>5, <1>6, <1>7
<1> QED BY <1>3, <1>4, <1>8

\* The list is one of entries, each file once.
TypedList == files \in Seq(Entry) /\ Distinct(files)

\* The file of the slot at hand is in the list, due.
SlotsEntry ==
    /\ Find(files, slots[i]) \in 1..Len(files)
    /\ files[Find(files, slots[i])].name = slots[i]
    /\ files[Find(files, slots[i])].action \in {"DOWNLOAD", "VERIFY"}

\* A slot that is being started holds a file of the list.
LEMMA SlotInList == IInv /\ pc = "starting" => SlotsEntry
<1> SUFFICES ASSUME IInv, pc = "starting" PROVE SlotsEntry
  OBVIOUS
<1>1. /\ files \in Seq(Entry) /\ Distinct(files) /\ i \in 1..MaxActive
      /\ slots[i] \in Names
  BY DEF IInv, TypeOK, SlotInv, Distinct
<1>2. slots[i] \in InUse
  BY <1>1 DEF IInv, SlotInv
<1>3. PICK k \in DOMAIN files :
         files[k].name = slots[i] /\ files[k].action \in {"DOWNLOAD", "VERIFY"}
  BY <1>2 DEF IInv, SlotInv
<1>4. k \in 1..Len(files)
  BY <1>1
<1> DEFINE p == Find(files, slots[i])
<1>5. p \in 0..Len(files)
  BY <1>1, FindFirst
<1>6. p # 0 => files[p].name = slots[i]
  BY <1>1, FindFirst
<1>7. p = 0 => \A j \in 1..Len(files) : files[j].name # slots[i]
  BY <1>1, FindFirst
<1>8. p # 0
  BY <1>3, <1>4, <1>7
<1>9. p \in 1..Len(files)
  BY <1>1, <1>5, <1>8, LenProperties
<1>10. p = k
  BY <1>1, <1>3, <1>4, <1>6, <1>8, <1>9, DistinctNames
<1> QED BY <1>3, <1>9, <1>10 DEF SlotsEntry

\* Changing what one entry says of its file keeps the list one of entries.
LEMMA ListKept ==
    ASSUME TypedList, NEW n \in 1..Len(files), NEW e \in Entry,
           e.name = files[n].name, files' = [files EXCEPT ![n] = e]
    PROVE  /\ TypedList' /\ Len(files') = Len(files)
           /\ \A k \in 1..Len(files) : files'[k] = IF k = n THEN e ELSE files[k]
<1>1. files' \in Seq(Entry) /\ Len(files') = Len(files)
  BY ReplaceEntry DEF TypedList
<1>2. Distinct(files')
  BY ReplaceEntry DEF TypedList
<1>3. \A k \in 1..Len(files) : files'[k] = IF k = n THEN e ELSE files[k]
  BY ReplaceEntry DEF TypedList
<1> QED BY <1>1, <1>2, <1>3 DEF TypedList

\* What the actions that change one entry write.
LEMMA AcceptedList ==
    ASSUME IInv, StartAccepted
    PROVE  \E n \in 1..Len(files), e \in Entry :
              /\ n = Find(files, slots[i]) /\ e = [files[n] EXCEPT !.action = "VERIFY"]
              /\ files[n].name = slots[i] /\ files[n].action \in {"DOWNLOAD", "VERIFY"}
              /\ e.name = files[n].name /\ e.target = files[n].target
              /\ e.real = files[n].real /\ e.action = "VERIFY"
              /\ files' = [files EXCEPT ![n] = e]
<1>1. pc = "starting"
  BY DEF StartAccepted
<1>2. SlotsEntry
  BY <1>1, SlotInList
<1> DEFINE n == Find(files, slots[i])
<1>3. n \in 1..Len(files) /\ files[n] \in Entry
  BY <1>2, ElementOfSeq DEF IInv, TypeOK, SlotsEntry
<1>4. PICK e \in Entry : e = [files[n] EXCEPT !.action = "VERIFY"]
  BY <1>3, EntryFields
<1>5. /\ e.name = files[n].name /\ e.target = files[n].target
      /\ e.real = files[n].real /\ e.action = "VERIFY"
  BY <1>3, <1>4, EntryFields
<1>6. files' = [files EXCEPT ![n] = e]
  BY <1>4 DEF StartAccepted
<1> QED BY <1>2, <1>3, <1>4, <1>5, <1>6 DEF SlotsEntry

LEMMA PassedList ==
    ASSUME IInv, NEW readable \in BOOLEAN, VerifyPasses(readable)
    PROVE  \E e \in Entry :
              /\ i \in 1..Len(files)
              /\ e.name = files[i].name /\ e.target = files[i].target
              /\ e.action = files[i].action
              /\ files' = [files EXCEPT ![i] = e]
<1>1. i \in 1..Len(files) /\ files[i] \in Entry
  BY ElementOfSeq DEF IInv, TypeOK, SlotInv, VerifyPasses, Verifying
<1>2. files[i].name \in Names
  BY <1>1, EntryFields
<1>3. ChecksOf(disk[files[i].name]) \in AllChecks
  BY <1>2, ChecksTyped DEF VerifyPasses, Synchronized, IInv, TypeOK
<1>4. PICK e \in Entry : e = [files[i] EXCEPT !.real = ChecksOf(disk[files[i].name])]
  BY <1>1, <1>3, EntryFields
<1>5. e.name = files[i].name /\ e.target = files[i].target
      /\ e.action = files[i].action
  BY <1>1, <1>3, <1>4, EntryFields
<1>6. files' = [files EXCEPT ![i] = e]
  BY <1>4 DEF VerifyPasses
<1> QED BY <1>1, <1>5, <1>6

LEMMA FailedList ==
    ASSUME IInv, NEW readable \in BOOLEAN, VerifyFails(readable)
    PROVE  \E e \in Entry :
              /\ i \in 1..Len(files)
              /\ e.name = files[i].name /\ e.target = files[i].target
              /\ e.action = "DOWNLOAD"
              /\ files' = [files EXCEPT ![i] = e]
<1>1. i \in 1..Len(files) /\ files[i] \in Entry
  BY ElementOfSeq DEF IInv, TypeOK, SlotInv, VerifyFails, Verifying
<1>2. files[i].name \in Names /\ files[i].real \in AllChecks
  BY <1>1, EntryFields
<1> DEFINE checks == IF readable /\ disk[files[i].name] # NoFile
                     THEN ChecksOf(disk[files[i].name])
                     ELSE [files[i].real EXCEPT !.crc = 0]
<1>3. checks \in AllChecks
  BY <1>2, ChecksTyped DEF IInv, TypeOK
<1>4. PICK e1 \in Entry : e1 = [files[i] EXCEPT !.action = "DOWNLOAD"]
  BY <1>1, EntryFields
<1>5. e1.name = files[i].name /\ e1.target = files[i].target /\ e1.action = "DOWNLOAD"
  BY <1>1, <1>4, EntryFields
<1>6. PICK e \in Entry : e = [e1 EXCEPT !.real = checks]
  BY <1>3, EntryFields
<1>7. e.name = e1.name /\ e.target = e1.target /\ e.action = e1.action
  BY <1>3, <1>6, EntryFields
<1>8. files' = [files EXCEPT ![i] = e]
  BY <1>4, <1>6, <1>1 DEF VerifyFails, Entry
<1> QED BY <1>1, <1>5, <1>7, <1>8

-------------------------------------------------------------------------------
(* The types *)

\* Every step leaves a list of entries, each file once, and no shorter than the
\* place of the download loop.
LEMMA ListTyped ==
    ASSUME IInv, [Next]_vars
    PROVE  TypedList' /\ last <= Len(files')
<1>0. TypedList /\ Len(files) \in Nat /\ last \in Nat /\ last <= Len(files)
  BY LenProperties DEF IInv, TypeOK, TypedList, Distinct
<1>1. CASE UNCHANGED files
  BY <1>0, <1>1 DEF TypedList
<1>2. CASE ScanPath
  <2>1. last = 0
    BY <1>2 DEF ScanPath, IInv, SlotInv
  <2>2. PICK order \in SetToSeqs({n \in Names : disk[n] # NoFile}) :
           files' = [k \in DOMAIN order |-> Found(order[k])]
    BY <1>2 DEF ScanPath
  <2>3. TypedList'
    BY <2>2, FoundList DEF TypedList
  <2> QED BY <2>1, <2>3, LenProperties DEF TypedList
<1>3. CASE Prepare
  <2>1. /\ PreprocessFiles(files) \in Seq(Entry) /\ Distinct(PreprocessFiles(files))
        /\ Len(PreprocessFiles(files)) = Len(files)
    BY <1>0, PreprocessList DEF TypedList
  <2>2. files' = PreprocessFiles(files)
    BY <1>3, <2>1, SortKeepsList DEF Prepare
  <2> QED BY <1>0, <2>1, <2>2 DEF TypedList
<1>4. ASSUME NEW n \in Names, ApplyIgnoreLine(n)
      PROVE  TypedList' /\ Len(files') = Len(files)
  <2>1. files' = AddIgnoredFile(files, n)
    BY <1>4 DEF ApplyIgnoreLine
  <2> QED BY <1>0, <2>1, IgnoreList DEF TypedList
<1>5. ASSUME NEW n \in Names, NEW t \in Targets, NEW readable \in BOOLEAN,
             ApplyFileLine(n, t, readable)
      PROVE  TypedList' /\ Len(files') >= Len(files)
  <2>1. files' = UpdateFileInfo(files, n, t, Checks(n, readable))
    BY <1>5 DEF ApplyFileLine
  <2>2. Checks(n, readable) \in AllChecks
    BY ChecksTyped DEF Checks, AllChecks
  <2> QED BY <1>0, <2>1, <2>2, UpdateList DEF TypedList
<1>6. CASE DeleteUnlisted
  <2>1. last = 0 /\ i \in 1..Len(files) /\ files' = RemoveAt(files, i)
    BY <1>0, <1>6 DEF DeleteUnlisted, Classifying, IInv, TypeOK, SlotInv
  <2>2. TypedList'
    BY <1>0, <2>1, EraseEntry DEF TypedList
  <2> QED BY <2>1, <2>2, LenProperties DEF TypedList
<1>7. CASE StartAccepted
  <2>1. TypedList' /\ Len(files') = Len(files)
    BY <1>0, <1>7, AcceptedList, ListKept
  <2> QED BY <1>0, <2>1
<1>8. ASSUME NEW readable \in BOOLEAN, VerifyPasses(readable)
      PROVE  TypedList' /\ Len(files') = Len(files)
  BY <1>0, <1>8, PassedList, ListKept
<1>9. ASSUME NEW readable \in BOOLEAN, VerifyFails(readable)
      PROVE  TypedList' /\ Len(files') = Len(files)
  BY <1>0, <1>9, FailedList, ListKept
<1>10. CASE BuildList
  BY <1>0, <1>2, <1>3, <1>4, <1>5, <1>10 DEF BuildList
<1>11. CASE ActualizeFiles
  BY <1>0, <1>1, <1>6, <1>7, <1>8, <1>9, <1>11
     DEF ActualizeFiles, CountDownload, PassEntry, ClassifyFails, BeginDownloads, Round,
         FillSlot, StartDownload, StartRefused, EmptySlot, BusySlot, FreeSlot, RoundEnds,
         StopSlot, StopsRequested, DeleteSlot, DownloadsEnd, VerifyStarts,
         NothingToVerify, VerifyFindsUnstarted, VerifyEnds, ActualizeReturns,
         VerifyNext, lists
<1> QED BY <1>1, <1>10, <1>11
        DEF Next, Downloads, Transfer, TransferSettles, UserCancels, LibraryRefuses,
            lists, vars

\* The other variables keep their types, in four groups.
DiskTyped == disk \in [Names -> Contents \cup {NoFile, Partial}]
FlagsTyped ==
    /\ finished \in BOOLEAN /\ result \in BOOLEAN /\ cancelled \in BOOLEAN
    /\ refused \subseteq Names
NumbersTyped ==
    /\ lines \in 0..MaxLines /\ dlSize \in Nat /\ i \in Nat /\ last \in 0..Len(files)
    /\ pc = "classify" => i <= Len(files) + 2
PlacesTyped ==
    /\ pc \in {"scan", "lists", "classify", "round", "slot", "start", "starting",
               "stop", "delete", "verify", "verifying", "end", "done"}
    /\ slots \in [1..MaxActive -> Names \cup {Free}]
    /\ pc \in {"start", "starting"} => i <= MaxActive /\ slots[i] \in Names

LEMMA TypeParts ==
    TypeOK <=> TypedList /\ DiskTyped /\ FlagsTyped /\ NumbersTyped /\ PlacesTyped
  BY DEF TypeOK, TypedList, Distinct, DiskTyped, FlagsTyped, NumbersTyped, PlacesTyped

LEMMA DiskNext == ASSUME IInv, [Next]_vars PROVE DiskTyped'
<1>0. TypedList /\ DiskTyped
  BY TypeParts DEF IInv
<1>1. CASE UNCHANGED disk
  BY <1>0, <1>1 DEF DiskTyped
<1>2. CASE DeleteUnlisted
  BY <1>0, <1>2 DEF DeleteUnlisted, DiskTyped
<1>3. ASSUME NEW f \in Names, Transfer(f) PROVE DiskTyped'
  <2>1. PICK content \in Contents \cup {disk[f], Partial} :
           disk' = [disk EXCEPT ![f] = content]
    BY <1>3 DEF Transfer
  <2> QED BY <1>0, <2>1 DEF DiskTyped
<1> QED BY <1>1, <1>2, <1>3
    DEF vars, Next, BuildList, Downloads, ScanPath, Prepare, ApplyIgnoreLine,
         ApplyFileLine, ActualizeFiles, CountDownload, PassEntry, ClassifyFails,
         BeginDownloads, Round, FillSlot, StartDownload, StartAccepted, StartRefused,
         EmptySlot, BusySlot, FreeSlot, RoundEnds, StopSlot, StopsRequested, DeleteSlot,
         DownloadsEnd, VerifyStarts, NothingToVerify, VerifyFindsUnstarted, VerifyEnds,
         ActualizeReturns, VerifyPasses, VerifyFails, VerifyNext, TransferSettles,
         UserCancels, LibraryRefuses

LEMMA FlagsNext == ASSUME IInv, [Next]_vars PROVE FlagsTyped'
<1>0. FlagsTyped
  BY TypeParts DEF IInv
<1>1. finished' \in {finished, TRUE, FALSE}
  BY DEF FinishedStaysFalse, DeleteUnlisted, Classifying, Transfer, vars, loop, Next,
     BuildList, Downloads, ScanPath, Prepare, ApplyIgnoreLine,
         ApplyFileLine, ActualizeFiles, CountDownload, PassEntry, ClassifyFails,
         BeginDownloads, Round, FillSlot, StartDownload, StartAccepted, StartRefused,
         EmptySlot, BusySlot, FreeSlot, RoundEnds, StopSlot, StopsRequested, DeleteSlot,
         DownloadsEnd, VerifyStarts, NothingToVerify, VerifyFindsUnstarted, VerifyEnds,
         ActualizeReturns, VerifyPasses, VerifyFails, VerifyNext, TransferSettles,
         UserCancels, LibraryRefuses
<1>2. cancelled' \in {cancelled, TRUE}
  BY DEF DeleteUnlisted, Classifying, Transfer, vars, loop, Next, BuildList, Downloads,
     ScanPath, Prepare, ApplyIgnoreLine,
         ApplyFileLine, ActualizeFiles, CountDownload, PassEntry, ClassifyFails,
         BeginDownloads, Round, FillSlot, StartDownload, StartAccepted, StartRefused,
         EmptySlot, BusySlot, FreeSlot, RoundEnds, StopSlot, StopsRequested, DeleteSlot,
         DownloadsEnd, VerifyStarts, NothingToVerify, VerifyFindsUnstarted, VerifyEnds,
         ActualizeReturns, VerifyPasses, VerifyFails, VerifyNext, TransferSettles,
         UserCancels, LibraryRefuses
<1>3. refused' = refused \/ \E g \in Names : refused' = refused \cup {g}
  BY DEF DeleteUnlisted, Classifying, Transfer, vars, loop, Next, BuildList, Downloads,
     ScanPath, Prepare, ApplyIgnoreLine,
         ApplyFileLine, ActualizeFiles, CountDownload, PassEntry, ClassifyFails,
         BeginDownloads, Round, FillSlot, StartDownload, StartAccepted, StartRefused,
         EmptySlot, BusySlot, FreeSlot, RoundEnds, StopSlot, StopsRequested, DeleteSlot,
         DownloadsEnd, VerifyStarts, NothingToVerify, VerifyFindsUnstarted, VerifyEnds,
         ActualizeReturns, VerifyPasses, VerifyFails, VerifyNext, TransferSettles,
         UserCancels, LibraryRefuses
<1> DEFINE B == result' \in BOOLEAN
<1>4. ASSUME ClassifyFails PROVE B
  BY <1>4 DEF ClassifyFails
<1>5. ASSUME BeginDownloads PROVE B
  BY <1>5 DEF BeginDownloads, CallbackResult
<1>6. ASSUME StartAccepted PROVE B
  BY <1>6 DEF StartAccepted
<1>7. ASSUME StartRefused PROVE B
  BY <1>7 DEF StartRefused
<1>8. ASSUME FreeSlot PROVE B
  BY <1>8 DEF FreeSlot
<1>9. ASSUME RoundEnds PROVE B
  BY <1>9 DEF RoundEnds, CallbackResult
<1>10. ASSUME VerifyStarts PROVE B
  BY <1>10 DEF VerifyStarts, CallbackResult
<1>11. ASSUME NothingToVerify PROVE B
  BY <1>11 DEF NothingToVerify, VerifyNext, CallbackResult
<1>12. ASSUME VerifyFindsUnstarted PROVE B
  BY <1>12 DEF VerifyFindsUnstarted, VerifyNext
<1>13. ASSUME ActualizeReturns PROVE B
  BY <1>13 DEF ActualizeReturns
<1>14. ASSUME NEW readable \in BOOLEAN, VerifyPasses(readable) \/ VerifyFails(readable)
       PROVE  B
  BY <1>14 DEF VerifyPasses, VerifyFails, VerifyNext, CallbackResult
<1>15. \/ result' = result \/ ClassifyFails \/ BeginDownloads \/ StartAccepted
       \/ StartRefused \/ FreeSlot \/ RoundEnds \/ VerifyStarts \/ NothingToVerify
       \/ VerifyFindsUnstarted \/ ActualizeReturns
       \/ \E readable \in BOOLEAN : VerifyPasses(readable) \/ VerifyFails(readable)
  BY DEF Next, BuildList, Downloads, ActualizeFiles, ScanPath, Prepare, ApplyIgnoreLine,
     ApplyFileLine, DeleteUnlisted, Classifying, CountDownload, PassEntry, Round,
     FillSlot, StartDownload, EmptySlot, BusySlot, StopSlot, StopsRequested, DeleteSlot,
     DownloadsEnd, VerifyEnds, Transfer, TransferSettles, UserCancels, LibraryRefuses,
     vars, loop
<1>16. B
  BY <1>0, <1>4, <1>5, <1>6, <1>7, <1>8, <1>9, <1>10, <1>11, <1>12, <1>13, <1>14, <1>15
     DEF FlagsTyped
<1> QED BY <1>0, <1>1, <1>2, <1>3, <1>16 DEF FlagsTyped

LEMMA NumbersNext == ASSUME IInv, [Next]_vars PROVE NumbersTyped'
<1>0. /\ NumbersTyped /\ PlacesTyped /\ TypedList /\ Len(files) \in Nat /\ MaxLines \in Nat
      /\ last <= Len(files') /\ Len(files') \in Nat
  BY TypeParts, ListTyped, LenProperties, FileManagerAssumption DEF IInv, TypedList
<1>1. CASE UNCHANGED vars
  BY <1>0, <1>1 DEF NumbersTyped, vars, lists, loop
<1>2. CASE BuildList
  <2>1. ASSUME ScanPath PROVE NumbersTyped'
    BY <1>0, <2>1 DEF NumbersTyped, ScanPath
  <2>2. ASSUME Prepare PROVE NumbersTyped'
    BY <1>0, <2>2 DEF NumbersTyped, Prepare
  <2>3. ASSUME NEW n \in Names, ApplyIgnoreLine(n) PROVE NumbersTyped'
    BY <1>0, <2>3 DEF NumbersTyped, ApplyIgnoreLine, loop
  <2>4. ASSUME NEW n \in Names, NEW t \in Targets, NEW readable \in BOOLEAN,
               ApplyFileLine(n, t, readable)
        PROVE  NumbersTyped'
    BY <1>0, <2>4 DEF NumbersTyped, ApplyFileLine, loop
  <2> QED BY <1>2, <2>1, <2>2, <2>3, <2>4 DEF BuildList
<1>3. CASE ActualizeFiles
  <2>1. ASSUME DeleteUnlisted PROVE NumbersTyped'
    <3>1. i \in 1..Len(files) /\ files' = RemoveAt(files, i)
      BY <1>0, <2>1 DEF DeleteUnlisted, Classifying, NumbersTyped, IInv, SlotInv
    <3>2. Len(files') = Len(files) - 1
      BY <1>0, <3>1, EraseEntry DEF TypedList
    <3> QED BY <1>0, <2>1, <3>1, <3>2 DEF NumbersTyped, DeleteUnlisted, Classifying
  <2>2. ASSUME CountDownload PROVE NumbersTyped'
    <3>1. i \in 1..Len(files)
      BY <1>0, <2>2 DEF CountDownload, Classifying, NumbersTyped, IInv, SlotInv
    <3>2. files[i] \in Entry
      BY <1>0, <3>1, ElementOfSeq DEF TypedList
    <3>3. files[i].target \in AllChecks
      BY <3>2, EntryFields DEF AllChecks
    <3>4. files[i].target.size \in Nat
      BY <3>3, SizesAreNumbers
    <3> QED BY <1>0, <2>2, <3>4 DEF NumbersTyped, CountDownload, Classifying
  <2>3. ASSUME PassEntry PROVE NumbersTyped'
    BY <1>0, <2>3 DEF NumbersTyped, PassEntry, lists, Classifying
  <2>4. ASSUME ClassifyFails PROVE NumbersTyped'
    BY <1>0, <2>4 DEF NumbersTyped, ClassifyFails, lists, Classifying
  <2>5. ASSUME BeginDownloads PROVE NumbersTyped'
    BY <1>0, <2>5 DEF NumbersTyped, BeginDownloads, lists
  <2>6. ASSUME Round PROVE NumbersTyped'
    BY <1>0, <2>6 DEF NumbersTyped, Round, lists
  <2>7. ASSUME FillSlot PROVE NumbersTyped'
    <3>1. NextDownload \in 0..last
      BY <1>0, NextIsLast DEF TypedList, NumbersTyped
    <3> DEFINE k == NextDownload
    <3>2. last' = k - 1 /\ k # 0 /\ pc' = "start" /\ UNCHANGED <<lists, i>>
      BY <2>7 DEF FillSlot
    <3> HIDE DEF k
    <3>3. last' \in 0..last
      BY <1>0, <3>1, <3>2 DEF k, NumbersTyped
    <3> QED BY <1>0, <3>2, <3>3 DEF NumbersTyped, lists
  <2>8. ASSUME StartDownload PROVE NumbersTyped'
    BY <1>0, <2>8 DEF NumbersTyped, StartDownload, lists
  <2>9. ASSUME StartAccepted PROVE NumbersTyped'
    BY <1>0, <2>9 DEF NumbersTyped, StartAccepted, lists
  <2>10. ASSUME StartRefused PROVE NumbersTyped'
    BY <1>0, <2>10 DEF NumbersTyped, StartRefused, lists
  <2>11. ASSUME EmptySlot PROVE NumbersTyped'
    BY <1>0, <2>11 DEF NumbersTyped, EmptySlot, lists, AtSlot
  <2>12. ASSUME BusySlot PROVE NumbersTyped'
    BY <1>0, <2>12 DEF NumbersTyped, BusySlot, lists, AtSlot
  <2>13. ASSUME FreeSlot PROVE NumbersTyped'
    BY <1>0, <2>13 DEF NumbersTyped, FreeSlot, lists, AtSlot
  <2>14. ASSUME RoundEnds PROVE NumbersTyped'
    BY <1>0, <2>14 DEF NumbersTyped, RoundEnds, lists
  <2>15. ASSUME StopSlot PROVE NumbersTyped'
    BY <1>0, <2>15 DEF NumbersTyped, StopSlot, lists
  <2>16. ASSUME StopsRequested PROVE NumbersTyped'
    BY <1>0, <2>16 DEF NumbersTyped, StopsRequested, lists
  <2>17. ASSUME DeleteSlot PROVE NumbersTyped'
    BY <1>0, <2>17 DEF NumbersTyped, DeleteSlot, lists
  <2>18. ASSUME DownloadsEnd PROVE NumbersTyped'
    BY <1>0, <2>18 DEF NumbersTyped, DownloadsEnd, lists
  <2>19. ASSUME VerifyStarts PROVE NumbersTyped'
    BY <1>0, <2>19 DEF NumbersTyped, VerifyStarts, lists
  <2>20. ASSUME NothingToVerify PROVE NumbersTyped'
    BY <1>0, <2>20 DEF NumbersTyped, NothingToVerify, lists, VerifyNext, Verifying
  <2>21. ASSUME VerifyFindsUnstarted PROVE NumbersTyped'
    BY <1>0, <2>21 DEF NumbersTyped, VerifyFindsUnstarted, lists, VerifyNext, Verifying
  <2>22. ASSUME VerifyEnds PROVE NumbersTyped'
    BY <1>0, <2>22 DEF NumbersTyped, VerifyEnds, lists
  <2>23. ASSUME ActualizeReturns PROVE NumbersTyped'
    BY <1>0, <2>23 DEF NumbersTyped, ActualizeReturns, lists
  <2>24. ASSUME NEW readable \in BOOLEAN, VerifyPasses(readable) \/ VerifyFails(readable)
         PROVE  NumbersTyped'
    BY <1>0, <2>24 DEF NumbersTyped, VerifyPasses, VerifyFails, VerifyNext, Verifying
  <2> QED BY <1>3, <2>1, <2>2, <2>3, <2>4, <2>5, <2>6, <2>7, <2>8, <2>9, <2>10, <2>11,
             <2>12, <2>13, <2>14, <2>15, <2>16, <2>17, <2>18, <2>19, <2>20, <2>21,
             <2>22, <2>23, <2>24 DEF ActualizeFiles
<1>4. CASE Downloads
  BY <1>0, <1>4 DEF NumbersTyped, Downloads, Transfer, TransferSettles,
                         LibraryRefuses, lists, loop
<1>5. CASE Asides
  BY <1>0, <1>5 DEF NumbersTyped, Asides, UserCancels, LibraryRefuses, lists, loop
<1> QED BY <1>1, <1>2, <1>3, <1>4, <1>5 DEF Next, Asides

LEMMA PlacesNext == ASSUME IInv, [Next]_vars PROVE PlacesTyped'
<1>0. /\ NumbersTyped /\ PlacesTyped /\ MaxActive \in Nat
      /\ TypedList /\ Len(files) \in Nat
  BY TypeParts, LenProperties, FileManagerAssumption DEF IInv, TypedList
<1>1. CASE UNCHANGED vars
  BY <1>0, <1>1 DEF PlacesTyped, vars, lists, loop
<1>2. CASE BuildList
  <2>1. ASSUME ScanPath PROVE PlacesTyped'
    BY <1>0, <2>1 DEF PlacesTyped, ScanPath
  <2>2. ASSUME Prepare PROVE PlacesTyped'
    BY <1>0, <2>2 DEF PlacesTyped, Prepare
  <2>3. ASSUME NEW n \in Names, ApplyIgnoreLine(n) PROVE PlacesTyped'
    BY <1>0, <2>3 DEF PlacesTyped, ApplyIgnoreLine, loop
  <2>4. ASSUME NEW n \in Names, NEW t \in Targets, NEW readable \in BOOLEAN,
               ApplyFileLine(n, t, readable)
        PROVE  PlacesTyped'
    BY <1>0, <2>4 DEF PlacesTyped, ApplyFileLine, loop
  <2> QED BY <1>2, <2>1, <2>2, <2>3, <2>4 DEF BuildList
<1>3. CASE ActualizeFiles
  <2>1. ASSUME DeleteUnlisted PROVE PlacesTyped'
    BY <1>0, <2>1 DEF PlacesTyped, DeleteUnlisted, lists, Classifying
  <2>2. ASSUME CountDownload PROVE PlacesTyped'
    BY <1>0, <2>2 DEF PlacesTyped, CountDownload, lists, Classifying, Action
  <2>3. ASSUME PassEntry PROVE PlacesTyped'
    BY <1>0, <2>3 DEF PlacesTyped, PassEntry, lists, Classifying
  <2>4. ASSUME ClassifyFails PROVE PlacesTyped'
    BY <1>0, <2>4 DEF PlacesTyped, ClassifyFails, lists, Classifying
  <2>5. ASSUME BeginDownloads PROVE PlacesTyped'
    BY <1>0, <2>5 DEF PlacesTyped, BeginDownloads, lists
  <2>6. ASSUME Round PROVE PlacesTyped'
    BY <1>0, <2>6 DEF PlacesTyped, Round, lists
  <2>7. ASSUME FillSlot PROVE PlacesTyped'
    <3>1. NextDownload \in 1..Len(files)
      <4>1. NextDownload \in 0..last
        BY <1>0, NextIsLast DEF TypedList, NumbersTyped
      <4> QED BY <1>0, <2>7, <4>1 DEF FillSlot, NumbersTyped
    <3> DEFINE name == files[NextDownload].name
    <3>2. name \in Names
      BY <1>0, <3>1, ElementOfSeq, EntryFields DEF TypedList
    <3>3. /\ i <= MaxActive /\ slots' = [slots EXCEPT ![i] = name]
          /\ pc' = "start" /\ i' = i
      BY <2>7 DEF FillSlot, AtSlot
    <3>4. i \in 1..MaxActive
      BY <1>0, <2>7, <3>3 DEF NumbersTyped, FillSlot, AtSlot, IInv, SlotInv
    <3> HIDE DEF name
    <3> QED BY <1>0, <3>2, <3>3, <3>4 DEF PlacesTyped
  <2>8. ASSUME StartDownload PROVE PlacesTyped'
    BY <1>0, <2>8 DEF PlacesTyped, StartDownload, lists
  <2>9. ASSUME StartAccepted PROVE PlacesTyped'
    BY <1>0, <2>9 DEF PlacesTyped, StartAccepted, lists
  <2>10. ASSUME StartRefused PROVE PlacesTyped'
    BY <1>0, <2>10 DEF PlacesTyped, StartRefused, lists
  <2>11. ASSUME EmptySlot PROVE PlacesTyped'
    BY <1>0, <2>11 DEF PlacesTyped, EmptySlot, lists, AtSlot
  <2>12. ASSUME BusySlot PROVE PlacesTyped'
    BY <1>0, <2>12 DEF PlacesTyped, BusySlot, lists, AtSlot
  <2>13. ASSUME FreeSlot PROVE PlacesTyped'
    BY <1>0, <2>13 DEF PlacesTyped, FreeSlot, lists, AtSlot
  <2>14. ASSUME RoundEnds PROVE PlacesTyped'
    BY <1>0, <2>14 DEF PlacesTyped, RoundEnds, lists
  <2>15. ASSUME StopSlot PROVE PlacesTyped'
    BY <1>0, <2>15 DEF PlacesTyped, StopSlot, lists
  <2>16. ASSUME StopsRequested PROVE PlacesTyped'
    BY <1>0, <2>16 DEF PlacesTyped, StopsRequested, lists
  <2>17. ASSUME DeleteSlot PROVE PlacesTyped'
    BY <1>0, <2>17 DEF PlacesTyped, DeleteSlot, lists
  <2>18. ASSUME DownloadsEnd PROVE PlacesTyped'
    BY <1>0, <2>18 DEF PlacesTyped, DownloadsEnd, lists
  <2>19. ASSUME VerifyStarts PROVE PlacesTyped'
    BY <1>0, <2>19 DEF PlacesTyped, VerifyStarts, lists
  <2>20. ASSUME NothingToVerify PROVE PlacesTyped'
    BY <1>0, <2>20 DEF PlacesTyped, NothingToVerify, lists, VerifyNext, Verifying
  <2>21. ASSUME VerifyFindsUnstarted PROVE PlacesTyped'
    BY <1>0, <2>21 DEF PlacesTyped, VerifyFindsUnstarted, lists, VerifyNext, Verifying
  <2>22. ASSUME VerifyEnds PROVE PlacesTyped'
    BY <1>0, <2>22 DEF PlacesTyped, VerifyEnds, lists
  <2>23. ASSUME ActualizeReturns PROVE PlacesTyped'
    BY <1>0, <2>23 DEF PlacesTyped, ActualizeReturns, lists
  <2>24. ASSUME NEW readable \in BOOLEAN, VerifyPasses(readable) \/ VerifyFails(readable)
         PROVE  PlacesTyped'
    BY <1>0, <2>24 DEF PlacesTyped, VerifyPasses, VerifyFails, VerifyNext, Verifying
  <2> QED BY <1>3, <2>1, <2>2, <2>3, <2>4, <2>5, <2>6, <2>7, <2>8, <2>9, <2>10, <2>11,
             <2>12, <2>13, <2>14, <2>15, <2>16, <2>17, <2>18, <2>19, <2>20, <2>21,
             <2>22, <2>23, <2>24 DEF ActualizeFiles
<1>4. CASE Downloads
  BY <1>0, <1>4 DEF PlacesTyped, Downloads, Transfer, TransferSettles,
                         LibraryRefuses, lists, loop
<1>5. CASE Asides
  BY <1>0, <1>5 DEF PlacesTyped, Asides, UserCancels, LibraryRefuses, lists, loop
<1> QED BY <1>1, <1>2, <1>3, <1>4, <1>5 DEF Next, Asides

LEMMA TypeNext == ASSUME IInv, [Next]_vars PROVE TypeOK'
<1>1. TypedList' /\ DiskTyped' /\ FlagsTyped' /\ NumbersTyped' /\ PlacesTyped'
  BY ListTyped, DiskNext, FlagsNext, NumbersNext, PlacesNext
<1>2. (TypedList /\ DiskTyped /\ FlagsTyped /\ NumbersTyped /\ PlacesTyped)' => TypeOK'
  BY TypeParts, PTL
<1> QED BY <1>1, <1>2

-------------------------------------------------------------------------------
(* The list and the disk *)

\* The parts of the invariant and the types they rest on, for the proofs below.
LEMMA Typed ==
    ASSUME IInv
    PROVE  /\ files \in Seq(Entry) /\ Len(files) \in Nat /\ DOMAIN files = 1..Len(files)
           /\ \A k, l \in 1..Len(files) : files[k].name = files[l].name => k = l
           /\ \A k \in 1..Len(files) : files[k] \in Entry /\ files[k].name \in Names
           /\ disk \in [Names -> Contents \cup {NoFile, Partial}]
           /\ slots \in [1..MaxActive -> Names \cup {Free}]
           /\ i \in Nat /\ last \in 0..Len(files) /\ MaxActive \in Nat \ {0}
           /\ Free \notin Names
<1>1. TypedList /\ DiskTyped /\ NumbersTyped /\ PlacesTyped
  BY TypeParts DEF IInv
<1>2. \A k \in 1..Len(files) : files[k] \in Entry
  BY <1>1, ElementOfSeq DEF TypedList
<1>3. \A k \in 1..Len(files) : files[k].name \in Names
  BY <1>2, EntryFields
<1>4. \A k, l \in 1..Len(files) : files[k].name = files[l].name => k = l
  BY <1>1, DistinctNames DEF TypedList
<1> QED BY <1>1, <1>2, <1>3, <1>4, LenProperties, FileManagerAssumption
        DEF TypedList, DiskTyped, NumbersTyped, PlacesTyped

\* A content the lists can ask for is not an empty file.
LEMMA RealSizes ==
    /\ \A c \in Contents : c # NoFile /\ c.size # 0 /\ c.size \in Nat
    /\ \A c \in Contents : ChecksOf(c).size = c.size
  BY FileManagerAssumption DEF NoFile, ChecksOf

\* Where neither the list nor the disk changes, what was said of them stays.
LEMMA ListStill ==
    ASSUME ListInv, UNCHANGED <<files, disk>>,
           pc' = "lists" => pc = "lists",
           pc \in {"scan", "lists"} => pc' \in {"scan", "lists"}
    PROVE  ListInv'
  BY DEF ListInv, AsListed

\* ListInv, one action after the other.
LEMMA ScanLists == ASSUME IInv, ScanPath PROVE ListInv'
<1>1. PICK order \in SetToSeqs({n \in Names : disk[n] # NoFile}) :
         files' = [k \in DOMAIN order |-> Found(order[k])]
  BY DEF ScanPath
<1>2. \A k \in DOMAIN files' :
         files'[k].real = Dummy /\ files'[k].action = "UNDEFINED"
  BY <1>1, FoundList
<1>3. pc' = "lists"
  BY DEF ScanPath
<1> QED BY <1>2, <1>3 DEF ListInv

LEMMA LineLists ==
    ASSUME IInv, NEW name \in Names, NEW t \in Targets, NEW readable \in BOOLEAN,
           ApplyFileLine(name, t, readable)
    PROVE  ListInv'
<1> DEFINE c == Checks(name, readable)
<1>0. /\ TypedList /\ ListInv /\ DOMAIN files = 1..Len(files)
      /\ pc = "lists" /\ pc' = "lists" /\ disk' = disk
      /\ files' = UpdateFileInfo(files, name, t, c)
  BY Typed, TypeParts DEF IInv, ApplyFileLine, loop
<1>1. /\ c \in AllChecks
      /\ c # Dummy => disk[name] \in Contents /\ c = ChecksOf(disk[name])
  BY ChecksTyped DEF Checks, AllChecks
<1>2. /\ t \in Contents /\ t.size # 0
  BY FileManagerAssumption, RealSizes
<1> HIDE DEF c
<1>3. /\ DOMAIN files' = 1..Len(files')
      /\ \A k \in 1..Len(files') :
                 \/ k \in 1..Len(files) /\ files'[k] = files[k]
                 \/ /\ files'[k].name = name /\ files'[k].target = t
                    /\ files'[k].action \in {"NO", "DOWNLOAD"}
                    /\ files'[k].action = "NO" => CompareFiles(files'[k].real, t)
                    /\ \/ files'[k].real \in {Dummy, c}
                       \/ /\ k \in 1..Len(files) /\ files[k].name = name
                          /\ files'[k].real = files[k].real
  BY <1>0, <1>1, UpdateList DEF TypedList
<1>4. ASSUME NEW k \in 1..Len(files')
      PROVE  /\ files'[k].real # Dummy =>
                  /\ disk[files'[k].name] \in Contents
                  /\ files'[k].real = ChecksOf(disk[files'[k].name])
             /\ files'[k].action = "NO" => AsListed(k)'
  <2>1. CASE k \in 1..Len(files) /\ files'[k] = files[k]
    BY <1>0, <2>1 DEF ListInv, AsListed
  <2>2. CASE ~(k \in 1..Len(files) /\ files'[k] = files[k])
    <3>1. /\ files'[k].name = name /\ files'[k].target = t
          /\ files'[k].action = "NO" => CompareFiles(files'[k].real, t)
          /\ \/ files'[k].real \in {Dummy, c}
             \/ /\ k \in 1..Len(files) /\ files[k].name = name
                /\ files'[k].real = files[k].real
      BY <1>3, <2>2
    <3>2. files'[k].real # Dummy =>
             disk[name] \in Contents /\ files'[k].real = ChecksOf(disk[name])
      BY <1>0, <1>1, <3>1 DEF ListInv
    <3>3. files'[k].action = "NO" => files'[k].real # Dummy
      BY <1>2, <3>1 DEF CompareFiles, Dummy
    <3>4. files'[k].action = "NO" => AsListed(k)'
      BY <1>0, <3>1, <3>2, <3>3, RealSizes DEF AsListed
    <3> QED BY <3>1, <3>2, <3>4
  <2> QED BY <2>1, <2>2
<1> QED BY <1>0, <1>3, <1>4 DEF ListInv

\* An entry marked to be ignored keeps all else.
LEMMA IgnoredFields ==
    ASSUME NEW e \in Entry, NEW d \in {e, [e EXCEPT !.action = "IGNORE"]}
    PROVE  /\ d.name = e.name /\ d.target = e.target /\ d.real = e.real
           /\ d.action \in {e.action, "IGNORE"}
<1>1. CASE d = e
  BY <1>1
<1>2. CASE d = [e EXCEPT !.action = "IGNORE"]
  <2>1. d.name = e.name /\ d.target = e.target /\ d.real = e.real /\ d.action = "IGNORE"
    BY <1>2 DEF Entry
  <2> QED BY <2>1
<1> QED BY <1>1, <1>2

LEMMA IgnoreLists ==
    ASSUME IInv, NEW name \in Names, ApplyIgnoreLine(name)
    PROVE  ListInv'
<1>0. /\ TypedList /\ ListInv /\ DOMAIN files = 1..Len(files)
      /\ pc = "lists" /\ pc' = "lists" /\ disk' = disk
      /\ files' = AddIgnoredFile(files, name)
      /\ \A k \in 1..Len(files) : files[k] \in Entry
  BY Typed, TypeParts DEF IInv, ApplyIgnoreLine, loop
<1>1. /\ files' \in Seq(Entry) /\ Len(files') = Len(files)
      /\ \A k \in 1..Len(files) :
            files'[k] \in {files[k], [files[k] EXCEPT !.action = "IGNORE"]}
  BY <1>0, IgnoreList DEF TypedList
<1>2. \A k \in 1..Len(files) :
         /\ files'[k].name = files[k].name /\ files'[k].target = files[k].target
         /\ files'[k].real = files[k].real
         /\ files'[k].action \in {files[k].action, "IGNORE"}
  <2> TAKE k \in 1..Len(files)
  <2>1. files[k] \in Entry /\ files'[k] \in {files[k], [files[k] EXCEPT !.action = "IGNORE"]}
    BY <1>0, <1>1
  <2> QED BY <2>1, IgnoredFields
<1> QED BY <1>0, <1>1, <1>2 DEF ListInv, AsListed

LEMMA PrepareLists == ASSUME IInv, Prepare PROVE ListInv'
<1>0. /\ TypedList /\ ListInv /\ DOMAIN files = 1..Len(files)
      /\ pc' = "classify" /\ disk' = disk
      /\ \A k \in 1..Len(files) : files[k] \in Entry
  BY Typed, TypeParts DEF IInv, Prepare
<1>1. /\ PreprocessFiles(files) \in Seq(Entry)
      /\ Len(PreprocessFiles(files)) = Len(files)
      /\ \A k \in 1..Len(files) :
            /\ PreprocessFiles(files)[k] \in {files[k], [files[k] EXCEPT !.action = "IGNORE"]}
            /\ PreprocessFiles(files)[k].name \in ListFiles =>
                  PreprocessFiles(files)[k].action = "IGNORE"
            /\ PreprocessFiles(files)[k].name \in Userdata =>
                  PreprocessFiles(files)[k].action # "UNDEFINED"
  BY <1>0, PreprocessList DEF TypedList
<1>2. files' = PreprocessFiles(files)
  BY <1>1, SortKeepsList DEF Prepare
<1>3. \A k \in 1..Len(files) :
         /\ files'[k].name = files[k].name /\ files'[k].target = files[k].target
         /\ files'[k].action \in {files[k].action, "IGNORE"}
  <2> TAKE k \in 1..Len(files)
  <2>1. files[k] \in Entry /\ files'[k] \in {files[k], [files[k] EXCEPT !.action = "IGNORE"]}
    BY <1>0, <1>1, <1>2
  <2> QED BY <2>1, IgnoredFields
<1>4. files' \in Seq(Entry) /\ Len(files') = Len(files) /\ DOMAIN files' = 1..Len(files)
  BY <1>1, <1>2
<1> QED BY <1>0, <1>1, <1>2, <1>3, <1>4 DEF ListInv, AsListed

LEMMA DeleteLists == ASSUME IInv, DeleteUnlisted PROVE ListInv'
<1>0. /\ TypedList /\ ListInv /\ i \in 1..Len(files)
      /\ pc = "classify" /\ pc' = "classify"
      /\ disk' = [disk EXCEPT ![files[i].name] = NoFile]
      /\ files' = RemoveAt(files, i)
  BY Typed, TypeParts DEF IInv, DeleteUnlisted, Classifying, SlotInv
<1>1. /\ files' \in Seq(Entry)
      /\ \A k \in 1..Len(files') :
            \E l \in 1..Len(files) : l # i /\ files'[k] = files[l]
  BY <1>0, EraseEntry DEF TypedList
<1>2. DOMAIN files' = 1..Len(files') /\ DOMAIN files = 1..Len(files)
  BY <1>1, Typed
<1>3. ASSUME NEW k \in DOMAIN files'
      PROVE  /\ files'[k].action = "NO" => AsListed(k)'
             /\ files'[k].name \in ListFiles => files'[k].action = "IGNORE"
             /\ files'[k].name \in Userdata => files'[k].action # "UNDEFINED"
  <2>1. PICK l \in 1..Len(files) : l # i /\ files'[k] = files[l]
    BY <1>1, <1>2
  <2>2. files[l].name # files[i].name /\ files[l].name \in Names
    BY <1>0, <2>1, Typed
  <2>3. disk'[files[l].name] = disk[files[l].name]
    BY <1>0, <2>2, Typed
  <2> QED BY <1>0, <1>2, <2>1, <2>3 DEF ListInv, AsListed
<1> QED BY <1>0, <1>3 DEF ListInv

\* A step that changes what is to be done with one entry that was due.
LEMMA DueLists ==
    ASSUME IInv, NEW n \in 1..Len(files), NEW e \in Entry,
           e.name = files[n].name, e.action \in {"DOWNLOAD", "VERIFY"},
           files[n].action \in {"DOWNLOAD", "VERIFY"},
           files' = [files EXCEPT ![n] = e], disk' = disk,
           pc \notin {"scan", "lists"}, pc' \notin {"scan", "lists"}
    PROVE  ListInv'
<1>0. TypedList /\ ListInv /\ DOMAIN files = 1..Len(files)
  BY Typed, TypeParts DEF IInv
<1>1. /\ TypedList' /\ Len(files') = Len(files)
      /\ \A k \in 1..Len(files) : files'[k] = IF k = n THEN e ELSE files[k]
  BY <1>0, ListKept
<1>2. DOMAIN files' = 1..Len(files)
  BY <1>1 DEF TypedList
<1>3. ASSUME NEW k \in 1..Len(files)
      PROVE  /\ files'[k].action = "NO" => AsListed(k)'
             /\ files'[k].name \in ListFiles => files'[k].action = "IGNORE"
             /\ files'[k].name \in Userdata => files'[k].action # "UNDEFINED"
  <2>1. CASE k = n
    BY <1>0, <1>1, <2>1 DEF ListInv
  <2>2. CASE k # n
    BY <1>0, <1>1, <2>2 DEF ListInv, AsListed
  <2> QED BY <2>1, <2>2
<1> QED BY <1>2, <1>3 DEF ListInv

LEMMA TransferLists ==
    ASSUME IInv, NEW f \in Names, Transfer(f)
    PROVE  ListInv'
<1>0. /\ ListInv /\ DOMAIN files = 1..Len(files) /\ UNCHANGED <<files, pc>>
      /\ phase[f] = "busy"
  BY Typed DEF IInv, Transfer, Running, lists, loop
<1>1. f \in InUse
  BY <1>0 DEF InUse
<1>2. PICK n \in DOMAIN files :
         files[n].name = f /\ files[n].action \in {"DOWNLOAD", "VERIFY"}
  BY <1>1 DEF IInv, SlotInv
<1>3. pc \notin {"scan", "lists"}
  <2>1. \E k \in 1..MaxActive : slots[k] = f
    BY <1>1 DEF IInv, SlotInv
  <2> QED BY <2>1, Typed DEF IInv, SlotInv, AllFree
<1>4. \A g \in Names : g # f => disk'[g] = disk[g]
  BY Typed DEF Transfer
<1>5. \A k \in DOMAIN files : files[k].action = "NO" => files[k].name # f
  BY <1>0, <1>2, Typed
<1>6. \A k \in DOMAIN files : files[k].action = "NO" => AsListed(k)'
  BY <1>0, <1>4, <1>5, Typed DEF ListInv, AsListed
<1> QED BY <1>0, <1>3, <1>6 DEF ListInv

\* Which steps change the list or the disk.
LEMMA ListSteps ==
    ASSUME [Next]_vars
    PROVE  \/ ScanPath \/ Prepare \/ DeleteUnlisted \/ StartAccepted
           \/ \E n \in Names : ApplyIgnoreLine(n)
           \/ \E n \in Names, t \in Targets, readable \in BOOLEAN :
                 ApplyFileLine(n, t, readable)
           \/ \E readable \in BOOLEAN : VerifyPasses(readable) \/ VerifyFails(readable)
           \/ \E f \in Names : Transfer(f)
           \/ /\ UNCHANGED <<files, disk>>
              /\ pc' = "lists" => pc = "lists"
              /\ pc \in {"scan", "lists"} => pc' \in {"scan", "lists"}
<1> DEFINE Same == /\ UNCHANGED <<files, disk>>
                   /\ pc' = "lists" => pc = "lists"
                   /\ pc \in {"scan", "lists"} => pc' \in {"scan", "lists"}
<1>1. ASSUME CountDownload PROVE Same
  BY <1>1 DEF CountDownload, Classifying
<1>2. ASSUME PassEntry PROVE Same
  BY <1>2 DEF PassEntry, Classifying
<1>3. ASSUME ClassifyFails PROVE Same
  BY <1>3 DEF ClassifyFails, Classifying
<1>4. ASSUME BeginDownloads PROVE Same
  BY <1>4 DEF BeginDownloads, lists
<1>5. ASSUME Round PROVE Same
  BY <1>5 DEF Round, lists
<1>6. ASSUME FillSlot PROVE Same
  BY <1>6 DEF FillSlot, lists, AtSlot
<1>7. ASSUME StartDownload PROVE Same
  BY <1>7 DEF StartDownload, lists
<1>8. ASSUME StartRefused PROVE Same
  BY <1>8 DEF StartRefused, lists
<1>9. ASSUME EmptySlot PROVE Same
  BY <1>9 DEF EmptySlot, lists, AtSlot
<1>10. ASSUME BusySlot PROVE Same
  BY <1>10 DEF BusySlot, lists, AtSlot
<1>11. ASSUME FreeSlot PROVE Same
  BY <1>11 DEF FreeSlot, lists, AtSlot
<1>12. ASSUME RoundEnds PROVE Same
  BY <1>12 DEF RoundEnds, lists
<1>13. ASSUME StopSlot PROVE Same
  BY <1>13 DEF StopSlot, lists
<1>14. ASSUME StopsRequested PROVE Same
  BY <1>14 DEF StopsRequested, lists
<1>15. ASSUME DeleteSlot PROVE Same
  BY <1>15 DEF DeleteSlot, lists
<1>16. ASSUME DownloadsEnd PROVE Same
  BY <1>16 DEF DownloadsEnd, lists
<1>17. ASSUME VerifyStarts PROVE Same
  BY <1>17 DEF VerifyStarts, lists
<1>18. ASSUME NothingToVerify PROVE Same
  BY <1>18 DEF NothingToVerify, VerifyNext, Verifying
<1>19. ASSUME VerifyFindsUnstarted PROVE Same
  BY <1>19 DEF VerifyFindsUnstarted, VerifyNext, Verifying
<1>20. ASSUME VerifyEnds PROVE Same
  BY <1>20 DEF VerifyEnds, lists
<1>21. ASSUME ActualizeReturns PROVE Same
  BY <1>21 DEF ActualizeReturns, lists
<1>22. ASSUME NEW f \in Names, TransferSettles(f) PROVE Same
  BY <1>22 DEF TransferSettles, lists, loop
<1>23. ASSUME Asides \/ UNCHANGED vars PROVE Same
  BY <1>23 DEF Asides, UserCancels, LibraryRefuses, vars, lists, loop
<1> QED BY <1>1, <1>2, <1>3, <1>4, <1>5, <1>6, <1>7, <1>8, <1>9, <1>10, <1>11, <1>12,
           <1>13, <1>14, <1>15, <1>16, <1>17, <1>18, <1>19, <1>20, <1>21, <1>22, <1>23
        DEF Next, BuildList, ActualizeFiles, Downloads, Asides

LEMMA ListNext == ASSUME IInv, [Next]_vars PROVE ListInv'
<1>0. TypedList /\ ListInv
  BY TypeParts DEF IInv
<1>1. ASSUME StartAccepted PROVE ListInv'
  <2>1. PICK n \in 1..Len(files), e \in Entry :
           /\ files[n].action \in {"DOWNLOAD", "VERIFY"}
           /\ e.name = files[n].name /\ e.action = "VERIFY"
           /\ files' = [files EXCEPT ![n] = e]
    BY <1>1, AcceptedList
  <2>2. disk' = disk /\ pc = "starting" /\ pc' = "slot"
    BY <1>1 DEF StartAccepted
  <2> QED BY <2>1, <2>2, DueLists
<1>2. ASSUME NEW readable \in BOOLEAN, VerifyPasses(readable) PROVE ListInv'
  <2>1. PICK e \in Entry :
           /\ i \in 1..Len(files)
           /\ e.name = files[i].name /\ e.action = files[i].action
           /\ files' = [files EXCEPT ![i] = e]
    BY <1>2, PassedList
  <2>2. /\ disk' = disk /\ pc = "verifying" /\ pc' = "verifying"
        /\ files[i].action = "VERIFY"
    BY <1>2 DEF VerifyPasses, VerifyNext, Verifying, Action
  <2> QED BY <2>1, <2>2, DueLists
<1>3. ASSUME NEW readable \in BOOLEAN, VerifyFails(readable) PROVE ListInv'
  <2>1. PICK e \in Entry :
           /\ i \in 1..Len(files)
           /\ e.name = files[i].name /\ e.action = "DOWNLOAD"
           /\ files' = [files EXCEPT ![i] = e]
    BY <1>3, FailedList
  <2>2. /\ disk' = disk /\ pc = "verifying" /\ pc' = "verifying"
        /\ files[i].action = "VERIFY"
    BY <1>3 DEF VerifyFails, VerifyNext, Verifying, Action
  <2> QED BY <2>1, <2>2, DueLists
<1> QED BY <1>0, <1>1, <1>2, <1>3, ListSteps, ListStill, ScanLists, LineLists,
           IgnoreLists, PrepareLists, DeleteLists, TransferLists

-------------------------------------------------------------------------------
(* The slots *)

ServiceTyped ==
    /\ phase \in [Names -> {"none", "idle", "busy", "gone"}]
    /\ started \in [Names -> BOOLEAN] /\ complete \in [Names -> BOOLEAN]
    /\ outcome \in [Names -> {"DOWNLOAD_SUCCESS", "DOWNLOAD_ERROR"}]

\* Each live download is that of one slot.
SlotsApart ==
    /\ \A k, l \in 1..MaxActive : slots[k] # Free /\ slots[k] = slots[l] => k = l
    /\ \A f \in Names : f \in InUse <=> \E k \in 1..MaxActive : slots[k] = f

SlotsDue ==
    \A f \in InUse : \E k \in DOMAIN files :
        files[k].name = f /\ files[k].action \in {"DOWNLOAD", "VERIFY"}

SlotsWhere ==
    /\ pc \in {"scan", "lists", "classify"} => AllFree /\ last = 0
    /\ pc = "delete" => FreeBefore
    /\ pc \in Settled => AllFree
    /\ pc \notin {"scan", "lists"} => i >= 1

\* The parts of SlotInv, and what they say where every slot is free.
LEMMA SlotParts ==
    SlotInv <=> ServiceTyped /\ SlotsApart /\ SlotsDue /\ SlotsWhere
  BY DEF SlotInv, ServiceTyped, SlotsApart, SlotsDue, SlotsWhere

LEMMA NoneInUse == ASSUME IInv, AllFree PROVE InUse = {}
  BY Typed DEF IInv, SlotInv, AllFree, InUse

\* Every step is a step of the downloads as their service allows it, or leaves
\* them alone.
LEMMA ServiceStep == ASSUME IInv, [Next]_vars PROVE [Dl!Next]_(Dl!vars)
<1>0. /\ \A k \in 1..MaxActive : slots[k] \in Names \cup {Free}
      /\ pc \in {"start", "starting"} => i \in 1..MaxActive /\ slots[i] \in Names
      /\ pc \notin {"scan", "lists"} => i \in Nat /\ i >= 1
  BY TypeParts DEF IInv, PlacesTyped, NumbersTyped, SlotInv
<1> DEFINE Still == UNCHANGED <<phase, started, outcome, complete>>
           Serves == \E f \in Names : \/ Dl!Create(f) \/ Dl!Call(f) \/ Dl!Accept(f)
                                      \/ Dl!Work(f) \/ Dl!Settle(f) \/ Dl!Delete(f)
<1> SUFFICES Still \/ Serves
  BY DEF Dl!Next, Dl!vars
<1>1. ASSUME FillSlot PROVE Serves
  <2>1. NextDownload \in 1..Len(files)
    <3>1. NextDownload \in 0..last
      BY Typed, NextIsLast
    <3> QED BY <1>1, <3>1, Typed DEF FillSlot
  <2>2. files[NextDownload].name \in Names
    BY <2>1, Typed
  <2> QED BY <1>1, <2>2 DEF FillSlot
<1>2. ASSUME StartDownload \/ StartAccepted \/ StartRefused PROVE Serves
  BY <1>0, <1>2 DEF StartDownload, StartAccepted, StartRefused
<1>3. ASSUME FreeSlot \/ StopSlot \/ DeleteSlot PROVE Still \/ Serves
  BY <1>0, <1>3, Typed DEF FreeSlot, AtSlot, StopSlot, DeleteSlot, downloads
<1>4. ASSUME NEW f \in Names, Transfer(f) \/ TransferSettles(f) PROVE Serves
  BY <1>4 DEF Transfer, TransferSettles
<1>5. ASSUME BuildList PROVE Still
  BY <1>5 DEF BuildList, ScanPath, Prepare, ApplyFileLine, ApplyIgnoreLine, downloads
<1>6. ASSUME DeleteUnlisted \/ CountDownload \/ PassEntry \/ ClassifyFails PROVE Still
  BY <1>6 DEF DeleteUnlisted, CountDownload, PassEntry, ClassifyFails, Classifying,
              downloads
<1>7. ASSUME \/ BeginDownloads \/ Round \/ EmptySlot \/ BusySlot \/ RoundEnds
             \/ StopsRequested \/ DownloadsEnd \/ VerifyStarts
      PROVE  Still
  BY <1>7 DEF BeginDownloads, Round, EmptySlot, BusySlot, RoundEnds, StopsRequested,
              DownloadsEnd, VerifyStarts, downloads
<1>8. ASSUME \/ NothingToVerify \/ VerifyFindsUnstarted \/ VerifyEnds
             \/ ActualizeReturns
             \/ \E readable \in BOOLEAN : VerifyPasses(readable) \/ VerifyFails(readable)
      PROVE  Still
  BY <1>8 DEF NothingToVerify, VerifyFindsUnstarted, VerifyEnds, ActualizeReturns,
              VerifyPasses, VerifyFails, VerifyNext, downloads
<1>9. ASSUME Asides \/ UNCHANGED vars PROVE Still
  BY <1>9 DEF Asides, UserCancels, LibraryRefuses, vars, downloads
<1> QED BY <1>1, <1>2, <1>3, <1>4, <1>5, <1>6, <1>7, <1>8, <1>9
        DEF Next, ActualizeFiles, Downloads, Asides

\* SlotInv, one part after the other.
LEMMA ServiceTypedNext == ASSUME IInv, [Next]_vars PROVE ServiceTyped'
<1>0. ServiceTyped
  BY SlotParts DEF IInv
<1>1. CASE UNCHANGED Dl!vars
  BY <1>0, <1>1 DEF Dl!vars, ServiceTyped
<1>2. ASSUME NEW f \in Names, Dl!Create(f) \/ Dl!Call(f) \/ Dl!Delete(f) \/ Dl!Settle(f)
      PROVE  ServiceTyped'
  BY <1>0, <1>2 DEF ServiceTyped, Dl!Create, Dl!Call, Dl!Delete, Dl!Settle, Dl!Move
<1>3. ASSUME NEW f \in Names, Dl!Accept(f) PROVE ServiceTyped'
  BY <1>0, <1>3 DEF ServiceTyped, Dl!Accept
<1>4. ASSUME NEW f \in Names, Dl!Work(f) PROVE ServiceTyped'
  BY <1>0, <1>4 DEF ServiceTyped, Dl!Work
<1> QED BY <1>1, <1>2, <1>3, <1>4, ServiceStep DEF Dl!Next

\* An object that was created once is never again what it was before.
LEMMA NeverUncreated ==
    ASSUME IInv, [Next]_vars, NEW f \in Names, phase[f] # "none"
    PROVE  phase'[f] # "none"
<1>0. ServiceTyped
  BY SlotParts DEF IInv
<1>1. CASE UNCHANGED Dl!vars
  BY <1>1 DEF Dl!vars
<1>2. ASSUME NEW g \in Names, Dl!Create(g) \/ Dl!Call(g) \/ Dl!Delete(g) \/ Dl!Settle(g)
      PROVE  phase'[f] # "none"
  BY <1>0, <1>2 DEF ServiceTyped, Dl!Create, Dl!Call, Dl!Delete, Dl!Settle, Dl!Move
<1>3. ASSUME NEW g \in Names, Dl!Accept(g) \/ Dl!Work(g) PROVE phase'[f] # "none"
  BY <1>3 DEF Dl!Accept, Dl!Work
<1> QED BY <1>1, <1>2, <1>3, ServiceStep DEF Dl!Next

\* The objects come and go only with the slots.
LEMMA SlotSteps ==
    ASSUME IInv, [Next]_vars
    PROVE  FillSlot \/ FreeSlot \/ DeleteSlot \/ (slots' = slots /\ InUse' = InUse)
<1>0. /\ ServiceTyped
      /\ \A k \in 1..MaxActive : slots[k] \in Names \cup {Free}
      /\ pc \in {"start", "starting"} => i \in 1..MaxActive /\ slots[i] \in Names
      /\ pc \notin {"scan", "lists"} => i \in Nat /\ i >= 1
  BY TypeParts, SlotParts DEF IInv, PlacesTyped, NumbersTyped, SlotInv
<1> DEFINE Same == slots' = slots /\ InUse' = InUse
<1>1. ASSUME NEW f \in Names, Dl!Call(f) \/ Dl!Settle(f), slots' = slots PROVE Same
  BY <1>0, <1>1 DEF ServiceTyped, InUse, Dl!Call, Dl!Settle, Dl!Move
<1>2. ASSUME phase' = phase, slots' = slots PROVE Same
  BY <1>2 DEF InUse
<1>3. ASSUME StartDownload \/ StartRefused PROVE Same
  BY <1>0, <1>1, <1>3 DEF StartDownload, StartRefused
<1>4. ASSUME StopSlot PROVE Same
  BY <1>0, <1>1, <1>2, <1>4, Typed DEF StopSlot, downloads
<1>5. ASSUME NEW f \in Names, Transfer(f) \/ TransferSettles(f) PROVE Same
  BY <1>1, <1>2, <1>5 DEF Transfer, TransferSettles, loop, Dl!Work
<1>6. ASSUME BuildList PROVE Same
  BY <1>2, <1>6 DEF BuildList, ScanPath, Prepare, ApplyFileLine, ApplyIgnoreLine,
                    downloads, loop
<1>7. ASSUME DeleteUnlisted \/ CountDownload \/ PassEntry \/ ClassifyFails PROVE Same
  BY <1>2, <1>7 DEF DeleteUnlisted, CountDownload, PassEntry, ClassifyFails,
                    Classifying, downloads
<1>8. ASSUME \/ BeginDownloads \/ Round \/ EmptySlot \/ BusySlot \/ RoundEnds
             \/ StopsRequested \/ DownloadsEnd \/ VerifyStarts \/ StartAccepted
      PROVE  Same
  BY <1>2, <1>8 DEF BeginDownloads, Round, EmptySlot, BusySlot, RoundEnds,
     StopsRequested, DownloadsEnd, VerifyStarts, StartAccepted, downloads, Dl!Accept
<1>9. ASSUME \/ NothingToVerify \/ VerifyFindsUnstarted \/ VerifyEnds
             \/ ActualizeReturns
             \/ \E readable \in BOOLEAN : VerifyPasses(readable) \/ VerifyFails(readable)
      PROVE  Same
  BY <1>2, <1>9 DEF NothingToVerify, VerifyFindsUnstarted, VerifyEnds,
     ActualizeReturns, VerifyPasses, VerifyFails, VerifyNext, downloads
<1>10. ASSUME Asides \/ UNCHANGED vars PROVE Same
  BY <1>2, <1>10 DEF Asides, UserCancels, LibraryRefuses, vars, downloads, loop
<1> QED BY <1>3, <1>4, <1>5, <1>6, <1>7, <1>8, <1>9, <1>10
        DEF Next, ActualizeFiles, Downloads, Asides

\* What a free slot that takes a file does.
LEMMA FillSlotFacts ==
    ASSUME IInv, FillSlot
    PROVE  \E n \in 1..Len(files) :
              /\ n = NextDownload /\ n <= last /\ files[n].action = "DOWNLOAD"
              /\ i \in 1..MaxActive /\ slots[i] = Free
              /\ slots' = [slots EXCEPT ![i] = files[n].name]
              /\ phase[files[n].name] = "none"
              /\ phase' = [phase EXCEPT ![files[n].name] = "idle"]
              /\ InUse' = InUse \cup {files[n].name}
              /\ last' = n - 1
<1>1. ServiceTyped
  BY SlotParts DEF IInv
<1>2. NextDownload \in 1..Len(files) /\ NextDownload <= last
  <2>1. NextDownload \in 0..last
    BY Typed, NextIsLast
  <2> QED BY <2>1, Typed DEF FillSlot
<1>3. files[NextDownload].action = "DOWNLOAD"
  BY <1>2, Typed, NextIsLast
<1>4. PICK n \in 1..Len(files) : n = NextDownload
  BY <1>2
<1>5. files[n].name \in Names
  BY Typed
<1>6. /\ i \in 1..MaxActive /\ slots[i] = Free
      /\ slots' = [slots EXCEPT ![i] = files[n].name]
      /\ phase[files[n].name] = "none"
      /\ phase' = [phase EXCEPT ![files[n].name] = "idle"]
      /\ last' = n - 1
  BY <1>4, Typed DEF FillSlot, AtSlot, Dl!Create, Dl!Move, IInv, SlotInv
<1>7. InUse' = InUse \cup {files[n].name}
  BY <1>1, <1>5, <1>6 DEF ServiceTyped, InUse
<1> QED BY <1>2, <1>3, <1>4, <1>6, <1>7

\* What freeing a slot that holds an object does.
LEMMA FreeFacts ==
    ASSUME IInv, FreeSlot \/ DeleteSlot
    PROVE  /\ i \in 1..MaxActive /\ slots' = [slots EXCEPT ![i] = Free]
           /\ slots[i] = Free => InUse' = InUse
           /\ slots[i] # Free => slots[i] \in Names /\ InUse' = InUse \ {slots[i]}
<1>0. ServiceTyped
  BY SlotParts DEF IInv
<1>1. /\ i \in 1..MaxActive /\ slots[i] \in Names \cup {Free}
      /\ slots' = [slots EXCEPT ![i] = Free]
  BY Typed DEF FreeSlot, AtSlot, DeleteSlot, IInv, SlotInv
<1>2. CASE slots[i] = Free
  BY <1>1, <1>2 DEF FreeSlot, DeleteSlot, downloads, InUse
<1>3. CASE slots[i] # Free
  <2>1. Dl!Delete(slots[i])
    BY <1>3 DEF FreeSlot, DeleteSlot
  <2> QED BY <1>0, <1>1, <1>3, <2>1 DEF ServiceTyped, InUse, Dl!Delete, Dl!Move
<1> QED BY <1>1, <1>2, <1>3

LEMMA SlotsApartNext == ASSUME IInv, [Next]_vars PROVE SlotsApart'
<1>0. SlotsApart
  BY SlotParts DEF IInv
<1>1. CASE slots' = slots /\ InUse' = InUse
  BY <1>0, <1>1 DEF SlotsApart
<1>2. CASE FillSlot
  <2>1. PICK n \in 1..Len(files) :
              /\ i \in 1..MaxActive /\ slots[i] = Free
              /\ slots' = [slots EXCEPT ![i] = files[n].name]
              /\ phase[files[n].name] = "none"
              /\ InUse' = InUse \cup {files[n].name}
    BY <1>2, FillSlotFacts
  <2>2. PICK name \in Names : name = files[n].name
    BY Typed
  <2>3. name \notin InUse /\ name # Free
    BY <2>1, <2>2, Typed DEF InUse
  <2>4. \A k \in 1..MaxActive : slots'[k] = IF k = i THEN name ELSE slots[k]
    BY <2>1, <2>2, Typed
  <2>5. \A k \in 1..MaxActive : slots[k] # name
    BY <1>0, <2>2, <2>3 DEF SlotsApart
  <2>6. InUse' = InUse \cup {name} /\ i \in 1..MaxActive /\ slots[i] = Free
    BY <2>1, <2>2
  <2>7. \A f \in Names : f \in InUse' <=> \E k \in 1..MaxActive : slots'[k] = f
    BY <1>0, <2>4, <2>6, Typed DEF SlotsApart
  <2>8. \A k, l \in 1..MaxActive : slots'[k] # Free /\ slots'[k] = slots'[l] => k = l
    BY <1>0, <2>4, <2>5 DEF SlotsApart
  <2> QED BY <2>7, <2>8 DEF SlotsApart
<1>3. CASE FreeSlot \/ DeleteSlot
  <2>1. /\ i \in 1..MaxActive /\ slots' = [slots EXCEPT ![i] = Free]
        /\ slots[i] = Free => InUse' = InUse
        /\ slots[i] # Free => slots[i] \in Names /\ InUse' = InUse \ {slots[i]}
    BY <1>3, FreeFacts
  <2>2. \A k \in 1..MaxActive : slots'[k] = IF k = i THEN Free ELSE slots[k]
    BY <2>1, Typed
  <2>3. \A k, l \in 1..MaxActive : slots'[k] # Free /\ slots'[k] = slots'[l] => k = l
    BY <1>0, <2>2 DEF SlotsApart
  <2>4. CASE slots[i] = Free
    BY <1>0, <2>1, <2>2, <2>3, <2>4 DEF SlotsApart
  <2>5. CASE slots[i] # Free
    <3>1. ASSUME NEW f \in Names
          PROVE  f \in InUse' <=> \E k \in 1..MaxActive : slots'[k] = f
      BY <1>0, <2>1, <2>2, <2>5, Typed DEF SlotsApart
    <3> QED BY <2>3, <3>1 DEF SlotsApart
  <2> QED BY <2>4, <2>5
<1> QED BY <1>1, <1>2, <1>3, SlotSteps

\* A step that keeps the entries' names and what is due keeps the downloads due.
LEMMA DueKept ==
    ASSUME IInv, InUse' \subseteq InUse, DOMAIN files' = DOMAIN files,
           \A k \in DOMAIN files :
              /\ files'[k].name = files[k].name
              /\ files[k].action \in {"DOWNLOAD", "VERIFY"} =>
                    files'[k].action \in {"DOWNLOAD", "VERIFY"}
    PROVE  SlotsDue'
<1>1. SlotsDue
  BY SlotParts DEF IInv
<1> QED BY <1>1 DEF SlotsDue

LEMMA SlotsDueNext == ASSUME IInv, [Next]_vars PROVE SlotsDue'
<1>0. /\ SlotsDue /\ TypedList /\ DOMAIN files = 1..Len(files)
      /\ FillSlot \/ FreeSlot \/ DeleteSlot \/ InUse' = InUse
  BY SlotParts, TypeParts, Typed, SlotSteps DEF IInv
<1>1. ASSUME files' = files, InUse' \subseteq InUse PROVE SlotsDue'
  BY <1>1, DueKept
<1>2. CASE FillSlot
  <2>1. PICK n \in 1..Len(files) :
           files[n].action = "DOWNLOAD" /\ InUse' = InUse \cup {files[n].name}
    BY <1>2, FillSlotFacts
  <2>2. files' = files
    BY <1>2 DEF FillSlot, lists
  <2> QED BY <1>0, <2>1, <2>2 DEF SlotsDue
<1>3. CASE FreeSlot \/ DeleteSlot
  <2>1. files' = files
    BY <1>3 DEF FreeSlot, DeleteSlot, lists
  <2> QED BY <1>1, <1>3, <2>1, FreeFacts
<1>4. ASSUME NEW n \in 1..Len(files), NEW e \in Entry,
             e.name = files[n].name, e.action \in {"DOWNLOAD", "VERIFY"},
             files' = [files EXCEPT ![n] = e], InUse' = InUse
      PROVE  SlotsDue'
  <2>1. /\ TypedList' /\ Len(files') = Len(files)
        /\ \A k \in 1..Len(files) : files'[k] = IF k = n THEN e ELSE files[k]
    BY <1>0, <1>4, ListKept
  <2>2. DOMAIN files' = DOMAIN files
    BY <1>0, <2>1 DEF TypedList
  <2> QED BY <1>0, <1>4, <2>1, <2>2, DueKept
<1>5. ASSUME UNCHANGED downloads PROVE InUse' = InUse
  BY <1>5 DEF downloads, InUse
<1>6. ASSUME StartAccepted PROVE SlotsDue'
  <2>1. InUse' = InUse
    BY <1>6 DEF StartAccepted, Dl!Accept, InUse
  <2> QED BY <1>4, <1>6, <2>1, AcceptedList
<1>7. ASSUME NEW readable \in BOOLEAN, VerifyPasses(readable) PROVE SlotsDue'
  <2>1. UNCHANGED downloads /\ files[i].action = "VERIFY"
    BY <1>7 DEF VerifyPasses, VerifyNext, Action
  <2> QED BY <1>4, <1>5, <1>7, <2>1, PassedList
<1>8. ASSUME NEW readable \in BOOLEAN, VerifyFails(readable) PROVE SlotsDue'
  <2>1. UNCHANGED downloads
    BY <1>8 DEF VerifyFails, VerifyNext
  <2> QED BY <1>4, <1>5, <1>8, <2>1, FailedList
<1>9. ASSUME pc \in {"scan", "lists", "classify"}, UNCHANGED downloads PROVE SlotsDue'
  <2>1. InUse = {}
    BY <1>9, NoneInUse DEF IInv, SlotInv
  <2> QED BY <1>5, <1>9, <2>1 DEF SlotsDue
<1>10. ASSUME BuildList \/ DeleteUnlisted PROVE SlotsDue'
  <2>1. pc \in {"scan", "lists", "classify"} /\ UNCHANGED downloads
    BY <1>10 DEF BuildList, ScanPath, Prepare, ApplyFileLine, ApplyIgnoreLine,
                 DeleteUnlisted, Classifying
  <2> QED BY <1>9, <2>1
<1>11. ASSUME NEW f \in Names, Transfer(f) PROVE SlotsDue'
  <2>1. files' = files /\ phase' = phase
    BY <1>11 DEF Transfer, Dl!Work, lists
  <2>2. InUse' = InUse
    BY <2>1 DEF InUse
  <2> QED BY <1>1, <2>1, <2>2
<1>12. \/ files' = files \/ BuildList \/ DeleteUnlisted \/ StartAccepted
       \/ \E readable \in BOOLEAN : VerifyPasses(readable) \/ VerifyFails(readable)
       \/ \E f \in Names : Transfer(f)
  BY ListSteps DEF BuildList
<1> QED BY <1>0, <1>1, <1>2, <1>3, <1>6, <1>7, <1>8, <1>10, <1>11, <1>12

LEMMA SlotsWhereNext == ASSUME IInv, [Next]_vars PROVE SlotsWhere'
<1>0. /\ SlotsWhere /\ RoundInv /\ i \in Nat /\ MaxActive \in Nat \ {0}
      /\ slots \in [1..MaxActive -> Names \cup {Free}]
  BY SlotParts, Typed DEF IInv
<1>1. ASSUME UNCHANGED vars PROVE SlotsWhere'
    BY <1>0, <1>1 DEF SlotsWhere, RoundInv, AllFree, FreeBefore, Settled,
       vars, lists, loop, downloads
<1>2. ASSUME BuildList PROVE SlotsWhere'
  <2>1. ASSUME ScanPath PROVE SlotsWhere'
    BY <1>0, <2>1 DEF SlotsWhere, RoundInv, AllFree, FreeBefore, Settled,
       ScanPath, downloads
  <2>2. ASSUME Prepare PROVE SlotsWhere'
    BY <1>0, <2>2 DEF SlotsWhere, RoundInv, AllFree, FreeBefore, Settled,
       Prepare, downloads
  <2>3. ASSUME NEW n \in Names, ApplyIgnoreLine(n) PROVE SlotsWhere'
    BY <1>0, <2>3 DEF SlotsWhere, RoundInv, AllFree, FreeBefore, Settled,
       ApplyIgnoreLine, loop, downloads
  <2>4. ASSUME NEW n \in Names, NEW t \in Targets, NEW readable \in BOOLEAN,
               ApplyFileLine(n, t, readable)
        PROVE  SlotsWhere'
    BY <1>0, <2>4 DEF SlotsWhere, RoundInv, AllFree, FreeBefore, Settled,
       ApplyFileLine, loop, downloads
  <2> QED BY <1>2, <2>1, <2>2, <2>3, <2>4 DEF BuildList
<1>3. ASSUME ActualizeFiles PROVE SlotsWhere'
  <2>1. ASSUME DeleteUnlisted PROVE SlotsWhere'
    BY <1>0, <2>1 DEF SlotsWhere, RoundInv, AllFree, FreeBefore, Settled,
       DeleteUnlisted, lists, downloads, Classifying
  <2>2. ASSUME CountDownload PROVE SlotsWhere'
    BY <1>0, <2>2 DEF SlotsWhere, RoundInv, AllFree, FreeBefore, Settled,
       CountDownload, lists, downloads, Classifying
  <2>3. ASSUME PassEntry PROVE SlotsWhere'
    BY <1>0, <2>3 DEF SlotsWhere, RoundInv, AllFree, FreeBefore, Settled,
       PassEntry, lists, downloads, Classifying
  <2>4. ASSUME ClassifyFails PROVE SlotsWhere'
    BY <1>0, <2>4 DEF SlotsWhere, RoundInv, AllFree, FreeBefore, Settled,
       ClassifyFails, lists, downloads, Classifying
  <2>5. ASSUME BeginDownloads PROVE SlotsWhere'
    BY <1>0, <2>5 DEF SlotsWhere, RoundInv, AllFree, FreeBefore, Settled,
       BeginDownloads, lists, downloads
  <2>6. ASSUME Round PROVE SlotsWhere'
    BY <1>0, <2>6 DEF SlotsWhere, RoundInv, AllFree, FreeBefore, Settled,
       Round, lists, downloads
  <2>7. ASSUME FillSlot PROVE SlotsWhere'
    BY <1>0, <2>7 DEF SlotsWhere, RoundInv, AllFree, FreeBefore, Settled,
       FillSlot, lists, downloads, AtSlot
  <2>8. ASSUME StartDownload PROVE SlotsWhere'
    BY <1>0, <2>8 DEF SlotsWhere, RoundInv, AllFree, FreeBefore, Settled,
       StartDownload, lists, downloads
  <2>9. ASSUME StartAccepted PROVE SlotsWhere'
    BY <1>0, <2>9 DEF SlotsWhere, RoundInv, AllFree, FreeBefore, Settled,
       StartAccepted, lists, downloads
  <2>10. ASSUME StartRefused PROVE SlotsWhere'
    BY <1>0, <2>10 DEF SlotsWhere, RoundInv, AllFree, FreeBefore, Settled,
       StartRefused, lists, downloads
  <2>11. ASSUME EmptySlot PROVE SlotsWhere'
    BY <1>0, <2>11 DEF SlotsWhere, RoundInv, AllFree, FreeBefore, Settled,
       EmptySlot, lists, downloads, AtSlot
  <2>12. ASSUME BusySlot PROVE SlotsWhere'
    BY <1>0, <2>12 DEF SlotsWhere, RoundInv, AllFree, FreeBefore, Settled,
       BusySlot, lists, downloads, AtSlot
  <2>13. ASSUME FreeSlot PROVE SlotsWhere'
    BY <1>0, <2>13 DEF SlotsWhere, RoundInv, AllFree, FreeBefore, Settled,
       FreeSlot, lists, downloads, AtSlot
  <2>14. ASSUME RoundEnds PROVE SlotsWhere'
    BY <1>0, <2>14 DEF SlotsWhere, RoundInv, AllFree, FreeBefore, Settled,
       RoundEnds, lists, downloads
  <2>15. ASSUME StopSlot PROVE SlotsWhere'
    BY <1>0, <2>15 DEF SlotsWhere, RoundInv, AllFree, FreeBefore, Settled,
       StopSlot, lists, downloads
  <2>16. ASSUME StopsRequested PROVE SlotsWhere'
    BY <1>0, <2>16 DEF SlotsWhere, RoundInv, AllFree, FreeBefore, Settled,
       StopsRequested, lists, downloads
  <2>17. ASSUME DeleteSlot PROVE SlotsWhere'
    BY <1>0, <2>17 DEF SlotsWhere, RoundInv, AllFree, FreeBefore, Settled,
       DeleteSlot, lists, downloads
  <2>18. ASSUME DownloadsEnd PROVE SlotsWhere'
    BY <1>0, <2>18 DEF SlotsWhere, RoundInv, AllFree, FreeBefore, Settled,
       DownloadsEnd, lists, downloads
  <2>19. ASSUME VerifyStarts PROVE SlotsWhere'
    BY <1>0, <2>19 DEF SlotsWhere, RoundInv, AllFree, FreeBefore, Settled,
       VerifyStarts, lists, downloads
  <2>20. ASSUME NothingToVerify PROVE SlotsWhere'
    BY <1>0, <2>20 DEF SlotsWhere, RoundInv, AllFree, FreeBefore, Settled,
       NothingToVerify, lists, downloads, VerifyNext, Verifying
  <2>21. ASSUME VerifyFindsUnstarted PROVE SlotsWhere'
    BY <1>0, <2>21 DEF SlotsWhere, RoundInv, AllFree, FreeBefore, Settled,
       VerifyFindsUnstarted, lists, downloads, VerifyNext, Verifying
  <2>22. ASSUME VerifyEnds PROVE SlotsWhere'
    BY <1>0, <2>22 DEF SlotsWhere, RoundInv, AllFree, FreeBefore, Settled,
       VerifyEnds, lists, downloads
  <2>23. ASSUME ActualizeReturns PROVE SlotsWhere'
    BY <1>0, <2>23 DEF SlotsWhere, RoundInv, AllFree, FreeBefore, Settled,
       ActualizeReturns, lists, downloads
  <2>24. ASSUME NEW readable \in BOOLEAN, VerifyPasses(readable) PROVE SlotsWhere'
    BY <1>0, <2>24 DEF SlotsWhere, RoundInv, AllFree, FreeBefore, Settled,
       VerifyPasses, VerifyNext, Verifying, downloads
  <2>25. ASSUME NEW readable \in BOOLEAN, VerifyFails(readable) PROVE SlotsWhere'
    BY <1>0, <2>25 DEF SlotsWhere, RoundInv, AllFree, FreeBefore, Settled,
       VerifyFails, VerifyNext, Verifying, downloads
  <2> QED BY <1>3, <2>1, <2>2, <2>3, <2>4, <2>5, <2>6, <2>7, <2>8, <2>9,
         <2>10, <2>11, <2>12, <2>13, <2>14, <2>15, <2>16, <2>17, <2>18, <2>19,
         <2>20, <2>21, <2>22, <2>23, <2>24, <2>25 DEF ActualizeFiles
<1>4. ASSUME NEW f \in Names, Transfer(f) PROVE SlotsWhere'
    BY <1>0, <1>4 DEF SlotsWhere, RoundInv, AllFree, FreeBefore, Settled,
       Transfer, lists, loop
<1>5. ASSUME NEW f \in Names, TransferSettles(f) PROVE SlotsWhere'
    BY <1>0, <1>5 DEF SlotsWhere, RoundInv, AllFree, FreeBefore, Settled,
       TransferSettles, lists, loop
<1>6. ASSUME Asides PROVE SlotsWhere'
    BY <1>0, <1>6 DEF SlotsWhere, RoundInv, AllFree, FreeBefore, Settled,
       Asides, UserCancels, LibraryRefuses, lists, loop, downloads
<1> QED BY <1>1, <1>2, <1>3, <1>4, <1>5, <1>6 DEF Next, Downloads, Asides

LEMMA SlotNext == ASSUME IInv, [Next]_vars PROVE SlotInv'
<1>1. ServiceTyped' /\ SlotsApart' /\ SlotsDue' /\ SlotsWhere'
  BY ServiceTypedNext, SlotsApartNext, SlotsDueNext, SlotsWhereNext
<1>2. (ServiceTyped /\ SlotsApart /\ SlotsDue /\ SlotsWhere)' => SlotInv'
  BY SlotParts, PTL
<1> QED BY <1>1, <1>2

-------------------------------------------------------------------------------
(* The rounds and the verification *)

\* RoundInv, one action after the other.
LEMMA RoundNext == ASSUME IInv, [Next]_vars PROVE RoundInv'
<1>0. /\ RoundInv /\ i \in Nat /\ last \in 0..Len(files) /\ MaxActive \in Nat \ {0}
      /\ slots \in [1..MaxActive -> Names \cup {Free}]
      /\ DOMAIN files = 1..Len(files) /\ Len(files) \in Nat
      /\ \A k \in 1..Len(files) : files[k].name \in Names
      /\ \A f \in Names : phase[f] # "none" => phase'[f] # "none"
      /\ pc \notin {"scan", "lists"} => i >= 1
      /\ pc = "delete" => FreeBefore
  BY Typed, NeverUncreated DEF IInv, SlotInv
<1>1. ASSUME UNCHANGED vars PROVE RoundInv'
    BY <1>0, <1>1 DEF RoundInv, AllFree, FreeBefore, Loading, CallbackResult,
       FinishedStaysFalse, vars, lists, loop, downloads
<1>2. ASSUME BuildList PROVE RoundInv'
  <2>1. ASSUME ScanPath PROVE RoundInv'
    BY <1>0, <2>1 DEF RoundInv, AllFree, FreeBefore, Loading, CallbackResult,
       FinishedStaysFalse, ScanPath, downloads
  <2>2. ASSUME Prepare PROVE RoundInv'
    BY <1>0, <2>2 DEF RoundInv, AllFree, FreeBefore, Loading, CallbackResult,
       FinishedStaysFalse, Prepare, downloads
  <2>3. ASSUME NEW n \in Names, ApplyIgnoreLine(n) PROVE RoundInv'
    BY <1>0, <2>3 DEF RoundInv, AllFree, FreeBefore, Loading, CallbackResult,
       FinishedStaysFalse, ApplyIgnoreLine, loop, downloads
  <2>4. ASSUME NEW n \in Names, NEW t \in Targets, NEW readable \in BOOLEAN,
               ApplyFileLine(n, t, readable)
        PROVE  RoundInv'
    BY <1>0, <2>4 DEF RoundInv, AllFree, FreeBefore, Loading, CallbackResult,
       FinishedStaysFalse, ApplyFileLine, loop, downloads
  <2> QED BY <1>2, <2>1, <2>2, <2>3, <2>4 DEF BuildList
<1>3. ASSUME ActualizeFiles PROVE RoundInv'
  <2>1. ASSUME DeleteUnlisted PROVE RoundInv'
    BY <1>0, <2>1 DEF RoundInv, AllFree, FreeBefore, Loading, CallbackResult,
       FinishedStaysFalse, DeleteUnlisted, lists, downloads, Classifying
  <2>2. ASSUME CountDownload PROVE RoundInv'
    BY <1>0, <2>2 DEF RoundInv, AllFree, FreeBefore, Loading, CallbackResult,
       FinishedStaysFalse, CountDownload, lists, downloads, Classifying
  <2>3. ASSUME PassEntry PROVE RoundInv'
    BY <1>0, <2>3 DEF RoundInv, AllFree, FreeBefore, Loading, CallbackResult,
       FinishedStaysFalse, PassEntry, lists, downloads, Classifying
  <2>4. ASSUME ClassifyFails PROVE RoundInv'
    BY <1>0, <2>4 DEF RoundInv, AllFree, FreeBefore, Loading, CallbackResult,
       FinishedStaysFalse, ClassifyFails, lists, downloads, Classifying
  <2>5. ASSUME BeginDownloads PROVE RoundInv'
    BY <1>0, <2>5 DEF RoundInv, AllFree, FreeBefore, Loading, CallbackResult,
       FinishedStaysFalse, BeginDownloads, lists, downloads
  <2>6. ASSUME Round PROVE RoundInv'
    BY <1>0, <2>6 DEF RoundInv, AllFree, FreeBefore, Loading, CallbackResult,
       FinishedStaysFalse, Round, lists, downloads
  <2>7. ASSUME FillSlot PROVE RoundInv'
    <3>1. PICK n \in 1..Len(files) :
             /\ n = NextDownload /\ last' = n - 1
             /\ phase[files[n].name] = "none"
             /\ phase' = [phase EXCEPT ![files[n].name] = "idle"]
      BY <2>7, FillSlotFacts
    <3>2. phase'[files[n].name] = "idle"
      BY <1>0, <3>1, SlotParts DEF IInv, ServiceTyped
    <3>3. \A k \in 1..last : k > n => files[k].action # "DOWNLOAD"
      BY <3>1, Typed, NextIsLast
    <3>4. pc = "slot" /\ pc' = "start" /\ finished' = FALSE /\ files' = files
      BY <2>7 DEF FillSlot, AtSlot, lists
    <3>5. ASSUME NEW k \in 1..Len(files), k > last', files[k].action = "DOWNLOAD"
          PROVE  phase'[files[k].name] # "none"
      <4>1. CASE k = n
        BY <3>2, <4>1
      <4>2. CASE k # n
        <5>1. k > n
          BY <1>0, <3>1, <3>5, <4>2
        <5>2. k > last
          BY <1>0, <3>3, <3>5, <5>1
        <5> QED BY <1>0, <3>4, <3>5, <5>2 DEF RoundInv, Loading
      <4> QED BY <4>1, <4>2
    <3> QED BY <1>0, <3>4, <3>5 DEF RoundInv
  <2>8. ASSUME StartDownload PROVE RoundInv'
    BY <1>0, <2>8 DEF RoundInv, AllFree, FreeBefore, Loading, CallbackResult,
       FinishedStaysFalse, StartDownload, lists, downloads
  <2>9. ASSUME StartAccepted PROVE RoundInv'
    <3>1. PICK n \in 1..Len(files), e \in Entry :
             /\ e.name = files[n].name /\ e.action = "VERIFY"
             /\ files' = [files EXCEPT ![n] = e]
      BY <2>9, AcceptedList
    <3>2. /\ TypedList' /\ Len(files') = Len(files)
          /\ \A k \in 1..Len(files) : files'[k] = IF k = n THEN e ELSE files[k]
      BY <3>1, TypeParts, ListKept DEF IInv
    <3>3. DOMAIN files' = 1..Len(files)
      BY <3>2 DEF TypedList
    <3>4. /\ pc = "starting" /\ pc' = "slot"
          /\ UNCHANGED <<last, finished, phase>>
      BY <2>9 DEF StartAccepted, Dl!Accept
    <3> QED BY <1>0, <3>1, <3>2, <3>3, <3>4 DEF RoundInv, Loading
  <2>10. ASSUME StartRefused PROVE RoundInv'
    BY <1>0, <2>10 DEF RoundInv, AllFree, FreeBefore, Loading, CallbackResult,
       FinishedStaysFalse, StartRefused, lists, downloads
  <2>11. ASSUME EmptySlot PROVE RoundInv'
    <3>1. \A k \in 1..last : files[k].action # "DOWNLOAD"
      BY <1>0, <2>11, Typed, NextIsLast DEF EmptySlot
    <3>2. /\ pc = "slot" /\ pc' = "slot" /\ last' = 0 /\ slots[i] = Free
          /\ UNCHANGED <<finished, slots, files, phase>> /\ i' = i + 1
      BY <2>11 DEF EmptySlot, AtSlot, lists, downloads
    <3>3. \A k \in 1..Len(files) :
             files[k].action = "DOWNLOAD" => phase[files[k].name] # "none"
      BY <1>0, <3>1, <3>2 DEF RoundInv, Loading
    <3>4. finished => FreeBefore'
      BY <1>0, <3>2 DEF RoundInv, FreeBefore
    <3> QED BY <1>0, <3>2, <3>3, <3>4 DEF RoundInv
  <2>12. ASSUME BusySlot PROVE RoundInv'
    BY <1>0, <2>12 DEF RoundInv, AllFree, FreeBefore, Loading, CallbackResult,
       FinishedStaysFalse, BusySlot, lists, downloads, AtSlot
  <2>13. ASSUME FreeSlot PROVE RoundInv'
    BY <1>0, <2>13 DEF RoundInv, AllFree, FreeBefore, Loading, CallbackResult,
       FinishedStaysFalse, FreeSlot, lists, downloads, AtSlot
  <2>14. ASSUME RoundEnds PROVE RoundInv'
    BY <1>0, <2>14 DEF RoundInv, AllFree, FreeBefore, Loading, CallbackResult,
       FinishedStaysFalse, RoundEnds, lists, downloads
  <2>15. ASSUME StopSlot PROVE RoundInv'
    BY <1>0, <2>15 DEF RoundInv, AllFree, FreeBefore, Loading, CallbackResult,
       FinishedStaysFalse, StopSlot, lists, downloads
  <2>16. ASSUME StopsRequested PROVE RoundInv'
    BY <1>0, <2>16 DEF RoundInv, AllFree, FreeBefore, Loading, CallbackResult,
       FinishedStaysFalse, StopsRequested, lists, downloads
  <2>17. ASSUME DeleteSlot PROVE RoundInv'
    BY <1>0, <2>17 DEF RoundInv, AllFree, FreeBefore, Loading, CallbackResult,
       FinishedStaysFalse, DeleteSlot, lists, downloads
  <2>18. ASSUME DownloadsEnd PROVE RoundInv'
    BY <1>0, <2>18 DEF RoundInv, AllFree, FreeBefore, Loading, CallbackResult,
       FinishedStaysFalse, DownloadsEnd, lists, downloads
  <2>19. ASSUME VerifyStarts PROVE RoundInv'
    BY <1>0, <2>19 DEF RoundInv, AllFree, FreeBefore, Loading, CallbackResult,
       FinishedStaysFalse, VerifyStarts, lists, downloads
  <2>20. ASSUME NothingToVerify PROVE RoundInv'
    BY <1>0, <2>20 DEF RoundInv, AllFree, FreeBefore, Loading, CallbackResult,
       FinishedStaysFalse, NothingToVerify, lists, downloads, VerifyNext,
       Verifying
  <2>21. ASSUME VerifyFindsUnstarted PROVE RoundInv'
    BY <1>0, <2>21 DEF RoundInv, AllFree, FreeBefore, Loading, CallbackResult,
       FinishedStaysFalse, VerifyFindsUnstarted, lists, downloads, VerifyNext,
       Verifying
  <2>22. ASSUME VerifyEnds PROVE RoundInv'
    BY <1>0, <2>22 DEF RoundInv, AllFree, FreeBefore, Loading, CallbackResult,
       FinishedStaysFalse, VerifyEnds, lists, downloads
  <2>23. ASSUME ActualizeReturns PROVE RoundInv'
    BY <1>0, <2>23 DEF RoundInv, AllFree, FreeBefore, Loading, CallbackResult,
       FinishedStaysFalse, ActualizeReturns, lists, downloads
  <2>24. ASSUME NEW readable \in BOOLEAN, VerifyPasses(readable) PROVE RoundInv'
    BY <1>0, <2>24 DEF RoundInv, AllFree, FreeBefore, Loading, CallbackResult,
       FinishedStaysFalse, VerifyPasses, VerifyNext, Verifying, downloads
  <2>25. ASSUME NEW readable \in BOOLEAN, VerifyFails(readable) PROVE RoundInv'
    BY <1>0, <2>25 DEF RoundInv, AllFree, FreeBefore, Loading, CallbackResult,
       FinishedStaysFalse, VerifyFails, VerifyNext, Verifying, downloads
  <2> QED BY <1>3, <2>1, <2>2, <2>3, <2>4, <2>5, <2>6, <2>7, <2>8, <2>9,
         <2>10, <2>11, <2>12, <2>13, <2>14, <2>15, <2>16, <2>17, <2>18, <2>19,
         <2>20, <2>21, <2>22, <2>23, <2>24, <2>25 DEF ActualizeFiles
<1>4. ASSUME NEW f \in Names, Transfer(f) PROVE RoundInv'
    BY <1>0, <1>4 DEF RoundInv, AllFree, FreeBefore, Loading, CallbackResult,
       FinishedStaysFalse, Transfer, lists, loop
<1>5. ASSUME NEW f \in Names, TransferSettles(f) PROVE RoundInv'
    BY <1>0, <1>5 DEF RoundInv, AllFree, FreeBefore, Loading, CallbackResult,
       FinishedStaysFalse, TransferSettles, lists, loop
<1>6. ASSUME Asides PROVE RoundInv'
    BY <1>0, <1>6 DEF RoundInv, AllFree, FreeBefore, Loading, CallbackResult,
       FinishedStaysFalse, Asides, UserCancels, LibraryRefuses, lists, loop,
       downloads
<1> QED BY <1>1, <1>2, <1>3, <1>4, <1>5, <1>6 DEF Next, Downloads, Asides

\* VerifyInv, one action after the other.
LEMMA VerifyInvNext == ASSUME IInv, [Next]_vars PROVE VerifyInv'
<1>0. /\ VerifyInv /\ ListInv /\ i \in Nat /\ DOMAIN files = 1..Len(files)
      /\ Len(files) \in Nat /\ dlSize \in Nat
  BY Typed, TypeParts DEF IInv, NumbersTyped
<1>1. ASSUME UNCHANGED vars PROVE VerifyInv'
    BY <1>0, <1>1 DEF VerifyInv, CancelledMeansFalse, Listed, AsListed,
       CallbackResult, vars, lists, loop, downloads
<1>2. ASSUME BuildList PROVE VerifyInv'
  <2>1. ASSUME ScanPath PROVE VerifyInv'
    BY <1>0, <2>1 DEF VerifyInv, CancelledMeansFalse, Listed, AsListed,
       CallbackResult, ScanPath, downloads
  <2>2. ASSUME Prepare PROVE VerifyInv'
    BY <1>0, <2>2 DEF VerifyInv, CancelledMeansFalse, Listed, AsListed,
       CallbackResult, Prepare, downloads
  <2>3. ASSUME NEW n \in Names, ApplyIgnoreLine(n) PROVE VerifyInv'
    BY <1>0, <2>3 DEF VerifyInv, CancelledMeansFalse, Listed, AsListed,
       CallbackResult, ApplyIgnoreLine, loop, downloads
  <2>4. ASSUME NEW n \in Names, NEW t \in Targets, NEW readable \in BOOLEAN,
               ApplyFileLine(n, t, readable)
        PROVE  VerifyInv'
    BY <1>0, <2>4 DEF VerifyInv, CancelledMeansFalse, Listed, AsListed,
       CallbackResult, ApplyFileLine, loop, downloads
  <2> QED BY <1>2, <2>1, <2>2, <2>3, <2>4 DEF BuildList
<1>3. ASSUME ActualizeFiles PROVE VerifyInv'
  <2>1. ASSUME DeleteUnlisted PROVE VerifyInv'
    BY <1>0, <2>1 DEF VerifyInv, CancelledMeansFalse, Listed, AsListed,
       CallbackResult, DeleteUnlisted, lists, downloads, Classifying
  <2>2. ASSUME CountDownload PROVE VerifyInv'
    BY <1>0, <2>2 DEF VerifyInv, CancelledMeansFalse, Listed, AsListed,
       CallbackResult, CountDownload, lists, downloads, Classifying
  <2>3. ASSUME PassEntry PROVE VerifyInv'
    BY <1>0, <2>3 DEF VerifyInv, CancelledMeansFalse, Listed, AsListed,
       CallbackResult, PassEntry, lists, downloads, Classifying
  <2>4. ASSUME ClassifyFails PROVE VerifyInv'
    BY <1>0, <2>4 DEF VerifyInv, CancelledMeansFalse, Listed, AsListed,
       CallbackResult, ClassifyFails, lists, downloads, Classifying
  <2>5. ASSUME BeginDownloads PROVE VerifyInv'
    BY <1>0, <2>5 DEF VerifyInv, CancelledMeansFalse, Listed, AsListed,
       CallbackResult, BeginDownloads, lists, downloads
  <2>6. ASSUME Round PROVE VerifyInv'
    BY <1>0, <2>6 DEF VerifyInv, CancelledMeansFalse, Listed, AsListed,
       CallbackResult, Round, lists, downloads
  <2>7. ASSUME FillSlot PROVE VerifyInv'
    BY <1>0, <2>7 DEF VerifyInv, CancelledMeansFalse, Listed, AsListed,
       CallbackResult, FillSlot, lists, downloads, AtSlot
  <2>8. ASSUME StartDownload PROVE VerifyInv'
    BY <1>0, <2>8 DEF VerifyInv, CancelledMeansFalse, Listed, AsListed,
       CallbackResult, StartDownload, lists, downloads
  <2>9. ASSUME StartAccepted PROVE VerifyInv'
    BY <1>0, <2>9 DEF VerifyInv, CancelledMeansFalse, Listed, AsListed,
       CallbackResult, StartAccepted, lists, downloads
  <2>10. ASSUME StartRefused PROVE VerifyInv'
    BY <1>0, <2>10 DEF VerifyInv, CancelledMeansFalse, Listed, AsListed,
       CallbackResult, StartRefused, lists, downloads
  <2>11. ASSUME EmptySlot PROVE VerifyInv'
    BY <1>0, <2>11 DEF VerifyInv, CancelledMeansFalse, Listed, AsListed,
       CallbackResult, EmptySlot, lists, downloads, AtSlot
  <2>12. ASSUME BusySlot PROVE VerifyInv'
    BY <1>0, <2>12 DEF VerifyInv, CancelledMeansFalse, Listed, AsListed,
       CallbackResult, BusySlot, lists, downloads, AtSlot
  <2>13. ASSUME FreeSlot PROVE VerifyInv'
    BY <1>0, <2>13 DEF VerifyInv, CancelledMeansFalse, Listed, AsListed,
       CallbackResult, FreeSlot, lists, downloads, AtSlot
  <2>14. ASSUME RoundEnds PROVE VerifyInv'
    BY <1>0, <2>14 DEF VerifyInv, CancelledMeansFalse, Listed, AsListed,
       CallbackResult, RoundEnds, lists, downloads
  <2>15. ASSUME StopSlot PROVE VerifyInv'
    BY <1>0, <2>15 DEF VerifyInv, CancelledMeansFalse, Listed, AsListed,
       CallbackResult, StopSlot, lists, downloads
  <2>16. ASSUME StopsRequested PROVE VerifyInv'
    BY <1>0, <2>16 DEF VerifyInv, CancelledMeansFalse, Listed, AsListed,
       CallbackResult, StopsRequested, lists, downloads
  <2>17. ASSUME DeleteSlot PROVE VerifyInv'
    BY <1>0, <2>17 DEF VerifyInv, CancelledMeansFalse, Listed, AsListed,
       CallbackResult, DeleteSlot, lists, downloads
  <2>18. ASSUME DownloadsEnd PROVE VerifyInv'
    BY <1>0, <2>18 DEF VerifyInv, CancelledMeansFalse, Listed, AsListed,
       CallbackResult, DownloadsEnd, lists, downloads
  <2>19. ASSUME VerifyStarts PROVE VerifyInv'
    BY <1>0, <2>19 DEF VerifyInv, CancelledMeansFalse, Listed, AsListed,
       CallbackResult, VerifyStarts, lists, downloads
  <2>20. ASSUME NothingToVerify PROVE VerifyInv'
    <3>1. /\ pc = "verifying" /\ pc' = "verifying" /\ i' = i + 1
          /\ UNCHANGED <<files, disk>> /\ result
          /\ files[i].action \in {"NO", "IGNORE", "UNDEFINED"} /\ i <= Len(files)
      BY <2>20 DEF NothingToVerify, VerifyNext, Verifying, Action
    <3>2. ASSUME NEW k \in 1..Len(files), k < i + 1, Listed(k) PROVE AsListed(k)
      <4>1. CASE k = i
        BY <1>0, <3>1, <3>2, <4>1 DEF Listed, ListInv
      <4>2. CASE k # i
        <5>1. k < i
          BY <1>0, <3>2, <4>2
        <5> QED BY <1>0, <3>1, <3>2, <5>1 DEF VerifyInv
      <4> QED BY <4>1, <4>2
    <3> QED BY <1>0, <3>1, <3>2 DEF VerifyInv, CancelledMeansFalse, Listed, AsListed
  <2>21. ASSUME VerifyFindsUnstarted PROVE VerifyInv'
    BY <1>0, <2>21 DEF VerifyInv, CancelledMeansFalse, Listed, AsListed,
       CallbackResult, VerifyFindsUnstarted, lists, downloads, VerifyNext,
       Verifying
  <2>22. ASSUME VerifyEnds PROVE VerifyInv'
    <3>1. /\ pc = "verifying" /\ pc' = "end" /\ UNCHANGED <<files, disk, result>>
          /\ i > Len(files) \/ ~result
      BY <2>22 DEF VerifyEnds, lists
    <3> QED BY <1>0, <3>1 DEF VerifyInv, CancelledMeansFalse, Listed, AsListed
  <2>23. ASSUME ActualizeReturns PROVE VerifyInv'
    BY <1>0, <2>23 DEF VerifyInv, CancelledMeansFalse, Listed, AsListed,
       CallbackResult, ActualizeReturns, lists, downloads
  <2>24. ASSUME NEW readable \in BOOLEAN, VerifyPasses(readable) PROVE VerifyInv'
    <3>1. PICK e \in Entry :
             /\ i \in 1..Len(files)
             /\ e.name = files[i].name /\ e.target = files[i].target
             /\ e.action = files[i].action
             /\ files' = [files EXCEPT ![i] = e]
      BY <2>24, PassedList
    <3>2. /\ TypedList' /\ Len(files') = Len(files)
          /\ \A k \in 1..Len(files) : files'[k] = IF k = i THEN e ELSE files[k]
      BY <3>1, TypeParts, ListKept DEF IInv
    <3>3. DOMAIN files' = 1..Len(files)
      BY <3>2 DEF TypedList
    <3>4. /\ pc = "verifying" /\ pc' = "verifying" /\ i' = i + 1 /\ disk' = disk
          /\ result /\ disk[files[i].name] # NoFile
          /\ CompareFiles(ChecksOf(disk[files[i].name]), files[i].target)
      BY <2>24 DEF VerifyPasses, VerifyNext, Verifying, Synchronized
    <3>5. ASSUME NEW k \in 1..Len(files), k < i + 1, Listed(k)'
          PROVE  AsListed(k)'
      <4>1. CASE k = i
        BY <3>1, <3>2, <3>4, <4>1 DEF AsListed
      <4>2. CASE k # i
        <5>1. k < i /\ files'[k] = files[k]
          BY <1>0, <3>2, <3>5, <4>2
        <5>2. AsListed(k)
          BY <1>0, <3>4, <3>5, <5>1 DEF VerifyInv, Listed
        <5> QED BY <3>4, <5>1, <5>2 DEF AsListed
      <4> QED BY <4>1, <4>2
    <3> QED BY <3>3, <3>4, <3>5 DEF VerifyInv, CancelledMeansFalse
  <2>25. ASSUME NEW readable \in BOOLEAN, VerifyFails(readable) PROVE VerifyInv'
    BY <1>0, <2>25 DEF VerifyInv, CancelledMeansFalse, Listed, AsListed,
       CallbackResult, VerifyFails, VerifyNext, Verifying, downloads
  <2> QED BY <1>3, <2>1, <2>2, <2>3, <2>4, <2>5, <2>6, <2>7, <2>8, <2>9,
         <2>10, <2>11, <2>12, <2>13, <2>14, <2>15, <2>16, <2>17, <2>18, <2>19,
         <2>20, <2>21, <2>22, <2>23, <2>24, <2>25 DEF ActualizeFiles
<1>4. ASSUME NEW f \in Names, Transfer(f) PROVE VerifyInv'
    <2>1. phase[f] = "busy" /\ pc' = pc
      BY <1>4 DEF Transfer, Running, loop
    <2>2. f \in InUse
      BY <2>1 DEF InUse
    <2>3. ~AllFree
      BY <2>2, NoneInUse
    <2>4. pc \notin Settled
      BY <2>3 DEF IInv, SlotInv
    <2> QED BY <2>1, <2>4 DEF VerifyInv, CancelledMeansFalse, Settled
<1>5. ASSUME NEW f \in Names, TransferSettles(f) PROVE VerifyInv'
    BY <1>0, <1>5 DEF VerifyInv, CancelledMeansFalse, Listed, AsListed,
       CallbackResult, TransferSettles, lists, loop
<1>6. ASSUME Asides PROVE VerifyInv'
    BY <1>0, <1>6 DEF VerifyInv, CancelledMeansFalse, Listed, AsListed,
       CallbackResult, Asides, UserCancels, LibraryRefuses, lists, loop, downloads
<1> QED BY <1>1, <1>2, <1>3, <1>4, <1>5, <1>6 DEF Next, Downloads, Asides

-------------------------------------------------------------------------------
(* The invariant and the theorems *)

\* The program starts in the invariant and no step leaves it.
LEMMA InitIInv == Init => IInv
<1> SUFFICES ASSUME Init PROVE IInv
  OBVIOUS
<1>0. /\ files = << >> /\ lines = 0 /\ dlSize = 0 /\ pc = "scan" /\ i = 0 /\ last = 0
      /\ slots = [k \in 1..MaxActive |-> Free]
      /\ finished = FALSE /\ result = FALSE /\ cancelled = FALSE /\ refused = {}
      /\ disk \in [Names -> Contents \cup {NoFile}]
      /\ phase = [f \in Names |-> "none"] /\ started = [f \in Names |-> FALSE]
      /\ outcome = [f \in Names |-> "DOWNLOAD_SUCCESS"]
      /\ complete = [f \in Names |-> FALSE]
  BY DEF Init, Dl!Init
<1>1. /\ files \in Seq(Entry) /\ Len(files) = 0 /\ DOMAIN files = {}
  BY <1>0
<1>2. TypedList
  <2>1. \A k, l \in 1..Len(files) : files[k].name = files[l].name => k = l
    BY <1>1
  <2> QED BY <1>1, <2>1, DistinctNames DEF TypedList
<1>3. DiskTyped
  BY <1>0 DEF DiskTyped
<1>4. FlagsTyped
  BY <1>0 DEF FlagsTyped
<1>5. NumbersTyped
  BY <1>0, <1>1, FileManagerAssumption DEF NumbersTyped
<1>6. PlacesTyped
  BY <1>0, FileManagerAssumption DEF PlacesTyped
<1>7. TypeOK
  BY <1>2, <1>3, <1>4, <1>5, <1>6, TypeParts
<1>8. ListInv
  BY <1>0, <1>1 DEF ListInv
<1>9. InUse = {} /\ AllFree
  BY <1>0 DEF InUse, AllFree
<1>10. SlotInv
  <2>1. ServiceTyped
    BY <1>0 DEF ServiceTyped
  <2>2. SlotsApart
    BY <1>9, FileManagerAssumption DEF SlotsApart, AllFree
  <2>3. SlotsDue
    BY <1>9 DEF SlotsDue
  <2>4. SlotsWhere
    BY <1>0, <1>9 DEF SlotsWhere, Settled
  <2> QED BY <2>1, <2>2, <2>3, <2>4, SlotParts
<1>11. RoundInv
  BY <1>0 DEF RoundInv, Loading
<1>12. VerifyInv
  BY <1>0 DEF VerifyInv, CancelledMeansFalse
<1> QED BY <1>7, <1>8, <1>10, <1>11, <1>12 DEF IInv

LEMMA NextIInv == IInv /\ [Next]_vars => IInv'
  BY TypeNext, ListNext, SlotNext, RoundNext, VerifyInvNext DEF IInv

\* The invariant the theorems below rest on holds of every state that FZFiles
\* can reach, for every set of files, contents and lists and any number of
\* parallel downloads.
THEOREM Inductive == Spec => []IInv
  BY InitIInv, NextIInv, PTL DEF Spec

\* Every variable has the values the code can give it, a file is in the list
\* once, and no loop leaves the list or the slots.
THEOREM TypeCorrect == Spec => []TypeOK
<1>1. IInv => TypeOK
  BY DEF IInv
<1> QED BY <1>1, Inductive, PTL

\* Two slots of one object would be one more than the objects.
LEMMA HeldOnce == ASSUME IInv PROVE LiveObjectsAreInSlots
<1>0. SlotsApart
  BY SlotParts DEF IInv
<1>1. \A k \in 1..MaxActive : slots[k] \in Names \cup {Free}
  BY Typed
<1>2. {slots[k] : k \in UsedSlots} = InUse
  <2>1. InUse \subseteq Names
    BY DEF InUse
  <2> QED BY <1>0, <1>1, <2>1, Typed DEF SlotsApart, UsedSlots
<1>3. Cardinality(UsedSlots) = Cardinality(InUse)
  <2> DEFINE held == [k \in UsedSlots |-> slots[k]]
  <2>1. held \in [UsedSlots -> InUse]
    BY <1>2
  <2>2. \A k, l \in UsedSlots : held[k] = held[l] => k = l
    BY <1>0 DEF SlotsApart, UsedSlots
  <2>3. \A f \in InUse : \E k \in UsedSlots : held[k] = f
    BY <1>2
  <2>4. held \in Bijection(UsedSlots, InUse)
    BY <2>1, <2>2, <2>3 DEF Bijection, Injection, Surjection, IsInjective
  <2>5. IsFiniteSet(UsedSlots)
    <3>1. IsFiniteSet(1..MaxActive) /\ UsedSlots \in SUBSET (1..MaxActive)
      BY Typed, FS_Interval DEF UsedSlots
    <3> QED BY <3>1, FS_Subset
  <2>6. ExistsBijection(UsedSlots, InUse)
    BY <2>4 DEF ExistsBijection
  <2> QED BY <2>5, <2>6, FS_Bijection
<1>4. pc \in Settled => InUse = {}
  BY NoneInUse DEF IInv, SlotInv
<1> QED BY <1>2, <1>3, <1>4 DEF LiveObjectsAreInSlots, Settled

\* Every downloader that exists is held by one slot and every slot holds one
\* that exists; none is left while the files are verified or after the return.
THEOREM ObjectsAreHeld == Spec => []LiveObjectsAreInSlots
<1>1. IInv => LiveObjectsAreInSlots
  BY HeldOnce
<1> QED BY <1>1, Inductive, PTL

\* The flag "finished" is true after a round only if nothing was left in it: no
\* slot in use and no file that was not tried.
LEMMA RoundsTryAll == ASSUME IInv PROVE NothingForgotten
<1> SUFFICES ASSUME pc \in {"stop", "delete"}, result
             PROVE  /\ UsedSlots = {}
                    /\ \A k \in DOMAIN files :
                          files[k].action = "DOWNLOAD" => phase[files[k].name] = "gone"
  BY DEF NothingForgotten
<1>1. AllFree /\ last = 0
  BY DEF IInv, RoundInv
<1>2. UsedSlots = {} /\ InUse = {}
  BY <1>1, NoneInUse DEF UsedSlots, AllFree
<1>3. ASSUME NEW k \in DOMAIN files, files[k].action = "DOWNLOAD"
      PROVE  phase[files[k].name] = "gone"
  <2>1. k \in 1..Len(files) /\ files[k].name \in Names
    BY <1>3, Typed
  <2>2. phase[files[k].name] # "none"
    BY <1>1, <1>3, <2>1 DEF IInv, RoundInv, Loading
  <2>3. files[k].name \notin InUse
    BY <1>2
  <2> QED BY <2>1, <2>2, <2>3, SlotParts DEF IInv, ServiceTyped, InUse
<1> QED BY <1>2, <1>3

\* When the loop over the slots ends because nothing is left to do, every slot
\* is free and every file was tried.
THEOREM NothingIsForgotten == Spec => []NothingForgotten
<1>1. IInv => NothingForgotten
  BY RoundsTryAll
<1> QED BY <1>1, Inductive, PTL

\* If anything was counted for download and ActualizeFiles returns true, every
\* file the lists ask for is on disk with the listed checks.
THEOREM VerifiedIsSynchronized == Spec => []VerifiedMeansSynchronized
<1>1. IInv => VerifiedMeansSynchronized
  BY DEF IInv, VerifyInv, VerifiedMeansSynchronized
<1> QED BY <1>1, Inductive, PTL

\* ActualizeFiles returns true only if the user has not cancelled.
THEOREM CancelIsFalse == Spec => []CancelledMeansFalse
<1>1. IInv => CancelledMeansFalse
  BY DEF IInv, VerifyInv
<1> QED BY <1>1, Inductive, PTL

\* What a step may do to the disk.
LEMMA TouchedIsDue ==
    ASSUME IInv, [Next]_vars, NEW f \in Names, Touched(f)
    PROVE  /\ f \notin ListFiles
           /\ f \in Userdata => disk'[f] # NoFile
           /\ \A k \in DOMAIN files :
                 files[k].name = f => files[k].action \notin {"NO", "IGNORE"}
<1>0. ListInv /\ DOMAIN files = 1..Len(files)
  BY Typed DEF IInv
<1>1. CASE DeleteUnlisted
  <2>1. /\ pc = "classify" /\ i \in 1..Len(files) /\ files[i].action = "UNDEFINED"
        /\ disk' = [disk EXCEPT ![files[i].name] = NoFile]
    BY <1>1, Typed DEF DeleteUnlisted, Classifying, Action, IInv, SlotInv
  <2>2. f = files[i].name
    BY <2>1, Typed DEF Touched
  <2>3. \A k \in 1..Len(files) : files[k].name = f => k = i
    BY <2>1, <2>2, Typed
  <2> QED BY <1>0, <2>1, <2>2, <2>3 DEF ListInv
<1>2. ASSUME NEW g \in Names, Transfer(g)
      PROVE  /\ f \notin ListFiles
             /\ f \in Userdata => disk'[f] # NoFile
             /\ \A k \in DOMAIN files :
                   files[k].name = f => files[k].action \notin {"NO", "IGNORE"}
  <2>1. PICK content \in Contents \cup {disk[g], Partial} :
           disk' = [disk EXCEPT ![g] = content]
    BY <1>2 DEF Transfer
  <2>2. f = g /\ disk'[f] = content /\ content # disk[f]
    BY <2>1, Typed DEF Touched
  <2>3. disk'[f] # NoFile
    BY <2>1, <2>2, RealSizes DEF Partial, Dummy, NoFile
  <2>4. f \in InUse
    BY <1>2, <2>2 DEF Transfer, Running, InUse
  <2>5. PICK n \in DOMAIN files :
           files[n].name = f /\ files[n].action \in {"DOWNLOAD", "VERIFY"}
    BY <2>4 DEF IInv, SlotInv
  <2>6. \A k \in 1..Len(files) : files[k].name = f => k = n
    BY <1>0, <2>5, Typed
  <2>7. pc \notin {"scan", "lists"}
    BY <2>4, NoneInUse DEF IInv, SlotInv
  <2> QED BY <1>0, <2>3, <2>5, <2>6, <2>7 DEF ListInv
<1>3. disk' # disk
  BY DEF Touched
<1>4. DeleteUnlisted \/ \E g \in Names : Transfer(g)
  BY <1>3, ListSteps DEF ScanPath, Prepare, StartAccepted, ApplyIgnoreLine,
     ApplyFileLine, VerifyPasses, VerifyFails, VerifyNext
<1> QED BY <1>1, <1>2, <1>4

\* The update never touches a list file, nor a file that the lists say is up to
\* date or to be ignored, and never removes the user's data.
THEOREM OnlyDueTouched == Spec => OnlyDueFilesTouched
<1>1. IInv /\ [Next]_vars => [\A f \in Names : Touched(f) =>
          /\ f \notin ListFiles
          /\ f \in Userdata => disk'[f] # NoFile
          /\ \A k \in DOMAIN files :
                files[k].name = f => files[k].action \notin {"NO", "IGNORE"}]_vars
  BY TouchedIsDue
<1> QED BY <1>1, Inductive, PTL DEF Spec, OnlyDueFilesTouched

\* FZFiles uses its downloads as module DownloadService lets their owner do:
\* it starts none twice at once, deletes none that is busy, uses none after.
THEOREM UsesDownloadService == Spec => Dl!Spec
<1>1. Init => Dl!Init
  BY DEF Init
<1>2. IInv /\ [Next]_vars => [Dl!Next]_(Dl!vars)
  BY ServiceStep
<1> QED BY <1>1, <1>2, Inductive, PTL DEF Spec, Dl!Spec
===============================================================================
