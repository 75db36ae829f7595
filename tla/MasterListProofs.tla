-------------------------- MODULE MasterListProofs --------------------------
(***************************************************************************)
(* Proofs about the master list: what is approved comes from the right     *)
(* section, for every list the servers may hold.                           *)
(***************************************************************************)
EXTENDS MasterListProperties, TLAPS

\* The mirrors of a section stay mirrors when they are moved.
LEMMA ShiftedType ==
    ASSUME NEW seq \in Seq(Mirror)
    PROVE  Shifted(seq) \in Seq(Mirror)
<1>1. \A k \in DOMAIN seq : k # Len(seq) => k + 1 \in DOMAIN seq
    OBVIOUS
<1>2. Shifted(seq) \in [1..Len(seq) -> Mirror]
    BY <1>1 DEF Shifted
<1> QED
    BY <1>2

\* A section of a downloaded list has a name and mirrors.
LEMMA SectionType ==
    ASSUME TypeOK, NEW k \in DOMAIN cfg
    PROVE  cfg[k] \in [name : Mods, mirrors : Seq(Mirror)]
<1> DEFINE Section == [name : Mods, mirrors : Seq(Mirror)]
<1>1. cfg \in MasterLists
    BY DEF TypeOK
<1>2. cfg \in Seq(Section)
    BY <1>1, MasterListAssumption
<1>3. cfg[k] \in Section
    <2> HIDE DEF Section
    <2> QED
        BY <1>2
<1> QED
    BY <1>3

\* A list that a server holds has a length.
LEMMA ListType ==
    ASSUME NEW l \in MasterLists
    PROVE  Len(l) \in Nat /\ DOMAIN l = 1..Len(l)
<1> DEFINE Section == [name : Mods, mirrors : Seq(Mirror)]
<1>1. l \in Seq(Section)
    BY MasterListAssumption
<1> HIDE DEF Section
<1> QED
    BY <1>1

\* The first mirror of a section is one of its mirrors.
LEMMA FirstIsNamed ==
    ASSUME NEW section, section.mirrors \in Seq(Mirror), section.mirrors # << >>
    PROVE  /\ Named(section.mirrors[1].bin, "bin", section)
           /\ Named(section.mirrors[1].game, "game", section)
           /\ section.mirrors[1] \in Mirror
<1>1. 1 \in DOMAIN section.mirrors
    OBVIOUS
<1> QED
    BY <1>1 DEF Named

\* The initial states satisfy the invariant.
LEMMA InitIInv == Init => IInv
<1> SUFFICES ASSUME Init PROVE IInv
    OBVIOUS
<1>1. link \in 1..MasterLinks + 1
    BY MasterListAssumption DEF Init
<1>2. i \in 1..Len(cfg) + 1
    BY DEF Init
<1>3. mirrors \in Seq(Mirror)
    BY DEF Init
<1>4. TypeOK
    BY <1>1, <1>2, <1>3 DEF Init, TypeOK, Approvals
<1> QED
    BY <1>4 DEF Init, IInv

\* Every step keeps the types.
LEMMA NextType ==
    ASSUME IInv, [Next]_vars
    PROVE  TypeOK'
<1>0. TypeOK
    BY DEF IInv
<1> USE <1>0 DEF TypeOK
<1>1. CASE LinkWorks
    <2>1. i = 1 /\ i' = i
        BY <1>1 DEF LinkWorks, IInv
    <2>2. i' \in 1..Len(cfg') + 1
        BY <1>1, <2>1, ListType DEF LinkWorks
    <2> QED
        BY <1>1, <2>2 DEF LinkWorks
<1>2. CASE LinkFails
    BY <1>2, MasterListAssumption DEF LinkFails
<1>3. CASE ModSection
    <2>1. cfg[i].mirrors \in Seq(Mirror) /\ i \in DOMAIN cfg
        BY <1>3, SectionType DEF ModSection, AtSection
    <2>2. mirrors' \in Seq(Mirror)
        BY <1>3, <2>1, ShiftedType DEF ModSection
    <2>3. binUrl' \in Given /\ gameUrl' \in Given
        BY <1>3, <2>1, FirstIsNamed DEF ModSection, Mirror
    <2> QED
        BY <1>3, <2>2, <2>3 DEF ModSection, Approvals
<1>4. CASE OtherSection
    BY <1>4, MasterListAssumption DEF OtherSection, AtSection, Approvals
<1>5. CASE SectionsEnd
    BY <1>5 DEF SectionsEnd
<1>6. CASE NoList
    BY <1>6 DEF NoList, Approvals
<1>7. CASE Decide
    BY <1>7 DEF Decide, Approvals
<1>8. CASE UNCHANGED vars
    BY <1>8 DEF vars
<1> QED
    BY <1>1, <1>2, <1>3, <1>4, <1>5, <1>6, <1>7, <1>8 DEF Next

\* Every step keeps the invariant.
LEMMA NextIInv ==
    ASSUME IInv, [Next]_vars
    PROVE  IInv'
<1>0. TypeOK /\ TypeOK'
    BY NextType DEF IInv
<1>1. CASE LinkWorks
    <2>1. i = 1
        BY <1>0, <1>1 DEF LinkWorks, IInv, TypeOK
    <2>2. \A k \in DOMAIN cfg' : k >= i
        BY <1>1, <2>1, ListType DEF LinkWorks
    <2> QED
        BY <1>0, <1>1, <2>2 DEF LinkWorks, IInv, Sections
<1>2. CASE LinkFails
    BY <1>0, <1>2 DEF LinkFails, IInv
<1>3. CASE ModSection
    <2>1. i \in DOMAIN cfg /\ cfg[i].mirrors \in Seq(Mirror) /\ cfg[i].name = Mod
        BY <1>0, <1>3, SectionType DEF ModSection, AtSection, TypeOK
    <2>2. \A k \in Sections(Mod) : k = i
        BY <1>0, <2>1, MasterListAssumption DEF Sections, TypeOK
    <2>3. ASSUME paramsApproved' = "APPROVED" PROVE Trusted'
        <3>1. cfg[i].mirrors # << >> /\ BinlistValid(cfg[i]) /\ GamelistValid(cfg[i])
            BY <1>3, <2>3 DEF ModSection
        <3>2. Named(binUrl', "bin", cfg[i]) /\ Named(gameUrl', "game", cfg[i])
            BY <1>3, <2>1, <3>1, FirstIsNamed DEF ModSection, BinlistValid, GamelistValid
        <3>3. cfg' = cfg
            BY <1>3 DEF ModSection
        <3> QED
            BY <2>1, <2>2, <3>2, <3>3 DEF Trusted, Engine, Sections
    <2> QED
        BY <1>0, <1>3, <2>3 DEF ModSection, IInv
<1>4. CASE OtherSection
    <2>1. i \in DOMAIN cfg /\ i \in Nat /\ cfg[i].name # Mod
        BY <1>0, <1>4 DEF OtherSection, AtSection, TypeOK
    <2>2. \A k \in Sections(Mod) : k >= i + 1
        BY <1>0, <1>4, <2>1 DEF OtherSection, AtSection, IInv, Sections, TypeOK
    <2>3. paramsApproved' = "APPROVED" => Engine
        BY <1>4, <2>1 DEF OtherSection, AtSection, IInv, Engine
    <2> QED
        BY <1>0, <1>4, <2>2, <2>3 DEF OtherSection, AtSection, IInv, Sections, Engine
<1>5. CASE SectionsEnd
    <2>1. Sections(Mod) = {}
        BY <1>0, <1>5, MasterListAssumption DEF SectionsEnd, IInv, Sections, TypeOK
    <2>2. paramsApproved = "APPROVED" => Trusted
        BY <1>5, <2>1 DEF SectionsEnd, IInv, Trusted
    <2> QED
        BY <1>0, <1>5, <2>2 DEF SectionsEnd, IInv, Trusted, Engine, Sections
<1>6. CASE NoList
    <2>1. paramsApproved' = "APPROVED" => Trusted
        BY <1>6 DEF NoList, IInv, Trusted, Engine, Sections
    <2> QED
        BY <1>0, <1>6, <2>1 DEF NoList, IInv, Trusted, Engine, Sections
<1>7. CASE Decide
    BY <1>0, <1>7 DEF Decide, IInv, Trusted, Engine, Sections
<1>8. CASE UNCHANGED vars
    BY <1>0, <1>8 DEF vars, IInv, Trusted, Engine, Sections
<1> QED
    BY <1>1, <1>2, <1>3, <1>4, <1>5, <1>6, <1>7, <1>8 DEF Next

\* The types, and how the approval relates to the sections already seen, are
\* invariant.
THEOREM Inductive == Spec => []IInv
<1>1. Init => IInv
    BY InitIInv
<1>2. IInv /\ [Next]_vars => IInv'
    BY NextIInv
<1> QED
    BY <1>1, <1>2, PTL DEF Spec

\* Every variable keeps its values, and link and i stay within the servers and
\* the sections (ModLoader.cpp:136, 174).
THEOREM TypeCorrect == Spec => []TypeOK
<1>1. IInv => TypeOK
    BY DEF IInv
<1> QED
    BY <1>1, Inductive, PTL

\* Points 2 and 3 of the policy in Kernel.cpp, for every master list: whatever
\* is approved without debug mode comes from the master list, and for a listed
\* mod from its own section.
THEOREM ApprovedIsTrusted == Spec => []OnlyTrustedSources
<1>1. IInv => OnlyTrustedSources
    BY DEF IInv, OnlyTrustedSources, Decided
<1> QED
    BY <1>1, Inductive, PTL

-------------------------------------------------------------------------------
(* The mirrors *)

\* Moving the mirrors up by one loses no other than the first.
LEMMA ShiftedOffers ==
    ASSUME NEW seq \in Seq(Mirror), seq # << >>
    PROVE  {seq[j] : j \in DOMAIN seq} =
               {seq[1]} \cup {Shifted(seq)[j] : j \in DOMAIN Shifted(seq)}
<1>1. DOMAIN Shifted(seq) = DOMAIN seq /\ DOMAIN seq = 1..Len(seq) /\ Len(seq) \in Nat
      /\ 1 \in DOMAIN seq
    BY DEF Shifted
<1>2. ASSUME NEW j \in DOMAIN seq, j # 1
      PROVE  j - 1 \in DOMAIN seq /\ Shifted(seq)[j - 1] = seq[j]
    BY <1>1, <1>2 DEF Shifted
<1>3. ASSUME NEW j \in DOMAIN seq
      PROVE  \E k \in DOMAIN seq : Shifted(seq)[j] = seq[k]
    <2>1. CASE j = Len(seq)
        BY <2>1 DEF Shifted
    <2>2. CASE j # Len(seq)
        BY <1>1, <2>2 DEF Shifted
    <2> QED
        BY <2>1, <2>2
<1> DEFINE All  == {seq[j] : j \in DOMAIN seq}
           Rest == {Shifted(seq)[j] : j \in DOMAIN Shifted(seq)}
<1>4. ASSUME NEW x \in All PROVE x \in {seq[1]} \cup Rest
    <2>1. PICK j \in DOMAIN seq : x = seq[j]
        BY <1>4
    <2>2. CASE j # 1
        <3>1. j - 1 \in DOMAIN Shifted(seq) /\ Shifted(seq)[j - 1] = x
            BY <1>1, <1>2, <2>1, <2>2
        <3> QED
            BY <3>1
    <2> QED
        BY <2>1, <2>2
<1>5. ASSUME NEW x \in {seq[1]} \cup Rest PROVE x \in All
    BY <1>1, <1>3, <1>5
<1> QED
    BY <1>4, <1>5

\* The parameters are those that Init has seen.
LEMMA InitOffer == Init => OfferInv
    BY DEF Init, OfferInv

\* Only the mod's own section changes the URLs, and it comes last.
LEMMA NextOffer ==
    ASSUME IInv, OfferInv, [Next]_vars
    PROVE  OfferInv'
<1>0. TypeOK
    BY DEF IInv
<1> USE DEF OfferInv, Sections, Offered, WithoutUrls
<1>1. CASE LinkWorks
    BY <1>1 DEF LinkWorks
<1>2. CASE LinkFails
    BY <1>2 DEF LinkFails
<1>3. CASE ModSection
    <2>1. i \in DOMAIN cfg /\ cfg[i].mirrors \in Seq(Mirror) /\ cfg[i].name = Mod
        BY <1>0, <1>3, SectionType DEF ModSection, AtSection, TypeOK
    <2>2. \A k \in Sections(Mod) : k = i
        BY <1>0, <2>1, MasterListAssumption DEF TypeOK
    <2>3. ASSUME paramsApproved' = "APPROVED", WithoutUrls PROVE Offered(cfg[i])'
        <3>1. NoneGiven
            BY <1>3, <2>3 DEF ModSection, AtSection, NoneGiven
        <3>2. cfg[i].mirrors # << >>
            BY <1>3, <2>3 DEF ModSection
        <3>3. /\ binUrl' = cfg[i].mirrors[1].bin /\ gameUrl' = cfg[i].mirrors[1].game
              /\ mirrors' = Shifted(cfg[i].mirrors)
              /\ cfg' = cfg /\ i' = i
            BY <1>3, <2>3, <3>1 DEF ModSection
        <3>4. [bin |-> binUrl', game |-> gameUrl'] = cfg[i].mirrors[1]
            BY <2>1, <3>2, <3>3, FirstIsNamed DEF Mirror
        <3>5. /\ cfg'[i'].mirrors = cfg[i].mirrors
              /\ {cfg[i].mirrors[j] : j \in DOMAIN cfg[i].mirrors} =
                    {cfg[i].mirrors[1]}
                      \cup {Shifted(cfg[i].mirrors)[j] :
                                  j \in DOMAIN Shifted(cfg[i].mirrors)}
            BY <2>1, <3>2, <3>3, ShiftedOffers
        <3> QED
            BY <3>3, <3>4, <3>5
    <2> QED
        BY <1>3, <2>2, <2>3 DEF ModSection
<1>4. CASE OtherSection
    BY <1>4 DEF OtherSection, AtSection
<1>5. CASE SectionsEnd
    <2>1. Sections(Mod) = {}
        BY <1>0, <1>5, MasterListAssumption DEF SectionsEnd, IInv, TypeOK
    <2> QED
        BY <1>5, <2>1 DEF SectionsEnd
<1>6. CASE NoList
    BY <1>6 DEF NoList, IInv
<1>7. CASE Decide
    BY <1>7 DEF Decide
<1>8. CASE UNCHANGED vars
    BY <1>8 DEF vars
<1> QED
    BY <1>1, <1>2, <1>3, <1>4, <1>5, <1>6, <1>7, <1>8 DEF Next

\* For every master list: a listed mod that is loaded without URLs is offered
\* all the mirrors of its section (ModLoader.cpp:203-240).
THEOREM MirrorsAreOffered == Spec => []EveryMirrorOffered
<1>1. IInv /\ OfferInv => EveryMirrorOffered
    BY DEF IInv, OfferInv, EveryMirrorOffered, Decided
<1> QED
    BY <1>1, Inductive, InitOffer, NextOffer, PTL DEF Spec
===============================================================================
