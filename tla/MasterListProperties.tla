------------------------ MODULE MasterListProperties ------------------------
(***************************************************************************)
(* The policy of the master list, as the comment in Kernel.cpp:240-256 has *)
(* it, against what DownloadAndParseMasterModsList decides.                *)
(***************************************************************************)
EXTENDS MasterList

Approvals == {"NOT_APPROVED", "APPROVED", "ONLY_OLD_CONFIG"}

\* Every variable has the values the code can give it.
TypeOK ==
    /\ {binUrl, gameUrl} \subseteq Given /\ debug \in BOOLEAN
    /\ cfg \in MasterLists \cup {<< >>} /\ listDownloaded \in BOOLEAN
    /\ pc \in {"download", "sections", "decide", "done"}
    /\ link \in 1..MasterLinks + 1 /\ i \in 1..Len(cfg) + 1
    /\ mirrors \in Seq(Mirror)
    /\ paramsApproved \in Approvals /\ result \in Approvals

Decided(approval) == pc = "done" /\ ~debug /\ result = approval
Sections(name) == {k \in DOMAIN cfg : cfg[k].name = name}
Listed == Sections(Mod) # {}

Engine == binUrl = NoUrl \/ \E k \in DOMAIN cfg : Named(binUrl, "bin", cfg[k])

Trusted ==
    /\ Engine
    /\ \A k \in Sections(Mod) :
          Named(binUrl, "bin", cfg[k]) /\ Named(gameUrl, "game", cfg[k])

\* Points 2 and 3: an engine is downloaded only from a URL of the master list,
\* and for a mod that is in the list only from its own section, as is its
\* gamedata; the approval of another mod's section does not count for it.
OnlyTrustedSources == Decided("APPROVED") => Trusted

\* The inductive invariant: while the sections are looked at, an approval
\* speaks for the engine only, and the mod's own section is still to come.
IInv ==
    /\ TypeOK
    /\ pc = "download" => cfg = << >> /\ paramsApproved = "NOT_APPROVED"
    /\ pc = "sections" =>
          /\ \A k \in Sections(Mod) : k >= i
          /\ paramsApproved = "APPROVED" => Engine
    /\ pc \in {"decide", "done"} /\ paramsApproved = "APPROVED" => Trusted
    /\ pc = "done" /\ ~debug => result = paramsApproved

\* The mirrors of a section: the one whose URLs are taken, and those passed on.
Offered(section) ==
    {section.mirrors[j] : j \in DOMAIN section.mirrors} =
        {[bin |-> binUrl, game |-> gameUrl]} \cup {mirrors[j] : j \in DOMAIN mirrors}

WithoutUrls == params.bin = NoUrl /\ params.game = NoUrl

\* A mod that is loaded without URLs gets the first mirror of its section, and
\* the others are all among the mirrors passed on.
EveryMirrorOffered ==
    Decided("APPROVED") /\ Listed /\ WithoutUrls =>
        \A k \in Sections(Mod) : Offered(cfg[k])

\* What EveryMirrorOffered needs to be inductive: the URLs stay those of the
\* parameters until the mod's own section is met, and an approval that was
\* given there has passed the mirrors on.
OfferInv ==
    /\ pc \in {"download", "sections"} => binUrl = params.bin /\ gameUrl = params.game
    /\ pc \in {"decide", "done"} /\ paramsApproved = "APPROVED" /\ WithoutUrls =>
          \A k \in Sections(Mod) : Offered(cfg[k])
===============================================================================
