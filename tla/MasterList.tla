----------------------------- MODULE MasterList -----------------------------
(***************************************************************************)
(* DownloadAndParseMasterModsList of ModLoader.cpp: may the mod with the   *)
(* URLs of its parameters be installed, from where, and with which         *)
(* mirrors?  The master list is a sequence of sections; a section is the   *)
(* name of a mod, which occurs once, and its mirrors, up to the first that *)
(* names no list.                                                          *)
(* Options other than the URLs are left out.                               *)
(***************************************************************************)
EXTENDS Integers, Sequences, FiniteSets

CONSTANTS Urls, NoUrl,
          Mods, Mod,        \* names of mods, and the one to be loaded
          MasterLists,      \* what the servers may hold
          MasterLinks       \* how many servers are asked

Given == Urls \cup {NoUrl}
Mirror == [bin : Given, game : Given] \ {[bin |-> NoUrl, game |-> NoUrl]}

ASSUME MasterListAssumption ==
    /\ NoUrl \notin Urls /\ Mod \in Mods /\ MasterLinks \in Nat \ {0}
    /\ MasterLists \subseteq Seq([name : Mods, mirrors : Seq(Mirror)])
    /\ \A l \in MasterLists : \A j, k \in DOMAIN l : l[j].name = l[k].name => j = k

VARIABLES
    binUrl, gameUrl,    \* of the parameters, then of tmpSettings
    debug,              \* -fz_customlists is among the core parameters
    cfg,                \* the list that was downloaded, or << >>
    pc,
    link,               \* the server asked next
    listDownloaded,
    i,                  \* the section looked at
    mirrors, paramsApproved,
    result,
    params              \* history: the URLs of the parameters

vars == <<binUrl, gameUrl, debug, cfg, pc, link, listDownloaded, i, mirrors,
          paramsApproved, result, params>>

Init ==
    /\ binUrl \in Given /\ gameUrl \in Given /\ debug \in BOOLEAN
    /\ cfg = << >> /\ pc = "download" /\ link = 1 /\ listDownloaded = FALSE
    /\ i = 1 /\ mirrors = << >>
    /\ paramsApproved = "NOT_APPROVED" /\ result = "NOT_APPROVED"
    /\ params = [bin |-> binUrl, game |-> gameUrl]

\* A server answers, with a list that is the same for all its readers.
LinkWorks ==
    /\ pc = "download" /\ link <= MasterLinks
    /\ cfg' \in MasterLists
    /\ listDownloaded' = TRUE
    /\ pc' = "sections"
    /\ UNCHANGED <<binUrl, gameUrl, debug, link, i, mirrors, paramsApproved,
                   result, params>>

\* Mutant: one server too many.
LinkFailsPastEnd ==
    /\ pc = "download" /\ link <= MasterLinks + 1
    /\ link' = link + 1
    /\ UNCHANGED <<binUrl, gameUrl, debug, cfg, pc, listDownloaded, i, mirrors,
                   paramsApproved, result, params>>

LinkFails ==
    /\ pc = "download" /\ link <= MasterLinks
    /\ link' = link + 1
    /\ UNCHANGED <<binUrl, gameUrl, debug, cfg, pc, listDownloaded, i, mirrors,
                   paramsApproved, result, params>>

-------------------------------------------------------------------------------
(* The loop over the sections *)

NoneGiven == binUrl = NoUrl /\ gameUrl = NoUrl

Named(url, field, section) ==
    \E k \in DOMAIN section.mirrors : section.mirrors[k][field] = url

BinlistValid(section)  == NoneGiven \/ Named(binUrl, "bin", section)
GamelistValid(section) == NoneGiven \/ Named(gameUrl, "game", section)

\* Mutant: moved the wrong way.
ShiftedUp(seq) == [k \in DOMAIN seq |-> IF k = 1 THEN seq[1] ELSE seq[k - 1]]

\* All but the last are moved; the length stays.
Shifted(seq) == [k \in DOMAIN seq |-> IF k = Len(seq) THEN seq[k] ELSE seq[k + 1]]

AtSection == pc = "sections" /\ i <= Len(cfg)

\* Mutant: the approval of an earlier section is not withdrawn.
ModSectionKeepsApproval ==
    LET section == cfg[i]
        valid == section.mirrors # << >> /\ BinlistValid(section)
                                         /\ GamelistValid(section)
    IN  /\ AtSection /\ section.name = Mod
        /\ paramsApproved' = IF valid THEN "APPROVED" ELSE paramsApproved
        /\ IF valid /\ NoneGiven
           THEN /\ binUrl' = section.mirrors[1].bin
                /\ gameUrl' = section.mirrors[1].game
                /\ mirrors' = Shifted(section.mirrors)
           ELSE mirrors' = section.mirrors /\ UNCHANGED <<binUrl, gameUrl>>
        /\ pc' = "decide"
        /\ UNCHANGED <<debug, cfg, link, listDownloaded, i, result, params>>

\* The mod's own section decides, whatever the sections before it said.
ModSection ==
    LET section == cfg[i]
        valid == section.mirrors # << >> /\ BinlistValid(section)
                                         /\ GamelistValid(section)
    IN  /\ AtSection /\ section.name = Mod
        /\ paramsApproved' = IF valid THEN "APPROVED" ELSE "NOT_APPROVED"
        /\ IF valid /\ NoneGiven
           THEN /\ binUrl' = section.mirrors[1].bin
                /\ gameUrl' = section.mirrors[1].game
                /\ mirrors' = Shifted(section.mirrors)
           ELSE mirrors' = section.mirrors /\ UNCHANGED <<binUrl, gameUrl>>
        /\ pc' = "decide"
        /\ UNCHANGED <<debug, cfg, link, listDownloaded, i, result, params>>

\* Another mod's section approves an engine that it names, or none.
OtherSection ==
    /\ AtSection /\ cfg[i].name # Mod
    /\ paramsApproved' =
          IF binUrl = NoUrl \/ Named(binUrl, "bin", cfg[i])
          THEN "APPROVED" ELSE paramsApproved
    /\ i' = i + 1
    /\ UNCHANGED <<binUrl, gameUrl, debug, cfg, pc, link, listDownloaded,
                   mirrors, result, params>>

SectionsEnd ==
    /\ pc = "sections" /\ i > Len(cfg)
    /\ pc' = "decide"
    /\ UNCHANGED <<binUrl, gameUrl, debug, cfg, link, listDownloaded, i, mirrors,
                   paramsApproved, result, params>>

-------------------------------------------------------------------------------

\* Without the list: gamedata mods, and what was downloaded before.
NoList ==
    /\ pc = "download" /\ link > MasterLinks
    /\ paramsApproved' = IF binUrl = NoUrl /\ gameUrl # NoUrl
                         THEN "APPROVED" ELSE "ONLY_OLD_CONFIG"
    /\ pc' = "decide"
    /\ UNCHANGED <<binUrl, gameUrl, debug, cfg, link, listDownloaded, i, mirrors,
                   result, params>>

\* Debug mode approves by force.
Decide ==
    /\ pc = "decide"
    /\ result' = IF debug THEN "APPROVED" ELSE paramsApproved
    /\ pc' = "done"
    /\ UNCHANGED <<binUrl, gameUrl, debug, cfg, link, listDownloaded, i, mirrors,
                   paramsApproved, params>>

Next ==
    \/ LinkWorks \/ LinkFails \/ ModSection \/ OtherSection \/ SectionsEnd
    \/ NoList \/ Decide

Spec == Init /\ [][Next]_vars
===============================================================================
