----------------------------- MODULE MCModUpdate -----------------------------
(* Small instances of the mod update for TLC. *)
EXTENDS ModUpdateProperties, TLC

CONSTANTS u1, u2, u1x64, u2x64

MCUrls == {u1, u2}
MCUrl64 == (u1 :> u1x64) @@ (u2 :> u2x64)

\* Mirrors that name both lists, and one without an engine.
M1 == [game |-> u1, bin |-> u1]
M2 == [game |-> u2, bin |-> NoUrl]
MCMirrorLists == {<< >>, <<M1>>, <<M1, M2>>}
SomeMirrors == MCMirrorLists \ {<< >>}

\* Both lists and the 64-bit engine; no list, so that the mirrors give them; a
\* gamedata list only, with the documented key of the port, which is not the
\* one that is looked for; and a key of the port without its number.
Complete  == <<"-binlist", u1, "-gamelist", u2, "-srv", "ip", "-srvport", "5445",
               "-allow64bitengine">>
NoList    == <<"-srv", "ip", "-srvport", "5445", "-nomirrors">>
Gamedata  == <<"-srv", "ip", "-port", "5445", "-gamelist", u1>>
NoNumber  == <<"-fz-srv", "ip", "-binlist", u2, "-srvport">>
MCCommandLines == {Complete, NoList, Gamedata, NoNumber}
WithMirrors == {Complete, Gamedata}

MCWords == UNION {{l[k] : k \in DOMAIN l} : l \in MCCommandLines} \cup {""}
MCEndingIn == [key \in {"-srv", "-srvport"} |->
                  IF key = "-srv" THEN {"-srv", "-fz-srv"} ELSE {key}]
MCstoi == [w \in MCWords |-> IF w = "5445" THEN 5445 ELSE Throws]
===============================================================================
