---------------------------- MODULE MCMasterList ----------------------------
(* Small instances of the master list for TLC. *)
EXTENDS MasterListProperties

CONSTANTS u1, u2, m, other

MCUrls == {u1, u2}
MCMods == {m, other}

MCMirrors == {[bin |-> u1, game |-> u1], [bin |-> u2, game |-> u2],
              [bin |-> NoUrl, game |-> u1]}
MCSections == [name : MCMods,
               mirrors : UNION {[1..n -> MCMirrors] : n \in 0..2}]

\* At most two sections; a name occurs once.
MCMasterLists ==
    {<< >>} \cup {<<s>> : s \in MCSections}
    \cup {l \in [1..2 -> MCSections] : l[1].name # l[2].name}
===============================================================================
