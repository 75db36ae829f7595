----------------------------- MODULE CommandLine -----------------------------
(***************************************************************************)
(* CommandLineParser.h: the parameters with which the game calls ModLoad.  *)
(* A command line is the sequence of its words, that is, of what stands    *)
(* between two blanks.  A key is looked up as text with its blanks, in the *)
(* line with a blank before and after it, so that a key is a word - except *)
(* that "-srv " and "-srvport " have no blank in front, and are also found *)
(* at the end of a longer word.  The value of another key is a word like   *)
(* every other, and may itself be taken for a key.                         *)
(***************************************************************************)
EXTENDS Integers, Sequences

CONSTANTS Words,
          EndingIn,         \* the words that end in "-srv" and "-srvport"
          stoi, Throws      \* the number a word starts with, if any

ASSUME CommandLineAssumption ==
    /\ "" \in Words
    /\ \A key \in {"-srv", "-srvport"} : key \in EndingIn[key]
    /\ Throws \notin Int /\ stoi \in [Words -> Int \cup {Throws}]

Positions(key, cmdline) == {k \in DOMAIN cmdline : cmdline[k] \in key}
Find(key, cmdline) == Positions(key, cmdline) # {}

\* The text after the first place of the key, up to the next blank.
ExtractArgString(key, cmdline) ==
    LET pos == CHOOSE k \in Positions(key, cmdline) :
                   \A j \in Positions(key, cmdline) : k <= j
    IN  IF pos < Len(cmdline) THEN cmdline[pos + 1] ELSE ""

ArgDef(key, cmdline, defVal) ==
    IF Find(key, cmdline) THEN ExtractArgString(key, cmdline) ELSE defVal

GetServerIp(cmdline) == ArgDef(EndingIn["-srv"], cmdline, "")

\* stoi("") throws as well.
GetServerPort(cmdline) ==
    IF Find(EndingIn["-srvport"], cmdline)
    THEN stoi[ExtractArgString(EndingIn["-srvport"], cmdline)]
    ELSE -1

GetCustomBinUrl(cmdline)      == ArgDef({"-binlist"}, cmdline, "")
GetCustomGamedataUrl(cmdline) == ArgDef({"-gamelist"}, cmdline, "")
IsMirrorsDisabled(cmdline)    == Find({"-nomirrors"}, cmdline)
Allow64bitEngine(cmdline)     == Find({"-allow64bitengine"}, cmdline)
===============================================================================
