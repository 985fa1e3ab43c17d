--------------------------- MODULE MCRegistryViews ---------------------------
(* A small instance of RegistryViews for TLC: a server that reports a tool *)
(* over stdio, one that is found over HTTP, and one of either kind.        *)
EXTENDS RegistryViews, TLC

CONSTANTS n1, n2, t1, t2, t3, web, search, find, finding, note, the

MCStopWords == {the}
MCStem == [w \in {search, find, finding, note, the} |-> IF w = finding THEN find ELSE w]
MCWithin == {<<find, finding>>}
MCLabel == (t1 :> n1) @@ (t2 :> n2) @@ (t3 :> n2) @@ (web :> None)
MCNameOf == (t1 :> <<find, note>>) @@ (t2 :> <<search, note>>) @@ (t3 :> <<find>>) @@ (web :> <<search>>)
MCDescOf == (t1 :> <<the, note>>) @@ (t2 :> <<search, the, note>>) @@ (t3 :> <<finding, the>>) @@ (web :> <<>>)
MCIntents == {<<finding, the, note>>, <<search>>}

(* The configurations, and what remains of them in an archive. *)
Stdio == [transport |-> "stdio", env |-> TRUE, described |-> TRUE]
Http == [transport |-> "http", env |-> TRUE, described |-> FALSE]
MCGiven == {Stdio, Http}
MCConfigs == MCGiven \cup {Exported(c) : c \in MCGiven}
NoToolsYet == <<>>
MCToolLists == {<<>>, <<t1>>, <<web>>, <<t2, t3>>}
Alike == Permutations(Entries)
=============================================================================
