--------------------------- MODULE MCSearchPanel ---------------------------
(* Two texts that differ by a space, one that is a space, and the label; a  *)
(* table with two sections, and the empty table this repository was         *)
(* generated with.                                                          *)
EXTENDS SearchPanel

MCTexts == {"", "Search", "ab", "a b", " "}
MCSqueezed == [t \in MCTexts |-> IF t = "a b" THEN "ab" ELSE IF t = " " THEN "" ELSE t]
MCStripped == [t \in MCTexts |-> IF t = " " THEN "" ELSE t]
NoTable == [i \in {} |-> {}]
MCTables == {NoTable, [i \in 0 .. 1 |-> IF i = 0 THEN {"ab", "a b", "Search"} ELSE {}]}
=============================================================================
