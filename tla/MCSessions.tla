------------------------------ MODULE MCSessions ------------------------------
(* Users for TLC: two lines of one name, as in userlist.txt, where the second *)
(* replaces the first.                                                        *)
EXTENDS Sessions

TwoLinesOfJake == <<[name |-> "jake", password |-> "old"], [name |-> "jake", password |-> "new"]>>
JakesLogins == {[name |-> "jake", password |-> p] : p \in {"old", "new"}}
===============================================================================
