------------------------------ MODULE BusLink -------------------------------
(***************************************************************************)
(* What hytte-bus's shared connection promises its clients: a sequence of  *)
(* numbered links, at most one up at a time, each lost at most once, each  *)
(* loss reported once before the next link comes up.                       *)
(***************************************************************************)
EXTENDS Integers

VARIABLES
  link,       \* the number of the link that is up, or 0
  last,       \* the number of the newest link
  lossReports \* the links whose loss was reported

vars == <<link, last, lossReports>>

Init == link = 0 /\ last = 0 /\ lossReports = {}

Up ==
  /\ link = 0
  /\ lossReports = 1..last
  /\ last' = last + 1
  /\ link' = last'
  /\ UNCHANGED lossReports

Lose ==
  /\ link # 0
  /\ link' = 0
  /\ lossReports' = lossReports \cup {link}
  /\ UNCHANGED last

Next == Up \/ Lose

Spec == Init /\ [][Next]_vars
=============================================================================
