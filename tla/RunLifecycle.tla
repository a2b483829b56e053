---------------------------- MODULE RunLifecycle ----------------------------
(***************************************************************************)
(* What the web application promises about its runs, without threads,      *)
(* locks, files or restarts: a run is accepted while fewer than            *)
(* MaxInflight runs are inflight, starts, and ends once, completed or      *)
(* failed; a report grows only for a completed run and is never taken      *)
(* back.                                                                   *)
(***************************************************************************)
EXTENDS Naturals, FiniteSets

CONSTANTS Runs, MaxInflight

VARIABLES status, report

lifecycle == <<status, report>>

Init ==
  /\ status = [r \in Runs |-> "none"]
  /\ report = [r \in Runs |-> "absent"]

Move(r, from, to) ==
  /\ status[r] \in from
  /\ status' = [status EXCEPT ![r] = to]
  /\ UNCHANGED report

Accept(r) ==
  /\ Cardinality({q \in Runs : status[q] \in {"pending", "running"}}) < MaxInflight
  /\ Move(r, {"none"}, "pending")

Begin(r) == Move(r, {"pending"}, "running")

Complete(r) == Move(r, {"running"}, "completed")

Fail(r) == Move(r, {"pending", "running"}, "failed")

Publish(r) ==
  /\ status[r] = "completed"
  /\ \E step \in {<<"absent", "partial">>, <<"partial", "whole">>} :
       /\ report[r] = step[1]
       /\ report' = [report EXCEPT ![r] = step[2]]
  /\ UNCHANGED status

Next ==
  \E r \in Runs : Accept(r) \/ Begin(r) \/ Complete(r) \/ Fail(r) \/ Publish(r)

Spec == Init /\ [][Next]_lifecycle
=============================================================================
