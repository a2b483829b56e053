----------------------------- MODULE MCEventLog -----------------------------
(* Two writers, three events of which two are long and two share a time. *)
EXTENDS EventLog, TLC

MCOwner == "e1" :> "v" @@ "e2" :> "v" @@ "e3" :> "w"
MCStamp == "e1" :> 2 @@ "e2" :> 1 @@ "e3" :> 1
=============================================================================
