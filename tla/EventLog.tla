------------------------------ MODULE EventLog ------------------------------
(***************************************************************************)
(* What the run store promises to its clients: at most one run is live at  *)
(* a time; a run has one log, which grows by one numbered event at a time  *)
(* while the run is live or completed and is frozen when it failed; and a  *)
(* run is removed whole, only after it ended.                              *)
(***************************************************************************)
EXTENDS Naturals, Sequences

CONSTANTS
    Incidents,   \* incident ids
    Runs         \* the runs an event can originate from

VARIABLES
    status,      \* status[i]: ABSENT or the status of the run
    log          \* log[i]: the events a client can read

vars == <<status, log>>

Init ==
    /\ status = [i \in Incidents |-> "ABSENT"]
    /\ log = [i \in Incidents |-> <<>>]

Start(i) ==
    /\ status[i] = "ABSENT"
    /\ \A j \in Incidents : status[j] # "RUNNING"
    /\ status' = [status EXCEPT ![i] = "RUNNING"]
    /\ UNCHANGED log

Record(i) ==
    /\ status[i] \in {"RUNNING", "COMPLETED"}
    /\ \E run \in Runs :
           log' = [log EXCEPT ![i] = Append(@, [seq |-> Len(@), run |-> run])]
    /\ UNCHANGED status

End(i) ==
    /\ status[i] = "RUNNING"
    /\ \E outcome \in {"COMPLETED", "FAILED"} :
           status' = [status EXCEPT ![i] = outcome]
    /\ UNCHANGED log

Remove(i) ==
    /\ status[i] \in {"COMPLETED", "FAILED"}
    /\ status' = [status EXCEPT ![i] = "ABSENT"]
    /\ log' = [log EXCEPT ![i] = <<>>]

Next == \E i \in Incidents : Start(i) \/ Record(i) \/ End(i) \/ Remove(i)

Spec == Init /\ [][Next]_vars
=============================================================================
