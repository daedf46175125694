--------------------------- MODULE IncidentState ---------------------------
(***************************************************************************)
(* The incident lifecycle of core/incident_state.py: the transitions that  *)
(* IncidentStateMachine accepts, replay_state, which rebuilds the state    *)
(* from an event stream and rejects what the machine would not have        *)
(* written, and the lifecycle itself as an abstract specification.         *)
(*                                                                         *)
(* Of an event the model keeps its type and, for STATE_TRANSITIONED, the   *)
(* payload's from_state and to_state.  The stream's order and identity     *)
(* (validate_event_stream) are the subject of RunStore.                    *)
(***************************************************************************)
EXTENDS Integers, Sequences

VARIABLE state   \* the state of the incident

HEALTHY == "HEALTHY"
Invalid == "INVALID"   \* replay_state raised

ALLOWED_TRANSITIONS ==
    {<<HEALTHY, "DETECTED">>}
    \cup {"DETECTED"} \X {"RESOLVED", "INVESTIGATING"}
    \cup {"INVESTIGATING"} \X {"AT_RISK", "QUARANTINED", "RESOLVED"}
    \cup {"AT_RISK"} \X {"QUARANTINED", "RECOVERY_PENDING"}
    \cup {<<"QUARANTINED", "RECOVERY_PENDING">>}
    \cup {"RECOVERY_PENDING"} \X {"AT_RISK", "QUARANTINED", "RESOLVED"}

IncidentStates == UNION {{t[1], t[2]} : t \in ALLOWED_TRANSITIONS}

\* One iteration of replay_state
ReplayEvent(s, event) ==
    IF event.type # "STATE_TRANSITIONED" THEN s
    ELSE IF event.from = s /\ <<s, event.to>> \in ALLOWED_TRANSITIONS THEN event.to
    ELSE Invalid

Replay(events) ==
    LET after[n \in 0 .. Len(events)] ==
            IF n = 0 THEN HEALTHY ELSE ReplayEvent(after[n - 1], events[n])
    IN  after[Len(events)]

-----------------------------------------------------------------------------
Transition(target) ==
    /\ <<state, target>> \in ALLOWED_TRANSITIONS
    /\ state' = target

LifecycleSpec ==
    state = HEALTHY /\ [][\E target \in IncidentStates : Transition(target)]_state
=============================================================================
