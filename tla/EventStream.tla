---------------------------- MODULE EventStream -----------------------------
(***************************************************************************)
(* GET /api/runs/{id}/events: the server-sent event stream of a run,       *)
(* composed with the run store it polls.                                   *)
(*                                                                         *)
(* Each round of event_stream (api/main.py) reads the manifest WITHOUT the *)
(* lock, then reads the events under the lock, goes through them one by    *)
(* one and yields those past its cursor, and returns if the manifest it    *)
(* read said the run was over.  The store may take any number of steps     *)
(* between those reads, and while the loop waits for the client.  A        *)
(* dropped connection loses what was yielded but not received; the client  *)
(* reconnects with Last-Event-ID, the last sequence number it received.    *)
(***************************************************************************)
EXTENDS RunStore, Integers

CONSTANTS
    MaxDrops     \* bound: connections that are dropped

ASSUME DropsAssumption == MaxDrops \in Nat

VARIABLES
    server,      \* the coroutine: position in its loop, what it read last
    received,    \* the events the client has received for the incident
    drops        \* connections dropped so far

client == <<server, received, drops>>

\* The coroutine's locals.  over: the manifest read in this round said COMPLETED or
\* FAILED; batch: the events read in this round that the loop has not come to; atEnd:
\* how many events that manifest binds, run: the run it belongs to (both history).
Closed == [pc |-> "closed", inc |-> NoIncident, run |-> 0, cursor |-> -1,
           over |-> FALSE, atEnd |-> 0, batch |-> <<>>]

StreamInit == Init /\ server = Closed /\ received = <<>> /\ drops = 0

-----------------------------------------------------------------------------
\* Last-Event-ID, and after_sequence of a first request
LastEventId == IF received = <<>> THEN -1 ELSE received[Len(received)].seq

\* stream_live_events: 404 unless the manifest exists.  A reconnecting client
\* stays with the incident it follows.
Connect(i) ==
    /\ server.pc = "closed"
    /\ Found(i)
    /\ server.inc \in {i, NoIncident}
    /\ server' = [server EXCEPT !.pc = "read", !.inc = i,
                      !.run = IF received = <<>> THEN runs[i] ELSE @,
                      !.cursor = LastEventId]
    /\ UNCHANGED <<vars, received, drops>>

\* Mutant of ReadManifest: FAILED is no end.
ReadManifestCompleted ==
    /\ server.pc = "read"
    /\ Found(server.inc)
    /\ server' = [server EXCEPT !.pc = "events",
                                !.over = manifest[server.inc].status = "COMPLETED"]
    /\ UNCHANGED <<vars, received, drops>>

\* manifest = store.get_manifest(incident_id)
ReadManifest ==
    /\ server.pc = "read"
    /\ Found(server.inc)
    /\ server' = [server EXCEPT
           !.pc = "events",
           !.over = manifest[server.inc].status \in {"COMPLETED", "FAILED"},
           !.atEnd = Len(manifest[server.inc].bound)]
    /\ UNCHANGED <<vars, received, drops>>

\* events = store.get_events(incident_id)
ReadEvents ==
    /\ server.pc = "events"
    /\ Unlocked
    /\ Readable(server.inc)
    /\ server' = [server EXCEPT !.pc = "yield",
                                !.batch = events[server.inc]]
    /\ UNCHANGED <<vars, received, drops>>

\* FileNotFoundError is caught: the stream ends with an error frame.
ReportMissing ==
    /\ \/ server.pc = "read" /\ up
       \/ server.pc = "events" /\ Unlocked
    /\ ~Found(server.inc)
    /\ server' = [server EXCEPT !.pc = "error", !.batch = <<>>]
    /\ UNCHANGED <<vars, received, drops>>

\* RunStoreIntegrityError is not caught: the connection breaks without a frame, and
\* the client is where it is after a drop.
BreakConnection ==
    /\ server.pc = "events" /\ Unlocked
    /\ Found(server.inc) /\ ~Readable(server.inc)
    /\ server' = [Closed EXCEPT !.inc = server.inc, !.run = server.run]
    /\ UNCHANGED <<vars, received, drops>>

\* Mutant of Past: the comparison is >= instead of >.
PastInclusive(event) == event.seq >= server.cursor

\* ~(event.sequence <= cursor)
Past(event) == event.seq > server.cursor

\* One iteration of the loop over the events: the client has it already, or gets it.
Skip ==
    /\ server.pc = "yield" /\ up
    /\ server.batch # <<>>
    /\ ~Past(Head(server.batch))
    /\ server' = [server EXCEPT !.batch = Tail(@)]
    /\ UNCHANGED <<vars, received, drops>>

Yield ==
    /\ server.pc = "yield" /\ up
    /\ server.batch # <<>>
    /\ Past(Head(server.batch))
    /\ received' = Append(received, Head(server.batch))
    /\ server' = [server EXCEPT !.batch = Tail(@), !.cursor = Head(server.batch).seq]
    /\ UNCHANGED <<vars, drops>>

\* Mutant of EndRound: the manifest is read again after the events.
EndRoundRereading ==
    /\ server.pc = "yield" /\ Found(server.inc)
    /\ server.batch = <<>>
    /\ server' = [server EXCEPT
           !.pc = IF manifest[server.inc].status # "RUNNING" THEN "returned" ELSE "read",
           !.atEnd = Len(manifest[server.inc].bound)]
    /\ UNCHANGED <<vars, received, drops>>

\* The round is over: return, or sleep and read again.
EndRound ==
    /\ server.pc = "yield" /\ up
    /\ server.batch = <<>>
    /\ server' = [server EXCEPT !.pc = IF server.over THEN "returned" ELSE "read",
                                !.over = FALSE]
    /\ UNCHANGED <<vars, received, drops>>

\* The connection drops; what the client received decides where it resumes.
Drop ==
    /\ server.pc \in {"read", "events", "yield"}
    /\ drops < MaxDrops
    /\ drops' = drops + 1
    /\ server' = [Closed EXCEPT !.inc = server.inc, !.run = server.run]
    /\ UNCHANGED <<vars, received>>

ServerStep ==
    \/ \E i \in Incidents : Connect(i)
    \/ ReadManifest \/ ReadEvents \/ ReportMissing \/ BreakConnection
    \/ Skip \/ Yield \/ EndRound \/ Drop

\* A crash of the process drops the connection too.
StoreStep ==
    /\ Next
    /\ server' = IF up' THEN server
                 ELSE IF server.pc \in {"returned", "error"} THEN server
                 ELSE [Closed EXCEPT !.inc = server.inc, !.run = server.run]
    /\ UNCHANGED <<received, drops>>

StreamNext == StoreStep \/ ServerStep

streamVars == <<vars, client>>

StreamSpec == StreamInit /\ [][StreamNext]_streamVars

\* The coroutine is resumed as long as its client is connected, it gets the lock of the
\* store that others release, and the client reconnects after a drop.
StreamFairness ==
    /\ Fairness
    /\ WF_streamVars(ReadManifest \/ ReportMissing \/ Skip \/ Yield \/ EndRound)
    /\ SF_streamVars(ReadEvents \/ ReportMissing \/ BreakConnection)
    /\ \A i \in Incidents : WF_streamVars(Connect(i))

FairStreamSpec == StreamSpec /\ StreamFairness

-----------------------------------------------------------------------------
(* Properties                                                              *)

\* The followed run still is the run of its incident id.
SameRun == server.inc # NoIncident /\ runs[server.inc] = server.run

\* Across polls, drops and reconnections the client receives every event of the
\* run once and in order: what it has is a prefix of the event file.
PrefixReceived ==
    SameRun /\ "manifest" \in files[server.inc] =>
        /\ Len(received) <= Len(events[server.inc])
        /\ received = SubSeq(events[server.inc], 1, Len(received))

\* A stream that returns has delivered everything the run had recorded when it
\* ended: the terminal status is read before the events, never after.
CompleteOnReturn ==
    SameRun /\ server.pc = "returned" => Len(received) >= server.atEnd

\* No operation is in the middle of the run's files, and they disagree.
Unreadable(i) == Unlocked /\ Found(i) /\ ~Readable(i)

\* A client that follows a run learns its end, whatever drops: the stream returns or
\* reports an error, unless a reset removed the run meanwhile, the process died, or
\* a write that failed half way left files that no round can read.  (Then every
\* connection breaks again, also after fail_run ended the run.)
StreamEnds ==
    server.pc = "read" ~> \/ server.pc \in {"returned", "error"}
                          \/ ~SameRun \/ ~Found(server.inc) \/ deaths > 0
                          \/ Unreadable(server.inc)
=============================================================================
