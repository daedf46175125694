------------------------------ MODULE RunStore ------------------------------
(***************************************************************************)
(* The run store of the SciGuard event API: one directory per incident,    *)
(* holding events.jsonl and manifest.json, written by api/run_store.py on  *)
(* behalf of the handlers of api/main.py.                                  *)
(*                                                                         *)
(* Every operation of RunStore that writes holds one RLock, so operations  *)
(* do not interleave with each other; what does interleave is the sequence *)
(* of file-system steps inside an operation with a crash of the process,   *)
(* with a failed write, and with get_manifest, which takes no lock.  The   *)
(* module therefore has one action per file-system step of start_run,      *)
(* append_event and delete_run, and one action for each operation that     *)
(* replaces a single file.                                                 *)
(*                                                                         *)
(* Emitters of events are the run thread that POST /api/runs spawns, and   *)
(* the request handlers that act on a completed run.  Each keeps a private *)
(* EventRecorder whose next sequence number is the length of the list it   *)
(* loaded: append_event compares it with the file under the lock.          *)
(*                                                                         *)
(* The data is abstracted as follows.  sha256 is collision free, so the    *)
(* digest and the count in a manifest are the stream they were computed    *)
(* from ("bound").  An event is its sequence number and the run of the id  *)
(* (1st, 2nd, ... run started under it) whose admission check its emitter  *)
(* passed.  The reset of DataHub metadata that precedes delete_run is an   *)
(* external call that may succeed or raise.                                *)
(***************************************************************************)
EXTENDS Naturals, Sequences

CONSTANTS
    Incidents,       \* incident ids that clients use
    Requests,        \* worker threads that serve repair, recovery and reset
    RunThread,       \* the emitter "thread of the run", distinct from Requests
    NoIncident,      \* None
    FinalStates,     \* incident states that a run can end in
    MaxEvents,       \* bound: events in one stream
    MaxRuns,         \* bound: runs started under one incident id
    MaxWriteErrors,  \* bound: writes that raise OSError
    MaxDeaths        \* bound: crashes of the process, or of a run thread

ASSUME ConstantsAssumption ==
    /\ NoIncident \notin Incidents
    /\ RunThread \notin Requests
    /\ MaxEvents \in Nat
    /\ MaxRuns \in Nat
    /\ MaxWriteErrors \in Nat
    /\ MaxDeaths \in Nat

VARIABLES
    up,          \* the API process is alive
    files,       \* files[i]: what exists of the directory of incident i
    events,      \* events[i]: the content of events.jsonl
    manifest,    \* manifest[i]: the content of manifest.json
    active,      \* RunStore._active_incident
    lock,        \* the operation that holds RunStore._lock
    runs,        \* runs[i]: how many runs were started under id i
    thread,      \* thread[i]: the run thread of the last run of i
    request,     \* request[r]: the handler that worker r executes
    torn,        \* torn[i]: an operation on i was cut short (history)
    writeErrors, \* failed writes so far
    deaths       \* crashes of the process or of a run thread so far

disk == <<files, events, manifest>>
vars == <<up, files, events, manifest, active, lock, runs, thread, request,
          torn, writeErrors, deaths>>
faults == <<writeErrors, deaths>>

Complete == {"dir", "events", "manifest"}
Event == [seq: Nat, run: Nat]
Status == {"RUNNING", "COMPLETED", "FAILED"}
States == FinalStates \cup {"HEALTHY"}
Manifest == [status: Status, state: States, bound: Seq(Event)]
Thread == [pc: {"none", "running", "failing", "done"}, emitted: Nat]

NewManifest == [status |-> "RUNNING", state |-> "HEALTHY", bound |-> <<>>]
Free == [op |-> "free", inc |-> NoIncident, by |-> RunThread]
NoThread == [pc |-> "none", emitted |-> 0]
Idle == [pc |-> "idle", inc |-> NoIncident, run |-> 0, next |-> 0]
Request == [pc: {"admitted", "recording", "resetting"}, inc: Incidents, run: Nat, next: Nat]
           \cup {Idle}

TypeOK ==
    /\ up \in BOOLEAN
    /\ files \in [Incidents -> SUBSET (Complete \cup {"temp"})]
    /\ events \in [Incidents -> Seq(Event)]
    /\ manifest \in [Incidents -> Manifest]
    /\ active \in Incidents \cup {NoIncident}
    /\ lock \in [op: {"start", "append", "delete"}, inc: Incidents,
                 by: Requests \cup {RunThread}] \cup {Free}
    /\ runs \in [Incidents -> Nat]
    /\ thread \in [Incidents -> Thread]
    /\ request \in [Requests -> Request]
    /\ torn \in [Incidents -> BOOLEAN]
    /\ writeErrors \in Nat
    /\ deaths \in Nat

Init ==
    /\ up = TRUE
    /\ files = [i \in Incidents |-> {}]
    /\ events = [i \in Incidents |-> <<>>]
    /\ manifest = [i \in Incidents |-> NewManifest]
    /\ active = NoIncident
    /\ lock = Free
    /\ runs = [i \in Incidents |-> 0]
    /\ thread = [i \in Incidents |-> NoThread]
    /\ request = [r \in Requests |-> Idle]
    /\ torn = [i \in Incidents |-> FALSE]
    /\ writeErrors = 0
    /\ deaths = 0

-----------------------------------------------------------------------------
\* get_manifest: takes no lock, and finds the file or raises FileNotFoundError.
Found(i) == up /\ "manifest" \in files[i]

\* get_events does not raise: the file exists and has the digest and the
\* count that the manifest records.
Readable(i) == Found(i) /\ "events" \in files[i] /\ events[i] = manifest[i].bound

\* The lock can be taken.
Unlocked == up /\ lock.op = "free"

\* Mutants of Accepts: the sequence number, or the FAILED status, is not tested.
AcceptsAnySequence(i, n) == Readable(i) /\ manifest[i].status # "FAILED"
AcceptsAfterFailure(i, n) == Readable(i) /\ n = Len(events[i])

\* append_event accepts an event whose sequence number is n.
Accepts(i, n) ==
    /\ Readable(i)
    /\ manifest[i].status # "FAILED"
    /\ n = Len(events[i])

Running(i) == "manifest" \in files[i] /\ manifest[i].status = "RUNNING"

-----------------------------------------------------------------------------
(* start_run: mkdir, the empty event file, the manifest, the active id.    *)

\* Mutant of StartRun: mkdir(exist_ok=True).
StartRunReusing(i) ==
    /\ Unlocked
    /\ active = NoIncident
    /\ runs[i] < MaxRuns
    /\ files' = [files EXCEPT ![i] = @ \cup {"dir"}]
    /\ lock' = [op |-> "start", inc |-> i, by |-> RunThread]
    /\ UNCHANGED <<up, events, manifest, active, runs, thread, request, torn, faults>>

StartRun(i) ==
    /\ Unlocked
    /\ active = NoIncident
    /\ files[i] = {}
    /\ runs[i] < MaxRuns
    /\ files' = [files EXCEPT ![i] = {"dir"}]
    /\ lock' = [op |-> "start", inc |-> i, by |-> RunThread]
    /\ UNCHANGED <<up, events, manifest, active, runs, thread, request, torn, faults>>

StartEvents(i) ==
    /\ lock.op = "start" /\ lock.inc = i
    /\ "events" \notin files[i]
    /\ files' = [files EXCEPT ![i] = @ \cup {"events"}]
    /\ events' = [events EXCEPT ![i] = <<>>]
    /\ UNCHANGED <<up, manifest, active, lock, runs, thread, request, torn, faults>>

\* The manifest makes the run exist; the handler then spawns the run thread.
StartManifest(i) ==
    /\ lock.op = "start" /\ lock.inc = i
    /\ "events" \in files[i]
    /\ files' = [files EXCEPT ![i] = @ \cup {"manifest"}]
    /\ manifest' = [manifest EXCEPT ![i] = NewManifest]
    /\ active' = i
    /\ lock' = Free
    /\ runs' = [runs EXCEPT ![i] = @ + 1]
    /\ thread' = [thread EXCEPT ![i] = [pc |-> "running", emitted |-> 0]]
    /\ UNCHANGED <<up, events, request, torn, faults>>

-----------------------------------------------------------------------------
(* append_event: the event file is replaced first, then the manifest.      *)

AppendEvents(i, event, by) ==
    /\ Unlocked
    /\ Accepts(i, event.seq)
    /\ Len(events[i]) < MaxEvents
    /\ events' = [events EXCEPT ![i] = Append(@, event)]
    /\ lock' = [op |-> "append", inc |-> i, by |-> by]
    /\ UNCHANGED <<up, files, manifest, active, runs, torn, faults>>

\* Mutant of AppendManifest: the manifest is written with the digest it had.
AppendManifestStale(i) ==
    /\ lock.op = "append" /\ lock.inc = i
    /\ lock' = Free
    /\ UNCHANGED <<up, disk, active, runs, thread, request, torn, faults>>

AppendManifest(i) ==
    /\ lock.op = "append" /\ lock.inc = i
    /\ manifest' = [manifest EXCEPT ![i].bound = events[i]]
    /\ lock' = Free
    /\ UNCHANGED <<up, files, events, active, runs, thread, request, torn, faults>>

\* The run thread emits through the recorder that IncidentRun created empty.
ThreadEmit(i) ==
    /\ thread[i].pc = "running"
    /\ AppendEvents(i, [seq |-> thread[i].emitted, run |-> runs[i]], RunThread)
    /\ thread' = [thread EXCEPT ![i].emitted = @ + 1]
    /\ UNCHANGED request

-----------------------------------------------------------------------------
(* The end of a run: execute() of POST /api/runs.                          *)

\* Mutant of ThreadRaise: execute() has no except clause that calls fail_run.
ThreadRaiseUncaught(i) ==
    /\ up
    /\ thread[i].pc = "running"
    /\ ~(lock.op = "append" /\ lock.inc = i /\ lock.by = RunThread)
    /\ thread' = [thread EXCEPT ![i].pc = "done"]
    /\ UNCHANGED <<up, disk, active, lock, runs, request, torn, faults>>

\* run_live raised, or append_event or finish_run refused.
ThreadRaise(i) ==
    /\ up
    /\ thread[i].pc = "running"
    /\ ~(lock.op = "append" /\ lock.inc = i /\ lock.by = RunThread)
    /\ thread' = [thread EXCEPT ![i].pc = "failing"]
    /\ UNCHANGED <<up, disk, active, lock, runs, request, torn, faults>>

\* Mutant of EndRun: the two fields of the manifest are swapped.
EndRunSwapped(i, status, state) ==
    /\ Unlocked
    /\ manifest' = [manifest EXCEPT ![i].status = state, ![i].state = status]
    /\ active' = IF active = i THEN NoIncident ELSE active
    /\ thread' = [thread EXCEPT ![i].pc = "done"]
    /\ UNCHANGED <<up, files, events, lock, runs, request, torn, faults>>

EndRun(i, status, state) ==
    /\ Unlocked
    /\ manifest' = [manifest EXCEPT ![i].status = status, ![i].state = state]
    /\ active' = IF active = i THEN NoIncident ELSE active
    /\ thread' = [thread EXCEPT ![i].pc = "done"]
    /\ UNCHANGED <<up, files, events, lock, runs, request, torn, faults>>

\* run_live does not return before it has emitted the signal and its verdict.
FinishRun(i) ==
    /\ thread[i].pc = "running"
    /\ thread[i].emitted > 0
    /\ Readable(i)
    /\ \E state \in FinalStates : EndRun(i, "COMPLETED", state)

FailRun(i) ==
    /\ thread[i].pc = "failing"
    /\ Found(i)
    /\ EndRun(i, "FAILED", manifest[i].state)

-----------------------------------------------------------------------------
(* Request handlers.  A repair or recovery request is admitted when the    *)
(* manifest says COMPLETED, calls external systems, then records events.   *)

Begin(r, i, pc) ==
    /\ request[r].pc = "idle"
    /\ Found(i)
    /\ request' = [request EXCEPT
           ![r] = [pc |-> pc, inc |-> i, run |-> runs[i], next |-> 0]]
    /\ UNCHANGED <<up, disk, active, lock, runs, thread, torn, faults>>

\* require_completed_live_run
Admit(r, i) == manifest[i].status = "COMPLETED" /\ Begin(r, i, "admitted")

\* SciGuardRuntime._recorder, and the single recorder of recover
Load(r) ==
    /\ request[r].pc \in {"admitted", "recording"}
    /\ Unlocked
    /\ Readable(request[r].inc)
    /\ request' = [request EXCEPT ![r].pc = "recording",
                                  ![r].next = Len(events[request[r].inc])]
    /\ UNCHANGED <<up, disk, active, lock, runs, thread, torn, faults>>

Emit(r) ==
    /\ request[r].pc = "recording"
    /\ AppendEvents(request[r].inc,
                    [seq |-> request[r].next, run |-> request[r].run], r)
    /\ request' = [request EXCEPT ![r].next = @ + 1]
    /\ UNCHANGED thread

\* update_state, the last call of recover
UpdateState(r) ==
    /\ request[r].pc = "recording"
    /\ Unlocked
    /\ Found(request[r].inc)
    /\ \E state \in FinalStates :
           manifest' = [manifest EXCEPT ![request[r].inc].state = state]
    /\ request' = [request EXCEPT ![r] = Idle]
    /\ UNCHANGED <<up, files, events, active, lock, runs, thread, torn, faults>>

\* The handler returns, or an external call or a store operation raised.
Leave(r) ==
    /\ up
    /\ request[r].pc # "idle"
    /\ ~(lock.op \in {"append", "delete"} /\ lock.by = r)
    /\ request' = [request EXCEPT ![r] = Idle]
    /\ UNCHANGED <<up, disk, active, lock, runs, thread, torn, faults>>

-----------------------------------------------------------------------------
(* POST /api/reset: a check without the lock, the metadata reset, and      *)
(* delete_run, which unlinks the manifest, then the events, then rmdir.    *)

BeginReset(r, i) == manifest[i].status # "RUNNING" /\ Begin(r, i, "resetting")

\* Mutant of DeleteManifest: delete_run trusts the check of the handler.
DeleteManifestUnchecked(r) ==
    LET i == request[r].inc IN
    /\ request[r].pc = "resetting"
    /\ Unlocked
    /\ Found(i)
    /\ files' = [files EXCEPT ![i] = @ \ {"manifest"}]
    /\ manifest' = [manifest EXCEPT ![i] = NewManifest]
    /\ lock' = [op |-> "delete", inc |-> i, by |-> r]
    /\ UNCHANGED <<up, events, active, runs, thread, request, torn, faults>>

DeleteManifest(r) ==
    LET i == request[r].inc IN
    /\ request[r].pc = "resetting"
    /\ Unlocked
    /\ Found(i)
    /\ manifest[i].status # "RUNNING"
    /\ files' = [files EXCEPT ![i] = @ \ {"manifest"}]
    /\ manifest' = [manifest EXCEPT ![i] = NewManifest]
    /\ lock' = [op |-> "delete", inc |-> i, by |-> r]
    /\ UNCHANGED <<up, events, active, runs, thread, request, torn, faults>>

DeleteEvents(i) ==
    /\ lock.op = "delete" /\ lock.inc = i
    /\ "events" \in files[i]
    /\ files' = [files EXCEPT ![i] = @ \ {"events"}]
    /\ events' = [events EXCEPT ![i] = <<>>]
    /\ UNCHANGED <<up, manifest, active, lock, runs, thread, request, torn, faults>>

\* rmdir raises when a temporary file was left behind.
DeleteDirectory(i) ==
    /\ lock.op = "delete" /\ lock.inc = i
    /\ "events" \notin files[i]
    /\ files' = [files EXCEPT ![i] = IF @ = {"dir"} THEN {} ELSE @]
    /\ torn' = [torn EXCEPT ![i] = files[i] # {"dir"}]
    /\ request' = [request EXCEPT ![lock.by] = Idle]
    /\ lock' = Free
    /\ UNCHANGED <<up, events, manifest, active, runs, thread, faults>>

-----------------------------------------------------------------------------
(* Faults.  _atomic_text and save_jsonl write a temporary file and rename  *)
(* it, so a fault never leaves half a file, only possibly the temporary.   *)

\* What a fault leaves in the directories: a temporary of one that is written.
Litter ==
    \E L \in SUBSET {i \in Incidents :
                        \/ lock.inc = i
                        \/ thread[i].pc \in {"running", "failing"}
                        \/ \E r \in Requests : request[r].inc = i} :
        /\ \A i, j \in L : i = j
        /\ files' = [i \in Incidents |->
              IF i \in L /\ "dir" \in files[i] THEN files[i] \cup {"temp"} ELSE files[i]]

\* The next write of the operation that holds the lock raises OSError.
WriteError(i) ==
    /\ lock.op # "free" /\ lock.inc = i
    /\ writeErrors < MaxWriteErrors
    /\ IF lock.op = "delete" THEN UNCHANGED files ELSE Litter
    /\ torn' = [torn EXCEPT ![i] = TRUE]
    /\ lock' = Free
    /\ thread' = IF lock.op = "append" /\ lock.by = RunThread
                 THEN [thread EXCEPT ![i].pc = "failing"] ELSE thread
    /\ request' = IF lock.by \in Requests
                  THEN [request EXCEPT ![lock.by] = Idle] ELSE request
    /\ writeErrors' = writeErrors + 1
    /\ UNCHANGED <<up, events, manifest, active, runs, deaths>>

\* The first or only write of append_event, finish_run or update_state raises:
\* the files keep their content, the caller gets the exception.
FirstWriteError(i) ==
    /\ Unlocked
    /\ Found(i)
    /\ writeErrors < MaxWriteErrors
    /\ files' = [files EXCEPT ![i] = @ \cup {"temp"}]
    /\ \/ /\ thread[i].pc = "running"
          /\ thread' = [thread EXCEPT ![i].pc = "failing"]
          /\ UNCHANGED request
       \/ \E r \in Requests :
          /\ request[r].pc = "recording" /\ request[r].inc = i
          /\ request' = [request EXCEPT ![r] = Idle]
          /\ UNCHANGED thread
    /\ writeErrors' = writeErrors + 1
    /\ UNCHANGED <<up, events, manifest, active, lock, runs, torn, deaths>>

\* fail_run itself raises: the run thread dies and the run stays RUNNING.
FailRunError(i) ==
    /\ Unlocked
    /\ thread[i].pc = "failing"
    /\ deaths < MaxDeaths
    /\ Litter
    /\ thread' = [thread EXCEPT ![i].pc = "done"]
    /\ deaths' = deaths + 1
    /\ UNCHANGED <<up, events, manifest, active, lock, runs, request, torn, writeErrors>>

Crash ==
    /\ up
    /\ deaths < MaxDeaths
    /\ Litter
    /\ up' = FALSE
    /\ torn' = [i \in Incidents |-> torn[i] \/ lock.inc = i]
    /\ active' = NoIncident
    /\ lock' = Free
    /\ thread' = [i \in Incidents |-> NoThread]
    /\ request' = [r \in Requests |-> Idle]
    /\ deaths' = deaths + 1
    /\ UNCHANGED <<events, manifest, runs, writeErrors>>

\* Mutant of Restart: no run is adopted.
RestartForgetting ==
    /\ ~up
    /\ up' = TRUE
    /\ active' = NoIncident
    /\ UNCHANGED <<disk, lock, runs, thread, request, torn, faults>>

\* __init__: adopt a live run that some manifest still calls RUNNING.
Restart ==
    /\ ~up
    /\ up' = TRUE
    /\ IF \E i \in Incidents : Running(i)
       THEN \E i \in Incidents : Running(i) /\ active' = i
       ELSE active' = NoIncident
    /\ UNCHANGED <<disk, lock, runs, thread, request, torn, faults>>

-----------------------------------------------------------------------------
StartStep(i) == StartRun(i) \/ StartEvents(i) \/ StartManifest(i)
ThreadStep(i) == ThreadEmit(i) \/ ThreadRaise(i) \/ FinishRun(i) \/ FailRun(i)
DeleteStep(i) == DeleteEvents(i) \/ DeleteDirectory(i)
RequestStep(r) ==
    \/ \E i \in Incidents : Admit(r, i) \/ BeginReset(r, i)
    \/ Load(r) \/ Emit(r) \/ UpdateState(r) \/ Leave(r) \/ DeleteManifest(r)
FaultStep ==
    \/ Crash \/ Restart
    \/ \E i \in Incidents : WriteError(i) \/ FirstWriteError(i) \/ FailRunError(i)

Next ==
    \/ \E i \in Incidents :
          StartStep(i) \/ AppendManifest(i) \/ ThreadStep(i) \/ DeleteStep(i)
    \/ \E r \in Requests : RequestStep(r)
    \/ FaultStep

Spec == Init /\ [][Next]_vars

\* The run thread keeps running and the holder of the lock leaves it: there is
\* no call inside the lock that waits for anything but the local disk.
Fairness == \A i \in Incidents :
    /\ WF_vars(StartEvents(i) \/ StartManifest(i))
    /\ WF_vars(AppendManifest(i))
    /\ WF_vars(DeleteStep(i))
    /\ WF_vars(ThreadStep(i))

FairSpec == Spec /\ Fairness

-----------------------------------------------------------------------------
(* Properties                                                              *)

\* "One active live run": no history of starts, ends, crashes and restarts
\* leaves two manifests RUNNING, and the in-memory id that start_run tests
\* names exactly the run that the disk calls RUNNING.
SingleActiveRun ==
    /\ \A i, j \in Incidents : Running(i) /\ Running(j) => i = j
    /\ up => \A i \in Incidents : Running(i) <=> active = i

\* Whatever recorders race, a stream is numbered 0, 1, 2, ... in file order.
Contiguous == \A i \in Incidents : \A k \in DOMAIN events[i] : events[i][k].seq = k - 1

\* The event file is the stream the manifest binds, or that stream and one
\* event more whose manifest write was cut short: a fault can make a stream
\* unreadable, but never loses or rewrites an event that was acknowledged.
NoAcknowledgedEventLost ==
    \A i \in Incidents : "manifest" \in files[i] =>
        \/ events[i] = manifest[i].bound
        \/ /\ Len(events[i]) = Len(manifest[i].bound) + 1
           /\ SubSeq(events[i], 1, Len(manifest[i].bound)) = manifest[i].bound

\* Outside the operation that holds the lock, the directory of an incident is
\* absent or complete and readable, unless a fault hit an operation on it:
\* no interleaving of handlers, run threads and resets tears a run.
UntornIsReadable ==
    \A i \in Incidents : ~torn[i] /\ lock.inc # i =>
        \/ files[i] = {}
        \/ Complete \subseteq files[i] /\ events[i] = manifest[i].bound

\* Until its manifest is deleted, a run only gains events, a terminal status
\* stays, and nothing is added to a FAILED run.
HistoryIsFinal ==
    [][\A i \in Incidents :
        "manifest" \in files[i] /\ "manifest" \in files'[i] =>
            LET old == manifest[i] new == manifest'[i] IN
            /\ Len(old.bound) <= Len(new.bound)
            /\ SubSeq(new.bound, 1, Len(old.bound)) = old.bound
            /\ old.status # "RUNNING" => new.status = old.status
            /\ old.status = "FAILED" => new.bound = old.bound]_vars

\* A run that a client could start ends: the thread records COMPLETED or FAILED
\* even when a foreign event makes its own appends fail.  Only the death of the
\* process leaves a manifest RUNNING.
RunsTerminate == \A i \in Incidents : Running(i) ~> ~Running(i) \/ deaths > 0

\* "LIVE means the current execution produced the shown evidence and action":
\* every event of a stream comes from an emitter admitted to this very run.
LiveEventsFromThisRun ==
    \A i \in Incidents : "manifest" \in files[i] =>
        \A k \in DOMAIN events[i] : events[i][k].run = runs[i]

-----------------------------------------------------------------------------
\* What clients are promised, without files, locks, recorders or faults: a
\* run exists from the write of its manifest to the unlinking of its manifest,
\* and the stream of the run is the one the manifest binds.
Promise == INSTANCE EventLog WITH
    Runs <- 1..MaxRuns,
    status <- [i \in Incidents |->
        IF "manifest" \in files[i] THEN manifest[i].status ELSE "ABSENT"],
    log <- [i \in Incidents |->
        IF "manifest" \in files[i] THEN manifest[i].bound ELSE <<>>]

\* Every step of the store, faults included, is one step of the event log or
\* none: the manifest write is the commit point of every operation.
ImplementsEventLog == Promise!Spec
=============================================================================
