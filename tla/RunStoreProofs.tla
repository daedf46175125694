--------------------------- MODULE RunStoreProofs ---------------------------
(***************************************************************************)
(* Proofs about RunStore, for every set of incidents and workers and every *)
(* value of the bounds.                                                    *)
(***************************************************************************)
EXTENDS RunStore, SequenceTheorems, TLAPS

-----------------------------------------------------------------------------
(* Type correctness                                                        *)

\* What the records of the initial state and of the actions are.
LEMMA RecordTypes ==
    /\ NewManifest \in Manifest
    /\ NoThread \in Thread
    /\ Idle \in Request
    /\ <<>> \in Seq(Event)
BY DEF NewManifest, Manifest, Status, States, Event, NoThread, Thread, Idle, Request

\* While the lock is held it is held for an incident, and never by "free".
LEMMA LockTypes ==
    ASSUME TypeOK, lock.op # "free"
    PROVE  /\ lock.inc \in Incidents
           /\ lock.by \in Requests \cup {RunThread}
           /\ lock.op \in {"start", "append", "delete"}
BY DEF TypeOK, Free

\* Litter keeps directories directories.
LEMMA LitterTypes ==
    ASSUME TypeOK, Litter
    PROVE  /\ files' \in [Incidents -> SUBSET (Complete \cup {"temp"})]
           /\ \A i \in Incidents : \A f \in Complete : f \in files'[i] <=> f \in files[i]
BY DEF TypeOK, Litter, Complete

\* Updates of one field of a run thread keep its type.
LEMMA ThreadTypes ==
    ASSUME TypeOK, NEW i \in Incidents
    PROVE  /\ \A p \in {"none", "running", "failing", "done"} :
                 [thread EXCEPT ![i].pc = p] \in [Incidents -> Thread]
           /\ [thread EXCEPT ![i].emitted = @ + 1] \in [Incidents -> Thread]
<1>1. thread[i] \in Thread /\ thread \in [Incidents -> Thread]
    BY DEF TypeOK
<1>2. \A p \in {"none", "running", "failing", "done"} :
          [thread[i] EXCEPT !.pc = p] \in Thread
    BY <1>1 DEF Thread
<1>3. [thread[i] EXCEPT !.emitted = @ + 1] \in Thread
    BY <1>1 DEF Thread
<1>4. QED
    BY <1>1, <1>2, <1>3

\* Updates of a request keep its type.
LEMMA RequestUpdateTypes ==
    ASSUME TypeOK, NEW r \in Requests
    PROVE  /\ [request EXCEPT ![r] = Idle] \in [Requests -> Request]
           /\ request[r].pc # "idle" =>
                 /\ [request EXCEPT ![r].next = @ + 1] \in [Requests -> Request]
                 /\ \A n \in Nat : [request EXCEPT ![r].pc = "recording", ![r].next = n]
                                     \in [Requests -> Request]
<1>1. request \in [Requests -> Request]
    BY DEF TypeOK
<1>2. [request EXCEPT ![r] = Idle] \in [Requests -> Request]
    BY <1>1, RecordTypes
<1>3. ASSUME request[r].pc # "idle"
      PROVE  /\ [request EXCEPT ![r].next = @ + 1] \in [Requests -> Request]
             /\ \A n \in Nat : [request EXCEPT ![r].pc = "recording", ![r].next = n]
                                 \in [Requests -> Request]
    <2>1. request[r] \in [pc: {"admitted", "recording", "resetting"}, inc: Incidents,
                          run: Nat, next: Nat]
        BY <1>1, <1>3 DEF Request, Idle
    <2>2. [request[r] EXCEPT !.next = @ + 1] \in Request
        BY <2>1 DEF Request
    <2>3. ASSUME NEW n \in Nat
          PROVE  [request[r] EXCEPT !.pc = "recording", !.next = n] \in Request
        BY <2>1 DEF Request
    <2>4. QED
        BY <1>1, <2>2, <2>3
<1>4. QED
    BY <1>2, <1>3

\* A request that is not idle is about an incident.
LEMMA RequestTypes ==
    ASSUME TypeOK, NEW r \in Requests, request[r].pc # "idle"
    PROVE  request[r].inc \in Incidents /\ request[r].run \in Nat /\ request[r].next \in Nat
BY DEF TypeOK, Request, Idle

\* A manifest stays a manifest when its status and state, or its state, change.
LEMMA ManifestTypes ==
    ASSUME TypeOK, NEW i \in Incidents, NEW state \in States
    PROVE  /\ \A status \in Status :
                 [manifest EXCEPT ![i].status = status, ![i].state = state]
                    \in [Incidents -> Manifest]
           /\ [manifest EXCEPT ![i].state = state] \in [Incidents -> Manifest]
           /\ manifest[i].state \in States
           /\ manifest[i].status \in Status
BY DEF TypeOK, Manifest

\* AppendEvents leaves well-typed events and lock.
LEMMA AppendTypes ==
    ASSUME TypeOK, NEW i \in Incidents, NEW event \in Event,
           NEW by \in Requests \cup {RunThread}, AppendEvents(i, event, by)
    PROVE  /\ events' \in [Incidents -> Seq(Event)]
           /\ lock' \in [op: {"start", "append", "delete"}, inc: Incidents,
                         by: Requests \cup {RunThread}]
<1>1. Append(events[i], event) \in Seq(Event)
    BY DEF TypeOK
<1>2. QED
    BY <1>1 DEF AppendEvents, TypeOK

LEMMA TypeOKInductive == TypeOK /\ [Next]_vars => TypeOK'
<1> SUFFICES ASSUME TypeOK, [Next]_vars PROVE TypeOK'
    OBVIOUS
<1> USE RecordTypes, ConstantsAssumption
<1>1. ASSUME NEW i \in Incidents, StartStep(i) PROVE TypeOK'
    <2>1. CASE StartRun(i)
        BY <2>1 DEF StartRun, TypeOK, Complete, disk, faults
    <2>2. CASE StartEvents(i)
        BY <2>2 DEF StartEvents, TypeOK, Complete, faults
    <2>3. CASE StartManifest(i)
        BY <2>3 DEF StartManifest, TypeOK, Complete, Free, Thread, faults
    <2>4. QED
        BY <1>1, <2>1, <2>2, <2>3 DEF StartStep
<1>2. ASSUME NEW i \in Incidents, AppendManifest(i) PROVE TypeOK'
    BY <1>2 DEF AppendManifest, TypeOK, Manifest, faults
<1>3. ASSUME NEW i \in Incidents, ThreadStep(i) PROVE TypeOK'
    <2>1. CASE ThreadEmit(i)
        <3>1. [seq |-> thread[i].emitted, run |-> runs[i]] \in Event
            BY DEF TypeOK, Thread, Event
        <3>2. QED
            BY <2>1, <3>1, AppendTypes, ThreadTypes
               DEF ThreadEmit, AppendEvents, TypeOK, faults
    <2>2. CASE ThreadRaise(i)
        BY <2>2, ThreadTypes DEF ThreadRaise, TypeOK, disk, faults
    <2>3. CASE FinishRun(i)
        <3>1. PICK state \in FinalStates : EndRun(i, "COMPLETED", state)
            BY <2>3 DEF FinishRun
        <3>2. manifest' \in [Incidents -> Manifest]
            BY <3>1, ManifestTypes DEF EndRun, Status, States
        <3>3. thread' \in [Incidents -> Thread]
            BY <3>1, ThreadTypes DEF EndRun
        <3>4. QED
            BY <3>1, <3>2, <3>3 DEF EndRun, TypeOK, faults
    <2>4. CASE FailRun(i)
        <3>1. manifest[i].state \in States /\ "FAILED" \in Status
            BY DEF TypeOK, Manifest, Status
        <3>2. manifest' \in [Incidents -> Manifest]
            BY <2>4, <3>1, ManifestTypes DEF FailRun, EndRun
        <3>3. thread' \in [Incidents -> Thread]
            BY <2>4, ThreadTypes DEF FailRun, EndRun
        <3>4. QED
            BY <2>4, <3>2, <3>3 DEF FailRun, EndRun, TypeOK, faults
    <2>5. QED
        BY <1>3, <2>1, <2>2, <2>3, <2>4 DEF ThreadStep
<1>4. ASSUME NEW i \in Incidents, DeleteStep(i) PROVE TypeOK'
    <2>1. CASE DeleteEvents(i)
        BY <2>1 DEF DeleteEvents, TypeOK, faults
    <2>2. CASE DeleteDirectory(i)
        BY <2>2 DEF DeleteDirectory, TypeOK, faults
    <2>3. QED
        BY <1>4, <2>1, <2>2 DEF DeleteStep
<1>5. ASSUME NEW r \in Requests, RequestStep(r) PROVE TypeOK'
    <2>1. ASSUME NEW i \in Incidents, Admit(r, i) \/ BeginReset(r, i) PROVE TypeOK'
        <3>1. PICK pc \in {"admitted", "resetting"} : Begin(r, i, pc)
            BY <2>1 DEF Admit, BeginReset
        <3>2. [pc |-> pc, inc |-> i, run |-> runs[i], next |-> 0] \in Request
            BY DEF TypeOK, Request
        <3>3. QED
            BY <3>1, <3>2 DEF Begin, TypeOK, disk, faults
    <2>2. CASE Load(r)
        <3>1. request[r].inc \in Incidents
            BY <2>2, RequestTypes DEF Load
        <3>2. Len(events[request[r].inc]) \in Nat
            BY <3>1 DEF TypeOK
        <3>3. QED
            BY <2>2, <3>2, RequestUpdateTypes DEF Load, TypeOK, disk, faults
    <2>3. CASE Emit(r)
        <3>1. request[r].inc \in Incidents
            BY <2>3, RequestTypes DEF Emit
        <3>2. [seq |-> request[r].next, run |-> request[r].run] \in Event
            BY <2>3, RequestTypes DEF Emit, Event
        <3>3. QED
            BY <2>3, <3>1, <3>2, AppendTypes, RequestUpdateTypes
               DEF Emit, AppendEvents, TypeOK, faults
    <2>4. CASE UpdateState(r)
        <3>1. request[r].inc \in Incidents
            BY <2>4, RequestTypes DEF UpdateState
        <3>2. manifest' \in [Incidents -> Manifest]
            BY <2>4, <3>1, ManifestTypes DEF UpdateState, States
        <3>3. request' \in [Requests -> Request]
            BY <2>4, <3>1, RequestUpdateTypes DEF UpdateState
        <3>4. QED
            BY <2>4, <3>2, <3>3 DEF UpdateState, TypeOK, faults
    <2>5. CASE Leave(r)
        BY <2>5 DEF Leave, TypeOK, disk, faults
    <2>6. CASE DeleteManifest(r)
        <3>1. request[r].inc \in Incidents
            BY <2>6, RequestTypes DEF DeleteManifest
        <3>2. QED
            BY <2>6, <3>1 DEF DeleteManifest, TypeOK, faults
    <2>7. QED
        BY <1>5, <2>1, <2>2, <2>3, <2>4, <2>5, <2>6 DEF RequestStep
<1>6. CASE FaultStep
    <2>1. CASE Crash
        <3>1. torn' \in [Incidents -> BOOLEAN]
            BY <2>1 DEF Crash, TypeOK
        <3>2. thread' \in [Incidents -> Thread] /\ request' \in [Requests -> Request]
            BY <2>1 DEF Crash
        <3>3. files' \in [Incidents -> SUBSET (Complete \cup {"temp"})]
            BY <2>1, LitterTypes DEF Crash
        <3>4. /\ up' \in BOOLEAN /\ active' = NoIncident /\ lock' = Free
              /\ deaths' \in Nat
              /\ UNCHANGED <<events, manifest, runs, writeErrors>>
            <4>1. up' \in BOOLEAN
                BY <2>1 DEF Crash
            <4>2. active' = NoIncident /\ lock' = Free
                BY <2>1 DEF Crash
            <4>3. deaths' \in Nat
                BY <2>1 DEF Crash, TypeOK
            <4>4. UNCHANGED <<events, manifest, runs, writeErrors>>
                BY <2>1 DEF Crash
            <4>5. QED
                BY <4>1, <4>2, <4>3, <4>4
        <3>5. QED
            BY <3>1, <3>2, <3>3, <3>4 DEF TypeOK
    <2>2. CASE Restart
        BY <2>2 DEF Restart, TypeOK, disk, faults
    <2>3. ASSUME NEW i \in Incidents, WriteError(i) PROVE TypeOK'
        <3>1. files' \in [Incidents -> SUBSET (Complete \cup {"temp"})]
            BY <2>3, LitterTypes DEF WriteError, TypeOK
        <3>2. thread' \in [Incidents -> Thread]
            BY <2>3, ThreadTypes DEF WriteError, TypeOK
        <3>3. request' \in [Requests -> Request]
            BY <2>3, RequestUpdateTypes DEF WriteError, TypeOK
        <3>4. /\ lock' = Free
              /\ torn' = [torn EXCEPT ![i] = TRUE]
              /\ writeErrors' = writeErrors + 1
              /\ UNCHANGED <<up, events, manifest, active, runs, deaths>>
            BY <2>3 DEF WriteError
        <3>5. QED
            BY <3>1, <3>2, <3>3, <3>4 DEF TypeOK
    <2>4. ASSUME NEW i \in Incidents, FirstWriteError(i) PROVE TypeOK'
        <3>1. thread' \in [Incidents -> Thread]
            <4>1. thread' = [thread EXCEPT ![i].pc = "failing"] \/ thread' = thread
                BY <2>4 DEF FirstWriteError
            <4>2. [thread EXCEPT ![i].pc = "failing"] \in [Incidents -> Thread]
                BY ThreadTypes
            <4>3. thread \in [Incidents -> Thread]
                BY DEF TypeOK
            <4>4. QED
                BY <4>1, <4>2, <4>3
        <3>2. request' \in [Requests -> Request]
            BY <2>4, RequestUpdateTypes DEF FirstWriteError, TypeOK
        <3>3. /\ files' = [files EXCEPT ![i] = @ \cup {"temp"}]
              /\ writeErrors' = writeErrors + 1
              /\ UNCHANGED <<up, events, manifest, active, lock, runs, torn, deaths>>
            BY <2>4 DEF FirstWriteError
        <3>4. QED
            BY <3>1, <3>2, <3>3 DEF TypeOK
    <2>5. ASSUME NEW i \in Incidents, FailRunError(i) PROVE TypeOK'
        <3>1. files' \in [Incidents -> SUBSET (Complete \cup {"temp"})]
            BY <2>5, LitterTypes DEF FailRunError
        <3>2. thread' \in [Incidents -> Thread]
            BY <2>5, ThreadTypes DEF FailRunError
        <3>3. QED
            BY <2>5, <3>1, <3>2 DEF FailRunError, TypeOK
    <2>6. QED
        BY <1>6, <2>1, <2>2, <2>3, <2>4, <2>5 DEF FaultStep
<1>7. CASE UNCHANGED vars
    BY <1>7 DEF vars, TypeOK
<1>8. QED
    BY <1>1, <1>2, <1>3, <1>4, <1>5, <1>6, <1>7 DEF Next

\* Every reachable state of the store is well typed.
THEOREM TypeCorrect == Spec => []TypeOK
<1>1. Init => TypeOK
    BY RecordTypes DEF Init, TypeOK, Free
<1>2. QED
    BY <1>1, TypeOKInductive, PTL DEF Spec

-----------------------------------------------------------------------------
(* The lock                                                                *)

\* What the holder of the lock relies on while it has written some files.
LockInvariant ==
    /\ lock.op # "free" => up
    /\ lock.op = "start" => /\ active = NoIncident
                            /\ "manifest" \notin files[lock.inc]
                            /\ runs[lock.inc] < MaxRuns
                            /\ "events" \in files[lock.inc] => events[lock.inc] = <<>>
    /\ lock.op = "append" => /\ "manifest" \in files[lock.inc]
                             /\ manifest[lock.inc].status # "FAILED"
    /\ lock.op = "delete" => "manifest" \notin files[lock.inc]

\* Who releases the lock owes nothing, and nothing changes for who does not
\* hold it.
LEMMA LockReleased ==
    \/ lock' = Free
    \/ lock.op = "free" /\ UNCHANGED lock
    \/ LockInvariant /\ UNCHANGED <<up, files, events, manifest, active, lock, runs>>
    => LockInvariant'
BY DEF LockInvariant, Free

LEMMA LockInductive == TypeOK /\ LockInvariant /\ [Next]_vars => LockInvariant'
<1> SUFFICES ASSUME TypeOK, LockInvariant, [Next]_vars PROVE LockInvariant'
    OBVIOUS
<1>1. ASSUME NEW i \in Incidents, StartStep(i) PROVE LockInvariant'
    <2>1. CASE StartRun(i)
        BY <2>1 DEF StartRun, Unlocked, LockInvariant, TypeOK
    <2>2. CASE StartEvents(i)
        BY <2>2 DEF StartEvents, LockInvariant, TypeOK
    <2>3. CASE StartManifest(i)
        BY <2>3, LockReleased DEF StartManifest
    <2>4. QED
        BY <1>1, <2>1, <2>2, <2>3 DEF StartStep
<1>2. ASSUME NEW i \in Incidents, AppendManifest(i) PROVE LockInvariant'
    BY <1>2, LockReleased DEF AppendManifest
<1>3. ASSUME NEW i \in Incidents, NEW event, NEW by, AppendEvents(i, event, by)
      PROVE  LockInvariant'
    BY <1>3 DEF AppendEvents, Unlocked, Accepts, Readable, Found, LockInvariant
<1>4. ASSUME NEW i \in Incidents, ThreadStep(i) PROVE LockInvariant'
    <2>1. CASE ThreadEmit(i)
        BY <2>1, <1>3 DEF ThreadEmit
    <2>2. CASE ThreadRaise(i)
        BY <2>2, LockReleased DEF ThreadRaise, disk
    <2>3. CASE FinishRun(i)
        BY <2>3, LockReleased DEF FinishRun, EndRun, Unlocked
    <2>4. CASE FailRun(i)
        BY <2>4, LockReleased DEF FailRun, EndRun, Unlocked
    <2>5. QED
        BY <1>4, <2>1, <2>2, <2>3, <2>4 DEF ThreadStep
<1>5. ASSUME NEW i \in Incidents, DeleteStep(i) PROVE LockInvariant'
    <2>1. CASE DeleteEvents(i)
        BY <2>1 DEF DeleteEvents, LockInvariant, TypeOK
    <2>2. CASE DeleteDirectory(i)
        BY <2>2, LockReleased DEF DeleteDirectory
    <2>3. QED
        BY <1>5, <2>1, <2>2 DEF DeleteStep
<1>6. ASSUME NEW r \in Requests, RequestStep(r) PROVE LockInvariant'
    <2>1. ASSUME NEW i \in Incidents, Admit(r, i) \/ BeginReset(r, i) PROVE LockInvariant'
        BY <2>1, LockReleased DEF Admit, BeginReset, Begin, disk
    <2>2. CASE Load(r)
        BY <2>2, LockReleased DEF Load, disk
    <2>3. CASE Emit(r)
        <3>1. request[r].inc \in Incidents
            BY <2>3, RequestTypes DEF Emit
        <3>2. QED
            BY <2>3, <3>1, <1>3 DEF Emit
    <2>4. CASE UpdateState(r)
        BY <2>4, LockReleased DEF UpdateState, Unlocked
    <2>5. CASE Leave(r)
        BY <2>5, LockReleased DEF Leave, disk
    <2>6. CASE DeleteManifest(r)
        <3>1. request[r].inc \in Incidents
            BY <2>6, RequestTypes DEF DeleteManifest
        <3>2. QED
            BY <2>6, <3>1 DEF DeleteManifest, Unlocked, LockInvariant, TypeOK
    <2>7. QED
        BY <1>6, <2>1, <2>2, <2>3, <2>4, <2>5, <2>6 DEF RequestStep
<1>7. CASE FaultStep
    <2>1. CASE Crash
        BY <2>1, LockReleased DEF Crash
    <2>2. CASE Restart
        <3>1. lock.op = "free" /\ UNCHANGED lock
            BY <2>2 DEF Restart, LockInvariant
        <3>2. QED
            BY <3>1, LockReleased
    <2>3. ASSUME NEW i \in Incidents, WriteError(i) PROVE LockInvariant'
        BY <2>3, LockReleased DEF WriteError
    <2>4. ASSUME NEW i \in Incidents, FirstWriteError(i) PROVE LockInvariant'
        BY <2>4, LockReleased DEF FirstWriteError, Unlocked
    <2>5. ASSUME NEW i \in Incidents, FailRunError(i) PROVE LockInvariant'
        BY <2>5, LockReleased DEF FailRunError, Unlocked
    <2>6. QED
        BY <1>7, <2>1, <2>2, <2>3, <2>4, <2>5 DEF FaultStep
<1>8. CASE UNCHANGED vars
    BY <1>8, LockReleased DEF vars
<1>9. QED
    BY <1>1, <1>2, <1>4, <1>5, <1>6, <1>7, <1>8 DEF Next

-----------------------------------------------------------------------------
(* One active run                                                          *)

\* A step that moves no manifest and does not touch the active id.
LEMMA SameRuns ==
    ASSUME SingleActiveRun, UNCHANGED <<up, manifest, active>>,
           \A i \in Incidents : "manifest" \in files'[i] <=> "manifest" \in files[i]
    PROVE  SingleActiveRun'
BY DEF SingleActiveRun, Running

LEMMA SingleActiveRunInductive ==
    TypeOK /\ LockInvariant /\ SingleActiveRun /\ [Next]_vars => SingleActiveRun'
<1> SUFFICES ASSUME TypeOK, LockInvariant, SingleActiveRun, [Next]_vars
             PROVE  SingleActiveRun'
    OBVIOUS
<1>1. ASSUME NEW i \in Incidents, StartStep(i) PROVE SingleActiveRun'
    <2>1. CASE StartRun(i)
        BY <2>1, SameRuns DEF StartRun, TypeOK
    <2>2. CASE StartEvents(i)
        BY <2>2, SameRuns DEF StartEvents, TypeOK
    <2>3. CASE StartManifest(i)
        \* nothing is RUNNING while start_run holds the lock
        <3>1. up /\ active = NoIncident
            BY <2>3 DEF StartManifest, LockInvariant
        <3>2. \A j \in Incidents : ~Running(j)
            BY <3>1, ConstantsAssumption DEF SingleActiveRun
        <3>3. Running(i)' /\ active' = i
            BY <2>3 DEF StartManifest, Running, NewManifest, TypeOK
        <3>4. \A j \in Incidents \ {i} : ~Running(j)'
            BY <2>3, <3>2 DEF StartManifest, Running, TypeOK
        <3>5. QED
            BY <3>3, <3>4 DEF SingleActiveRun
    <2>4. QED
        BY <1>1, <2>1, <2>2, <2>3 DEF StartStep
<1>2. ASSUME NEW i \in Incidents, AppendManifest(i) PROVE SingleActiveRun'
    <2>1. \A j \in Incidents : Running(j)' <=> Running(j)
        BY <1>2 DEF AppendManifest, Running, TypeOK, Manifest
    <2>2. QED
        BY <1>2, <2>1 DEF AppendManifest, SingleActiveRun
<1>3. ASSUME NEW i \in Incidents, NEW status \in {"COMPLETED", "FAILED"}, NEW state,
             Found(i), EndRun(i, status, state)
      PROVE  SingleActiveRun'
    <2>1. \A j \in Incidents : Running(j)' <=> Running(j) /\ j # i
        BY <1>3 DEF EndRun, Running, TypeOK, Manifest
    <2>2. up /\ up' /\ \A j \in Incidents : Running(j) <=> active = j
        BY <1>3 DEF EndRun, Unlocked, SingleActiveRun
    <2>3. active' = IF active = i THEN NoIncident ELSE active
        BY <1>3 DEF EndRun
    <2>4. QED
        BY <2>1, <2>2, <2>3, ConstantsAssumption DEF SingleActiveRun
<1>4. ASSUME NEW i \in Incidents, ThreadStep(i) PROVE SingleActiveRun'
    <2>1. CASE ThreadEmit(i)
        BY <2>1, SameRuns DEF ThreadEmit, AppendEvents
    <2>2. CASE ThreadRaise(i)
        BY <2>2, SameRuns DEF ThreadRaise, disk
    <2>3. CASE FinishRun(i)
        BY <2>3, <1>3 DEF FinishRun, Readable
    <2>4. CASE FailRun(i)
        BY <2>4, <1>3 DEF FailRun
    <2>5. QED
        BY <1>4, <2>1, <2>2, <2>3, <2>4 DEF ThreadStep
<1>5. ASSUME NEW i \in Incidents, DeleteStep(i) PROVE SingleActiveRun'
    <2>1. CASE DeleteEvents(i)
        BY <2>1, SameRuns DEF DeleteEvents, TypeOK
    <2>2. CASE DeleteDirectory(i)
        <3>1. \A j \in Incidents : "manifest" \in files'[j] <=> "manifest" \in files[j]
            BY <2>2 DEF DeleteDirectory, TypeOK
        <3>2. QED
            BY <2>2, <3>1, SameRuns DEF DeleteDirectory
    <2>3. QED
        BY <1>5, <2>1, <2>2 DEF DeleteStep
<1>6. ASSUME NEW r \in Requests, RequestStep(r) PROVE SingleActiveRun'
    <2>1. ASSUME NEW i \in Incidents, Admit(r, i) \/ BeginReset(r, i) PROVE SingleActiveRun'
        BY <2>1, SameRuns DEF Admit, BeginReset, Begin, disk
    <2>2. CASE Load(r)
        BY <2>2, SameRuns DEF Load, disk
    <2>3. CASE Emit(r)
        BY <2>3, SameRuns DEF Emit, AppendEvents
    <2>4. CASE UpdateState(r)
        <3>1. \A j \in Incidents : Running(j)' <=> Running(j)
            BY <2>4 DEF UpdateState, Running, TypeOK, Manifest
        <3>2. QED
            BY <2>4, <3>1 DEF UpdateState, SingleActiveRun
    <2>5. CASE Leave(r)
        BY <2>5, SameRuns DEF Leave, disk
    <2>6. CASE DeleteManifest(r)
        \* delete_run refuses a RUNNING manifest, so none disappears
        <3>1. request[r].inc \in Incidents
            BY <2>6, RequestTypes DEF DeleteManifest
        <3>2. \A j \in Incidents : Running(j)' <=> Running(j)
            BY <2>6, <3>1 DEF DeleteManifest, Running, TypeOK
        <3>3. QED
            BY <2>6, <3>2 DEF DeleteManifest, SingleActiveRun
    <2>7. QED
        BY <1>6, <2>1, <2>2, <2>3, <2>4, <2>5, <2>6 DEF RequestStep
<1>7. CASE FaultStep
    <2>1. CASE Crash
        <3>1. \A j \in Incidents : Running(j)' <=> Running(j)
            BY <2>1, LitterTypes DEF Crash, Running, Complete
        <3>2. QED
            BY <2>1, <3>1 DEF Crash, SingleActiveRun
    <2>2. CASE Restart
        \* __init__ adopts the RUNNING manifest, and there is at most one
        <3>1. \A j \in Incidents : Running(j)' <=> Running(j)
            BY <2>2 DEF Restart, Running, disk
        <3>2. \A i, j \in Incidents : Running(i) /\ Running(j) => i = j
            BY DEF SingleActiveRun
        <3>3. CASE \E i \in Incidents : Running(i)
            BY <2>2, <3>1, <3>2, <3>3 DEF Restart, SingleActiveRun
        <3>4. CASE ~\E i \in Incidents : Running(i)
            BY <2>2, <3>1, <3>4, ConstantsAssumption DEF Restart, SingleActiveRun
        <3>5. QED
            BY <3>3, <3>4
    <2>3. ASSUME NEW i \in Incidents, WriteError(i) PROVE SingleActiveRun'
        <3>1. \A j \in Incidents : "manifest" \in files'[j] <=> "manifest" \in files[j]
            BY <2>3, LitterTypes DEF WriteError, Complete
        <3>2. QED
            BY <2>3, <3>1, SameRuns DEF WriteError
    <2>4. ASSUME NEW i \in Incidents, FirstWriteError(i) PROVE SingleActiveRun'
        <3>1. \A j \in Incidents : "manifest" \in files'[j] <=> "manifest" \in files[j]
            BY <2>4 DEF FirstWriteError, TypeOK
        <3>2. QED
            BY <2>4, <3>1, SameRuns DEF FirstWriteError
    <2>5. ASSUME NEW i \in Incidents, FailRunError(i) PROVE SingleActiveRun'
        <3>1. \A j \in Incidents : "manifest" \in files'[j] <=> "manifest" \in files[j]
            BY <2>5, LitterTypes DEF FailRunError, Complete
        <3>2. QED
            BY <2>5, <3>1, SameRuns DEF FailRunError
    <2>6. QED
        BY <1>7, <2>1, <2>2, <2>3, <2>4, <2>5 DEF FaultStep
<1>8. CASE UNCHANGED vars
    BY <1>8, SameRuns DEF vars
<1>9. QED
    BY <1>1, <1>2, <1>4, <1>5, <1>6, <1>7, <1>8 DEF Next

\* Whatever crashes, failed writes, restarts and resets happen, at most one
\* manifest is RUNNING and start_run's in-memory guard names that very run.
THEOREM OneActiveRun == Spec => []SingleActiveRun
<1>1. Init => TypeOK /\ LockInvariant /\ SingleActiveRun
    <2>1. Init => TypeOK
        BY RecordTypes DEF Init, TypeOK, Free
    <2>2. Init => LockInvariant /\ SingleActiveRun
        BY ConstantsAssumption DEF Init, LockInvariant, SingleActiveRun, Running, Free
    <2>3. QED
        BY <2>1, <2>2
<1>2. TypeOK /\ LockInvariant /\ SingleActiveRun /\ [Next]_vars
      => (TypeOK /\ LockInvariant /\ SingleActiveRun)'
    BY TypeOKInductive, LockInductive, SingleActiveRunInductive
<1>3. QED
    BY <1>1, <1>2, PTL DEF Spec

-----------------------------------------------------------------------------
(* What a step does to the streams                                         *)

\* The step writes neither stream nor manifest, and creates or deletes none.
Quiet ==
    /\ UNCHANGED <<events, manifest>>
    /\ \A i \in Incidents : "manifest" \in files'[i] <=> "manifest" \in files[i]

\* The run thread exists only as long as its run is RUNNING.
ThreadInvariant ==
    \A i \in Incidents : thread[i].pc \in {"running", "failing"} => Running(i)

\* The run an event comes from is one that was started.
RunNumbers ==
    /\ \A i \in Incidents : /\ runs[i] <= MaxRuns
                            /\ "manifest" \in files[i] => runs[i] >= 1
                            /\ \A k \in DOMAIN events[i] : events[i][k].run \in 1..MaxRuns
    /\ \A r \in Requests : request[r].pc # "idle" => request[r].run \in 1..MaxRuns

\* An emitter appends an event of a run that was started.
Appends(i) == \E event \in Event : \E by \in Requests \cup {RunThread} :
    event.run \in 1..MaxRuns /\ AppendEvents(i, event, by)

\* The run of i ends.
Ends(i) ==
    /\ Running(i)
    /\ \E status \in {"COMPLETED", "FAILED"}, state \in States :
           manifest' = [manifest EXCEPT ![i].status = status, ![i].state = state]
    /\ UNCHANGED <<files, events>>

\* The incident state of i is rewritten.
Restates(i) ==
    /\ \E state \in States : manifest' = [manifest EXCEPT ![i].state = state]
    /\ UNCHANGED <<files, events>>

StreamStep(i) == StartEvents(i) \/ StartManifest(i) \/ Appends(i) \/ AppendManifest(i)
                 \/ Ends(i) \/ Restates(i) \/ DeleteEvents(i)

LEMMA StepCases ==
    ASSUME TypeOK, ThreadInvariant, RunNumbers, [Next]_vars
    PROVE  \/ Quiet
           \/ \E i \in Incidents : StreamStep(i)
           \/ \E r \in Requests : DeleteManifest(r)
<1>1. ASSUME NEW i \in Incidents, StartStep(i) PROVE Quiet \/ StreamStep(i)
    <2>1. CASE StartRun(i)
        BY <2>1 DEF StartRun, Quiet, TypeOK
    <2>2. QED
        BY <1>1, <2>1 DEF StartStep, StreamStep
<1>2. ASSUME NEW i \in Incidents, AppendManifest(i) PROVE StreamStep(i)
    BY <1>2 DEF StreamStep
<1>3. ASSUME NEW i \in Incidents, ThreadStep(i) PROVE Quiet \/ StreamStep(i)
    <2>1. CASE ThreadEmit(i)
        <3>1. runs[i] \in 1..MaxRuns
            BY <2>1 DEF ThreadEmit, AppendEvents, Accepts, Readable, Found, RunNumbers, TypeOK
        <3>2. [seq |-> thread[i].emitted, run |-> runs[i]] \in Event
            BY DEF TypeOK, Thread, Event
        <3>3. Appends(i)
            BY <2>1, <3>1, <3>2 DEF ThreadEmit, Appends
        <3>4. QED
            BY <3>3 DEF StreamStep
    <2>2. CASE ThreadRaise(i)
        BY <2>2 DEF ThreadRaise, Quiet, disk
    <2>3. CASE FinishRun(i)
        <3>1. Running(i)
            BY <2>3 DEF FinishRun, ThreadInvariant
        <3>2. Ends(i)
            BY <2>3, <3>1 DEF FinishRun, EndRun, Ends, States
        <3>3. QED
            BY <3>2 DEF StreamStep
    <2>4. CASE FailRun(i)
        <3>1. Running(i) /\ manifest[i].state \in States
            BY <2>4 DEF FailRun, ThreadInvariant, TypeOK, Manifest
        <3>2. Ends(i)
            BY <2>4, <3>1 DEF FailRun, EndRun, Ends
        <3>3. QED
            BY <3>2 DEF StreamStep
    <2>5. QED
        BY <1>3, <2>1, <2>2, <2>3, <2>4 DEF ThreadStep
<1>4. ASSUME NEW i \in Incidents, DeleteStep(i) PROVE Quiet \/ StreamStep(i)
    <2>1. CASE DeleteDirectory(i)
        BY <2>1 DEF DeleteDirectory, Quiet, TypeOK
    <2>2. QED
        BY <1>4, <2>1 DEF DeleteStep, StreamStep
<1>5. ASSUME NEW r \in Requests, RequestStep(r)
      PROVE  Quiet \/ DeleteManifest(r) \/ \E i \in Incidents : StreamStep(i)
    <2>1. ASSUME NEW i \in Incidents, Admit(r, i) \/ BeginReset(r, i) PROVE Quiet
        BY <2>1 DEF Admit, BeginReset, Begin, Quiet, disk
    <2>2. CASE Load(r)
        BY <2>2 DEF Load, Quiet, disk
    <2>3. CASE Emit(r)
        <3>1. request[r].inc \in Incidents /\ request[r].run \in 1..MaxRuns
            BY <2>3, RequestTypes DEF Emit, RunNumbers
        <3>2. [seq |-> request[r].next, run |-> request[r].run] \in Event
            BY <2>3, RequestTypes DEF Emit, Event
        <3>3. Appends(request[r].inc)
            BY <2>3, <3>1, <3>2 DEF Emit, Appends
        <3>4. QED
            BY <3>1, <3>3 DEF StreamStep
    <2>4. CASE UpdateState(r)
        <3>1. request[r].inc \in Incidents
            BY <2>4, RequestTypes DEF UpdateState
        <3>2. Restates(request[r].inc)
            BY <2>4 DEF UpdateState, Restates, States
        <3>3. QED
            BY <3>1, <3>2 DEF StreamStep
    <2>5. CASE Leave(r)
        BY <2>5 DEF Leave, Quiet, disk
    <2>6. QED
        BY <1>5, <2>1, <2>2, <2>3, <2>4, <2>5 DEF RequestStep
<1>6. CASE FaultStep
    <2>1. CASE Crash
        BY <2>1, LitterTypes DEF Crash, Quiet, Complete
    <2>2. CASE Restart
        BY <2>2 DEF Restart, Quiet, disk
    <2>3. ASSUME NEW i \in Incidents, WriteError(i) PROVE Quiet
        BY <2>3, LitterTypes DEF WriteError, Quiet, Complete
    <2>4. ASSUME NEW i \in Incidents, FirstWriteError(i) PROVE Quiet
        BY <2>4 DEF FirstWriteError, Quiet, TypeOK
    <2>5. ASSUME NEW i \in Incidents, FailRunError(i) PROVE Quiet
        BY <2>5, LitterTypes DEF FailRunError, Quiet, Complete
    <2>6. QED
        BY <1>6, <2>1, <2>2, <2>3, <2>4, <2>5 DEF FaultStep
<1>7. CASE UNCHANGED vars
    BY <1>7 DEF vars, Quiet
<1>8. QED
    BY <1>1, <1>2, <1>3, <1>4, <1>5, <1>6, <1>7 DEF Next

\* A run thread that appends is still running: it waits for its own append.
ThreadHolder ==
    lock.op = "append" /\ lock.by = RunThread => thread[lock.inc].pc = "running"

LEMMA HolderReleased ==
    \/ lock' = Free
    \/ lock.op = "free" /\ UNCHANGED lock
    \/ lock'.op \in {"start", "delete"}
    \/ ThreadHolder /\ UNCHANGED <<lock, thread>>
    => ThreadHolder'
BY DEF ThreadHolder, Free

LEMMA HolderInductive ==
    TypeOK /\ LockInvariant /\ ThreadHolder /\ [Next]_vars => ThreadHolder'
<1> SUFFICES ASSUME TypeOK, LockInvariant, ThreadHolder, [Next]_vars PROVE ThreadHolder'
    OBVIOUS
<1>1. ASSUME NEW i \in Incidents, StartStep(i) PROVE ThreadHolder'
    BY <1>1, HolderReleased DEF StartStep, StartRun, StartEvents, StartManifest
<1>2. ASSUME NEW i \in Incidents, AppendManifest(i) PROVE ThreadHolder'
    BY <1>2, HolderReleased DEF AppendManifest
<1>3. ASSUME NEW i \in Incidents, ThreadStep(i) PROVE ThreadHolder'
    <2>1. CASE ThreadEmit(i)
        BY <2>1 DEF ThreadEmit, AppendEvents, ThreadHolder, TypeOK, Thread
    <2>2. CASE ThreadRaise(i)
        <3>1. \A j \in Incidents \ {i} : thread'[j] = thread[j]
            BY <2>2 DEF ThreadRaise, TypeOK
        <3>2. lock.op # "free" => lock.inc \in Incidents
            BY LockTypes
        <3>3. QED
            BY <2>2, <3>1, <3>2 DEF ThreadRaise, ThreadHolder
    <2>3. CASE FinishRun(i)
        BY <2>3, HolderReleased DEF FinishRun, EndRun, Unlocked
    <2>4. CASE FailRun(i)
        BY <2>4, HolderReleased DEF FailRun, EndRun, Unlocked
    <2>5. QED
        BY <1>3, <2>1, <2>2, <2>3, <2>4 DEF ThreadStep
<1>4. ASSUME NEW i \in Incidents, DeleteStep(i) PROVE ThreadHolder'
    BY <1>4, HolderReleased DEF DeleteStep, DeleteEvents, DeleteDirectory
<1>5. ASSUME NEW r \in Requests, RequestStep(r) PROVE ThreadHolder'
    <2>1. CASE Emit(r)
        BY <2>1, ConstantsAssumption DEF Emit, AppendEvents, ThreadHolder
    <2>2. CASE DeleteManifest(r)
        BY <2>2, HolderReleased DEF DeleteManifest
    <2>3. QED
        BY <1>5, <2>1, <2>2, HolderReleased
           DEF RequestStep, Admit, BeginReset, Begin, Load, UpdateState, Leave
<1>6. CASE FaultStep
    <2>1. CASE Crash
        BY <2>1, HolderReleased DEF Crash
    <2>2. CASE Restart
        BY <2>2, HolderReleased DEF Restart
    <2>3. ASSUME NEW i \in Incidents, WriteError(i) PROVE ThreadHolder'
        BY <2>3, HolderReleased DEF WriteError
    <2>4. ASSUME NEW i \in Incidents, FirstWriteError(i) PROVE ThreadHolder'
        BY <2>4, HolderReleased DEF FirstWriteError, Unlocked
    <2>5. ASSUME NEW i \in Incidents, FailRunError(i) PROVE ThreadHolder'
        BY <2>5, HolderReleased DEF FailRunError, Unlocked
    <2>6. QED
        BY <1>6, <2>1, <2>2, <2>3, <2>4, <2>5 DEF FaultStep
<1>7. CASE UNCHANGED vars
    BY <1>7, HolderReleased DEF vars
<1>8. QED
    BY <1>1, <1>2, <1>3, <1>4, <1>5, <1>6, <1>7 DEF Next

\* No run thread starts in a step that leaves every run RUNNING that was.
LEMMA ThreadsKept ==
    ASSUME ThreadInvariant,
           \A i \in Incidents : thread'[i].pc \in {"running", "failing"} =>
               thread[i].pc \in {"running", "failing"} /\ (Running(i) => Running(i)')
    PROVE  ThreadInvariant'
BY DEF ThreadInvariant

LEMMA ThreadInductive ==
    TypeOK /\ ThreadHolder /\ ThreadInvariant /\ [Next]_vars => ThreadInvariant'
<1> SUFFICES ASSUME TypeOK, ThreadHolder, ThreadInvariant, [Next]_vars
             PROVE  ThreadInvariant'
    OBVIOUS
<1>1. ASSUME Quiet, UNCHANGED thread PROVE ThreadInvariant'
    BY <1>1, ThreadsKept DEF Quiet, Running
<1>2. ASSUME Quiet, NEW i \in Incidents, NEW p,
             thread' = [thread EXCEPT ![i].pc = p] \/ thread' = thread,
             thread[i].pc \in {"running", "failing"} \/ p \notin {"running", "failing"}
      PROVE  ThreadInvariant'
    BY <1>2, ThreadsKept DEF Quiet, Running, TypeOK, Thread
<1>3. ASSUME NEW i \in Incidents, StartStep(i) PROVE ThreadInvariant'
    <2>1. CASE StartRun(i)
        BY <2>1, <1>1 DEF StartRun, Quiet, TypeOK
    <2>2. CASE StartEvents(i)
        BY <2>2, ThreadsKept DEF StartEvents, Running, TypeOK
    <2>3. CASE StartManifest(i)
        BY <2>3 DEF StartManifest, ThreadInvariant, Running, NewManifest, TypeOK
    <2>4. QED
        BY <1>3, <2>1, <2>2, <2>3 DEF StartStep
<1>4. ASSUME NEW i \in Incidents, AppendManifest(i) PROVE ThreadInvariant'
    BY <1>4, ThreadsKept DEF AppendManifest, Running, TypeOK, Manifest
<1>5. ASSUME NEW i \in Incidents, NEW status, NEW state, EndRun(i, status, state)
      PROVE  ThreadInvariant'
    BY <1>5, ThreadsKept DEF EndRun, Running, TypeOK, Manifest, Thread
<1>6. ASSUME NEW i \in Incidents, ThreadStep(i) PROVE ThreadInvariant'
    <2>1. CASE ThreadEmit(i)
        BY <2>1, ThreadsKept DEF ThreadEmit, AppendEvents, Running, TypeOK, Thread
    <2>2. CASE ThreadRaise(i)
        BY <2>2, <1>2 DEF ThreadRaise, Quiet, disk
    <2>3. CASE FinishRun(i)
        BY <2>3, <1>5 DEF FinishRun
    <2>4. CASE FailRun(i)
        BY <2>4, <1>5 DEF FailRun
    <2>5. QED
        BY <1>6, <2>1, <2>2, <2>3, <2>4 DEF ThreadStep
<1>7. ASSUME NEW i \in Incidents, DeleteStep(i) PROVE ThreadInvariant'
    <2>1. CASE DeleteEvents(i)
        BY <2>1, ThreadsKept DEF DeleteEvents, Running, TypeOK
    <2>2. CASE DeleteDirectory(i)
        BY <2>2, <1>1 DEF DeleteDirectory, Quiet, TypeOK
    <2>3. QED
        BY <1>7, <2>1, <2>2 DEF DeleteStep
<1>8. ASSUME NEW r \in Requests, RequestStep(r) PROVE ThreadInvariant'
    <2>1. ASSUME NEW i \in Incidents, Admit(r, i) \/ BeginReset(r, i) PROVE ThreadInvariant'
        BY <2>1, <1>1 DEF Admit, BeginReset, Begin, Quiet, disk
    <2>2. CASE Load(r)
        BY <2>2, <1>1 DEF Load, Quiet, disk
    <2>3. CASE Emit(r)
        BY <2>3, ThreadsKept DEF Emit, AppendEvents, Running
    <2>4. CASE UpdateState(r)
        BY <2>4, ThreadsKept DEF UpdateState, Running, TypeOK, Manifest
    <2>5. CASE Leave(r)
        BY <2>5, <1>1 DEF Leave, Quiet, disk
    <2>6. CASE DeleteManifest(r)
        \* what delete_run deletes is not RUNNING
        <3>1. request[r].inc \in Incidents
            BY <2>6, RequestTypes DEF DeleteManifest
        <3>2. \A j \in Incidents : Running(j) => Running(j)'
            BY <2>6, <3>1 DEF DeleteManifest, Running, TypeOK
        <3>3. QED
            BY <2>6, <3>2, ThreadsKept DEF DeleteManifest
    <2>7. QED
        BY <1>8, <2>1, <2>2, <2>3, <2>4, <2>5, <2>6 DEF RequestStep
<1>9. CASE FaultStep
    <2>1. CASE Crash
        BY <2>1 DEF Crash, ThreadInvariant, NoThread
    <2>2. CASE Restart
        BY <2>2, <1>1 DEF Restart, Quiet, disk
    <2>3. ASSUME NEW i \in Incidents, WriteError(i) PROVE ThreadInvariant'
        <3>1. Quiet
            BY <2>3, LitterTypes DEF WriteError, Quiet, Complete
        <3>2. \/ thread' = thread
              \/ thread[i].pc = "running" /\ thread' = [thread EXCEPT ![i].pc = "failing"]
            BY <2>3 DEF WriteError, ThreadHolder
        <3>3. QED
            BY <3>1, <3>2, <1>1, <1>2
    <2>4. ASSUME NEW i \in Incidents, FirstWriteError(i) PROVE ThreadInvariant'
        <3>1. Quiet
            BY <2>4 DEF FirstWriteError, Quiet, TypeOK
        <3>2. \/ thread' = thread
              \/ thread[i].pc = "running" /\ thread' = [thread EXCEPT ![i].pc = "failing"]
            BY <2>4 DEF FirstWriteError
        <3>3. QED
            BY <3>1, <3>2, <1>1, <1>2
    <2>5. ASSUME NEW i \in Incidents, FailRunError(i) PROVE ThreadInvariant'
        <3>1. Quiet
            BY <2>5, LitterTypes DEF FailRunError, Quiet, Complete
        <3>2. QED
            BY <2>5, <3>1, <1>2 DEF FailRunError
    <2>6. QED
        BY <1>9, <2>1, <2>2, <2>3, <2>4, <2>5 DEF FaultStep
<1>10. CASE UNCHANGED vars
    BY <1>10, <1>1 DEF vars, Quiet
<1>11. QED
    BY <1>3, <1>4, <1>6, <1>7, <1>8, <1>9, <1>10 DEF Next

\* No request starts, no run starts and no event is recorded.
LEMMA NumbersKept ==
    ASSUME RunNumbers, UNCHANGED <<runs, events>>,
           \A i \in Incidents : "manifest" \in files'[i] => "manifest" \in files[i],
           \A r \in Requests : request'[r].pc # "idle" =>
               request[r].pc # "idle" /\ request'[r].run = request[r].run
    PROVE  RunNumbers'
BY DEF RunNumbers

LEMMA RunNumbersInductive ==
    TypeOK /\ LockInvariant /\ RunNumbers /\ [Next]_vars => RunNumbers'
<1> SUFFICES ASSUME TypeOK, LockInvariant, RunNumbers, [Next]_vars PROVE RunNumbers'
    OBVIOUS
<1> USE DEF TypeOK
<1>1. ASSUME UNCHANGED <<runs, request, events>>, UNCHANGED files \/ Litter PROVE RunNumbers'
    <2>1. \A i \in Incidents : "manifest" \in files'[i] <=> "manifest" \in files[i]
        BY <1>1, LitterTypes DEF Complete
    <2>2. QED
        BY <1>1, <2>1, NumbersKept
<1>2. ASSUME NEW i \in Incidents, NEW event \in Event, NEW by, event.run \in 1..MaxRuns,
             AppendEvents(i, event, by)
      PROVE  \A j \in Incidents : \A k \in DOMAIN events'[j] : events'[j][k].run \in 1..MaxRuns
    <2>1. \A k \in DOMAIN Append(events[i], event) :
              Append(events[i], event)[k].run \in 1..MaxRuns
        <3>1. events[i] \in Seq(Event)
            OBVIOUS
        <3>2. \A k \in 1..Len(events[i]) : events[i][k].run \in 1..MaxRuns
            BY <3>1, LenProperties DEF RunNumbers
        <3>3. QED
            BY <1>2, <3>1, <3>2, AppendProperties
    <2>2. QED
        BY <1>2, <2>1 DEF AppendEvents, RunNumbers
<1>3. ASSUME NEW i \in Incidents, StartStep(i) PROVE RunNumbers'
    <2>1. CASE StartRun(i)
        BY <2>1, NumbersKept DEF StartRun
    <2>2. CASE StartEvents(i)
        BY <2>2 DEF StartEvents, RunNumbers
    <2>3. CASE StartManifest(i)
        <3>1. runs[i] < MaxRuns
            BY <2>3 DEF StartManifest, LockInvariant
        <3>2. QED
            BY <2>3, <3>1, ConstantsAssumption DEF StartManifest, RunNumbers
    <2>4. QED
        BY <1>3, <2>1, <2>2, <2>3 DEF StartStep
<1>4. ASSUME NEW i \in Incidents, AppendManifest(i) PROVE RunNumbers'
    BY <1>4, <1>1 DEF AppendManifest
<1>5. ASSUME NEW i \in Incidents, ThreadStep(i) PROVE RunNumbers'
    <2>1. CASE ThreadEmit(i)
        <3>1. runs[i] \in 1..MaxRuns
            BY <2>1 DEF ThreadEmit, AppendEvents, Accepts, Readable, Found, RunNumbers
        <3>2. [seq |-> thread[i].emitted, run |-> runs[i]] \in Event
            BY DEF Thread, Event
        <3>3. QED
            BY <2>1, <3>1, <3>2, <1>2 DEF ThreadEmit, AppendEvents, RunNumbers
    <2>2. CASE ThreadRaise(i)
        BY <2>2, <1>1 DEF ThreadRaise, disk
    <2>3. CASE FinishRun(i)
        BY <2>3, <1>1 DEF FinishRun, EndRun
    <2>4. CASE FailRun(i)
        BY <2>4, <1>1 DEF FailRun, EndRun
    <2>5. QED
        BY <1>5, <2>1, <2>2, <2>3, <2>4 DEF ThreadStep
<1>6. ASSUME NEW i \in Incidents, DeleteStep(i) PROVE RunNumbers'
    <2>1. CASE DeleteEvents(i)
        BY <2>1 DEF DeleteEvents, RunNumbers
    <2>2. CASE DeleteDirectory(i)
        <3>1. \A j \in Incidents : "manifest" \in files'[j] => "manifest" \in files[j]
            BY <2>2 DEF DeleteDirectory
        <3>2. \A r \in Requests : request'[r] = Idle \/ request'[r] = request[r]
            BY <2>2 DEF DeleteDirectory
        <3>3. QED
            BY <2>2, <3>1, <3>2, NumbersKept DEF DeleteDirectory, Idle
    <2>3. QED
        BY <1>6, <2>1, <2>2 DEF DeleteStep
<1>7. ASSUME NEW r \in Requests, RequestStep(r) PROVE RunNumbers'
    <2>1. ASSUME NEW i \in Incidents, Admit(r, i) \/ BeginReset(r, i) PROVE RunNumbers'
        <3>1. PICK pc \in {"admitted", "resetting"} : Begin(r, i, pc)
            BY <2>1 DEF Admit, BeginReset
        <3>2. runs[i] \in 1..MaxRuns
            BY <3>1, ConstantsAssumption DEF Begin, Found, RunNumbers
        <3>3. request'[r].run = runs[i] /\ \A q \in Requests \ {r} : request'[q] = request[q]
            BY <3>1 DEF Begin
        <3>4. QED
            BY <3>1, <3>2, <3>3 DEF Begin, RunNumbers, disk
    <2>2. CASE Load(r)
        <3>1. request'[r].run = request[r].run /\ request[r].pc # "idle"
            BY <2>2 DEF Load, Request, Idle
        <3>2. \A q \in Requests \ {r} : request'[q] = request[q]
            BY <2>2 DEF Load
        <3>3. QED
            BY <2>2, <3>1, <3>2, NumbersKept DEF Load, disk
    <2>3. CASE Emit(r)
        <3>1. request[r].inc \in Incidents /\ request[r].run \in 1..MaxRuns
            BY <2>3, RequestTypes DEF Emit, RunNumbers
        <3>2. [seq |-> request[r].next, run |-> request[r].run] \in Event
            BY <2>3, RequestTypes DEF Emit, Event
        <3>3. request'[r].run = request[r].run /\ request[r].pc # "idle"
            BY <2>3 DEF Emit, Request, Idle
        <3>4. \A q \in Requests \ {r} : request'[q] = request[q]
            BY <2>3 DEF Emit
        <3>5. UNCHANGED <<runs, files>>
            BY <2>3 DEF Emit, AppendEvents
        <3>6. \A j \in Incidents : \A k \in DOMAIN events'[j] : events'[j][k].run \in 1..MaxRuns
            BY <2>3, <3>1, <3>2, <1>2 DEF Emit
        <3>7. QED
            BY <3>3, <3>4, <3>5, <3>6 DEF RunNumbers
    <2>4. CASE UpdateState(r)
        BY <2>4, NumbersKept DEF UpdateState, Idle
    <2>5. CASE Leave(r)
        BY <2>5, NumbersKept DEF Leave, disk, Idle
    <2>6. CASE DeleteManifest(r)
        <3>1. request[r].inc \in Incidents
            BY <2>6, RequestTypes DEF DeleteManifest
        <3>2. QED
            BY <2>6, <3>1, NumbersKept DEF DeleteManifest
    <2>7. QED
        BY <1>7, <2>1, <2>2, <2>3, <2>4, <2>5, <2>6 DEF RequestStep
<1>8. CASE FaultStep
    <2>1. CASE Crash
        <3>1. \A i \in Incidents : "manifest" \in files'[i] <=> "manifest" \in files[i]
            BY <2>1, LitterTypes DEF Crash, Complete
        <3>2. \A r \in Requests : request'[r].pc = "idle"
            BY <2>1 DEF Crash, Idle
        <3>3. QED
            BY <2>1, <3>1, <3>2, NumbersKept DEF Crash
    <2>2. CASE Restart
        BY <2>2, <1>1 DEF Restart, disk
    <2>3. ASSUME NEW i \in Incidents, WriteError(i) PROVE RunNumbers'
        <3>1. \A j \in Incidents : "manifest" \in files'[j] <=> "manifest" \in files[j]
            BY <2>3, LitterTypes DEF WriteError, Complete
        <3>2. \A r \in Requests : request'[r] = Idle \/ request'[r] = request[r]
            BY <2>3 DEF WriteError
        <3>3. QED
            BY <2>3, <3>1, <3>2, NumbersKept DEF WriteError, Idle
    <2>4. ASSUME NEW i \in Incidents, FirstWriteError(i) PROVE RunNumbers'
        <3>1. \A j \in Incidents : "manifest" \in files'[j] <=> "manifest" \in files[j]
            BY <2>4 DEF FirstWriteError
        <3>2. \A r \in Requests : request'[r] = Idle \/ request'[r] = request[r]
            BY <2>4 DEF FirstWriteError
        <3>3. QED
            BY <2>4, <3>1, <3>2, NumbersKept DEF FirstWriteError, Idle
    <2>5. ASSUME NEW i \in Incidents, FailRunError(i) PROVE RunNumbers'
        BY <2>5, <1>1 DEF FailRunError
    <2>6. QED
        BY <1>8, <2>1, <2>2, <2>3, <2>4, <2>5 DEF FaultStep
<1>9. CASE UNCHANGED vars
    BY <1>9, <1>1 DEF vars
<1>10. QED
    BY <1>3, <1>4, <1>5, <1>6, <1>7, <1>8, <1>9 DEF Next

-----------------------------------------------------------------------------
(* The streams                                                             *)

\* What Append does to a stream, in the terms of the two invariants.
LEMMA AppendedStream ==
    ASSUME NEW s \in Seq(Event), NEW event \in Event
    PROVE  /\ Append(s, event) \in Seq(Event)
           /\ Len(Append(s, event)) = Len(s) + 1
           /\ SubSeq(Append(s, event), 1, Len(s)) = s
<1>1. /\ Append(s, event) \in Seq(Event)
      /\ Len(Append(s, event)) = Len(s) + 1
      /\ \A k \in 1..Len(s) : Append(s, event)[k] = s[k]
    BY AppendProperties
<1>2. \A k \in 1..Len(s) : Append(s, event)[k] \in Event
    BY <1>1, ElementOfSeq
<1>3. /\ SubSeq(Append(s, event), 1, Len(s)) \in Seq(Event)
      /\ Len(SubSeq(Append(s, event), 1, Len(s))) = Len(s)
      /\ \A k \in 1..Len(s) : SubSeq(Append(s, event), 1, Len(s))[k] = s[k]
    BY <1>1, <1>2, SubSeqProperties, LenProperties
<1>4. QED
    BY <1>1, <1>3, SeqEqual

\* A stream that extends s by one event is s with that event appended.
LEMMA OneMore ==
    ASSUME NEW s \in Seq(Event), NEW t \in Seq(Event),
           Len(t) = Len(s) + 1, SubSeq(t, 1, Len(s)) = s
    PROVE  /\ t[Len(t)] \in Event
           /\ t = Append(s, t[Len(t)])
<1>1. Len(s) \in Nat /\ Len(t) \in 1..Len(t)
    BY LenProperties
<1>2. t[Len(t)] \in Event /\ \A k \in 1..Len(s) : t[k] \in Event
    BY <1>1, ElementOfSeq
<1>3. \A k \in 1..Len(s) : t[k] = s[k]
    BY <1>1, <1>2, SubSeqProperties
<1>4. /\ Append(s, t[Len(t)]) \in Seq(Event)
      /\ Len(Append(s, t[Len(t)])) = Len(t)
      /\ \A k \in 1..Len(t) : Append(s, t[Len(t)])[k] = t[k]
    BY <1>1, <1>2, <1>3, AppendProperties
<1>5. QED
    BY <1>2, <1>4, SeqEqual

LEMMA ContiguousInductive ==
    ASSUME TypeOK, Contiguous,
           Quiet \/ (\E i \in Incidents : StreamStep(i)) \/ \E r \in Requests : DeleteManifest(r)
    PROVE  Contiguous'
<1>1. ASSUME UNCHANGED events PROVE Contiguous'
    BY <1>1 DEF Contiguous
<1>2. ASSUME NEW i \in Incidents, StartEvents(i) \/ DeleteEvents(i) PROVE Contiguous'
    <2>1. events' = [events EXCEPT ![i] = <<>>]
        BY <1>2 DEF StartEvents, DeleteEvents
    <2>2. events'[i] = <<>> /\ \A j \in Incidents \ {i} : events'[j] = events[j]
        BY <2>1 DEF TypeOK
    <2>3. DOMAIN <<>> = {}
        OBVIOUS
    <2>4. QED
        BY <2>2, <2>3 DEF Contiguous
<1>3. ASSUME NEW i \in Incidents, Appends(i) PROVE Contiguous'
    <2>1. PICK event \in Event, by \in Requests \cup {RunThread} : AppendEvents(i, event, by)
        BY <1>3 DEF Appends
    <2>2. events[i] \in Seq(Event) /\ event.seq = Len(events[i])
        BY <2>1 DEF AppendEvents, Accepts, TypeOK
    <2>3. \A k \in DOMAIN Append(events[i], event) : Append(events[i], event)[k].seq = k - 1
        <3>1. \A k \in 1..Len(events[i]) : events[i][k].seq = k - 1
            BY <2>2, LenProperties DEF Contiguous
        <3>2. QED
            BY <2>2, <3>1, AppendProperties
    <2>4. QED
        BY <2>1, <2>3 DEF AppendEvents, Contiguous, TypeOK
<1>4. ASSUME NEW i \in Incidents, StreamStep(i) PROVE Contiguous'
    BY <1>4, <1>1, <1>2, <1>3 DEF StreamStep, StartManifest, AppendManifest, Ends, Restates
<1>5. ASSUME NEW r \in Requests, DeleteManifest(r) PROVE Contiguous'
    BY <1>5, <1>1 DEF DeleteManifest
<1>6. QED
    BY <1>1, <1>4, <1>5 DEF Quiet

LEMMA NoEventLostInductive ==
    ASSUME TypeOK, LockInvariant, NoAcknowledgedEventLost,
           Quiet \/ (\E i \in Incidents : StreamStep(i)) \/ \E r \in Requests : DeleteManifest(r)
    PROVE  NoAcknowledgedEventLost'
<1> DEFINE Bound(i) == manifest[i].bound
<1>1. ASSUME UNCHANGED events,
             \A i \in Incidents : "manifest" \in files'[i] =>
                 "manifest" \in files[i] /\ Bound(i)' = Bound(i)
      PROVE  NoAcknowledgedEventLost'
    BY <1>1 DEF NoAcknowledgedEventLost
<1>2. CASE Quiet
    BY <1>2, <1>1 DEF Quiet
<1>3. ASSUME NEW i \in Incidents, StreamStep(i) PROVE NoAcknowledgedEventLost'
    <2>1. CASE StartEvents(i)
        BY <2>1 DEF StartEvents, LockInvariant, NoAcknowledgedEventLost, TypeOK
    <2>2. CASE StartManifest(i)
        BY <2>2 DEF StartManifest, LockInvariant, NoAcknowledgedEventLost, NewManifest, TypeOK
    <2>3. CASE Appends(i)
        <3>1. PICK event \in Event, by \in Requests \cup {RunThread} :
                  AppendEvents(i, event, by)
            BY <2>3 DEF Appends
        <3>2. events[i] \in Seq(Event) /\ Bound(i) = events[i]
            BY <3>1 DEF AppendEvents, Accepts, Readable, TypeOK
        <3>3. /\ Len(events'[i]) = Len(Bound(i)) + 1
              /\ SubSeq(events'[i], 1, Len(Bound(i))) = Bound(i)
            BY <3>1, <3>2, AppendedStream DEF AppendEvents, TypeOK
        <3>4. \A j \in Incidents \ {i} : events'[j] = events[j]
            BY <3>1 DEF AppendEvents, TypeOK
        <3>5. UNCHANGED <<manifest, files>>
            BY <3>1 DEF AppendEvents
        <3>6. QED
            BY <3>3, <3>4, <3>5 DEF NoAcknowledgedEventLost
    <2>4. CASE AppendManifest(i)
        BY <2>4 DEF AppendManifest, NoAcknowledgedEventLost, TypeOK, Manifest
    <2>5. CASE Ends(i)
        BY <2>5, <1>1 DEF Ends, TypeOK, Manifest
    <2>6. CASE Restates(i)
        BY <2>6, <1>1 DEF Restates, TypeOK, Manifest
    <2>7. CASE DeleteEvents(i)
        BY <2>7 DEF DeleteEvents, LockInvariant, NoAcknowledgedEventLost, TypeOK
    <2>8. QED
        BY <1>3, <2>1, <2>2, <2>3, <2>4, <2>5, <2>6, <2>7 DEF StreamStep
<1>4. ASSUME NEW r \in Requests, DeleteManifest(r) PROVE NoAcknowledgedEventLost'
    <2>1. request[r].inc \in Incidents
        BY <1>4, RequestTypes DEF DeleteManifest
    <2>2. QED
        BY <1>4, <2>1, <1>1 DEF DeleteManifest, TypeOK
<1>5. QED
    BY <1>2, <1>3, <1>4

-----------------------------------------------------------------------------
(* Safety of the streams, for every value of the constants                 *)

\* The inductive invariant.
StoreInvariant ==
    /\ TypeOK /\ LockInvariant /\ SingleActiveRun /\ ThreadHolder
    /\ ThreadInvariant /\ RunNumbers /\ Contiguous /\ NoAcknowledgedEventLost

LEMMA StoreInitially == Init => StoreInvariant
<1> SUFFICES ASSUME Init PROVE StoreInvariant
    OBVIOUS
<1>1. TypeOK
    BY RecordTypes DEF Init, TypeOK, Free
<1>2. LockInvariant /\ SingleActiveRun /\ ThreadHolder
    BY ConstantsAssumption
       DEF Init, LockInvariant, SingleActiveRun, ThreadHolder, Running, Free
<1>3. ThreadInvariant
    BY DEF Init, ThreadInvariant, NoThread
<1>4. RunNumbers /\ Contiguous
    <2>1. DOMAIN <<>> = {}
        OBVIOUS
    <2>2. QED
        BY <2>1, ConstantsAssumption DEF Init, RunNumbers, Contiguous, Idle
<1>5. NoAcknowledgedEventLost
    BY DEF Init, NoAcknowledgedEventLost
<1>6. QED
    BY <1>1, <1>2, <1>3, <1>4, <1>5 DEF StoreInvariant

LEMMA StoreInductive == StoreInvariant /\ [Next]_vars => StoreInvariant'
<1> SUFFICES ASSUME StoreInvariant, [Next]_vars PROVE StoreInvariant'
    OBVIOUS
<1> USE DEF StoreInvariant
<1>1. TypeOK' /\ LockInvariant' /\ SingleActiveRun' /\ ThreadHolder' /\ ThreadInvariant'
    BY TypeOKInductive, LockInductive, SingleActiveRunInductive, HolderInductive,
       ThreadInductive
<1>2. RunNumbers'
    BY RunNumbersInductive
<1>3. Contiguous' /\ NoAcknowledgedEventLost'
    BY StepCases, ContiguousInductive, NoEventLostInductive
<1>4. QED
    BY <1>1, <1>2, <1>3

THEOREM StoreSafe == Spec => []StoreInvariant
BY StoreInitially, StoreInductive, PTL DEF Spec

\* Every event that append_event acknowledged stays in its stream, in place, as
\* long as the run exists: faults add at most one event that was not acknowledged.
THEOREM AcknowledgedEventsStay == Spec => []NoAcknowledgedEventLost
<1>1. StoreInvariant => NoAcknowledgedEventLost
    BY DEF StoreInvariant
<1>2. QED
    BY <1>1, StoreSafe, PTL

\* Whatever recorders race, the sequence numbers of a stream are its positions.
THEOREM StreamsContiguous == Spec => []Contiguous
<1>1. StoreInvariant => Contiguous
    BY DEF StoreInvariant
<1>2. QED
    BY <1>1, StoreSafe, PTL

-----------------------------------------------------------------------------
(* Ended runs                                                              *)

LEMMA ManifestParts ==
    ASSUME TypeOK, NEW i \in Incidents
    PROVE  /\ manifest[i].status \in Status
           /\ manifest[i].bound \in Seq(Event)
           /\ events[i] \in Seq(Event)
BY DEF TypeOK, Manifest

\* What HistoryIsFinal says of one incident.
Final(i) ==
    "manifest" \in files[i] /\ "manifest" \in files'[i] =>
        /\ Len(manifest[i].bound) <= Len(manifest'[i].bound)
        /\ SubSeq(manifest'[i].bound, 1, Len(manifest[i].bound)) = manifest[i].bound
        /\ manifest[i].status # "RUNNING" => manifest'[i].status = manifest[i].status
        /\ manifest[i].status = "FAILED" => manifest'[i].bound = manifest[i].bound

LEMMA SameManifestFinal ==
    ASSUME TypeOK, NEW i \in Incidents, manifest'[i].bound = manifest[i].bound,
           manifest[i].status # "RUNNING" => manifest'[i].status = manifest[i].status
    PROVE  Final(i)
BY ManifestParts, SubSeqFull, LenProperties DEF Final

LEMMA StepIsFinal == StoreInvariant /\ [Next]_vars => \A i \in Incidents : Final(i)
<1> SUFFICES ASSUME StoreInvariant, [Next]_vars, NEW i \in Incidents PROVE Final(i)
    OBVIOUS
<1> USE DEF StoreInvariant
<1>1. ASSUME manifest'[i] = manifest[i] PROVE Final(i)
    BY <1>1, SameManifestFinal
<1>2. CASE Quiet
    BY <1>2, <1>1 DEF Quiet
<1>3. ASSUME NEW j \in Incidents, StreamStep(j) PROVE Final(i)
    <2>1. CASE StartEvents(j) \/ Appends(j) \/ DeleteEvents(j)
        BY <2>1, <1>1 DEF StartEvents, Appends, AppendEvents, DeleteEvents
    <2>2. CASE StartManifest(j)
        <3>1. CASE i = j
            BY <2>2, <3>1 DEF StartManifest, LockInvariant, Final
        <3>2. CASE i # j
            BY <2>2, <3>2, <1>1 DEF StartManifest, TypeOK
        <3>3. QED
            BY <3>1, <3>2
    <2>3. CASE AppendManifest(j)
        <3>1. CASE i = j
            <4>1. manifest'[i].bound = events[i] /\ manifest'[i].status = manifest[i].status
                BY <2>3, <3>1 DEF AppendManifest, TypeOK, Manifest
            <4>2. manifest[i].status # "FAILED" /\ "manifest" \in files[i]
                BY <2>3, <3>1 DEF AppendManifest, LockInvariant
            <4>3. /\ Len(manifest[i].bound) <= Len(events[i])
                  /\ SubSeq(events[i], 1, Len(manifest[i].bound)) = manifest[i].bound
                BY <4>2, ManifestParts, SubSeqFull, LenProperties
                   DEF NoAcknowledgedEventLost
            <4>4. QED
                BY <4>1, <4>2, <4>3 DEF Final
        <3>2. CASE i # j
            BY <2>3, <3>2, <1>1 DEF AppendManifest, TypeOK
        <3>3. QED
            BY <3>1, <3>2
    <2>4. CASE Ends(j)
        <3>1. /\ manifest'[i].bound = manifest[i].bound
              /\ i # j => manifest'[i].status = manifest[i].status
            BY <2>4 DEF Ends, TypeOK, Manifest
        <3>2. manifest[j].status = "RUNNING"
            BY <2>4 DEF Ends, Running
        <3>3. QED
            BY <3>1, <3>2, SameManifestFinal
    <2>5. CASE Restates(j)
        <3>1. /\ manifest'[i].bound = manifest[i].bound
              /\ manifest'[i].status = manifest[i].status
            BY <2>5 DEF Restates, TypeOK, Manifest
        <3>2. QED
            BY <3>1, SameManifestFinal
    <2>6. QED
        BY <1>3, <2>1, <2>2, <2>3, <2>4, <2>5 DEF StreamStep
<1>4. ASSUME NEW r \in Requests, DeleteManifest(r) PROVE Final(i)
    <2>1. request[r].inc \in Incidents
        BY <1>4, RequestTypes DEF DeleteManifest
    <2>2. CASE i = request[r].inc
        BY <1>4, <2>1, <2>2 DEF DeleteManifest, Final, TypeOK
    <2>3. CASE i # request[r].inc
        BY <1>4, <2>1, <2>3, <1>1 DEF DeleteManifest, TypeOK
    <2>4. QED
        BY <2>2, <2>3
<1>5. QED
    BY <1>2, <1>3, <1>4, StepCases

\* No step of any handler, run thread or fault takes an event out of the stream
\* of a run, changes how it ended, or adds to a run that failed.
THEOREM EndedRunsStay == Spec => HistoryIsFinal
<1>1. StoreInvariant /\ [Next]_vars =>
      [\A i \in Incidents :
        "manifest" \in files[i] /\ "manifest" \in files'[i] =>
            LET old == manifest[i] new == manifest'[i] IN
            /\ Len(old.bound) <= Len(new.bound)
            /\ SubSeq(new.bound, 1, Len(old.bound)) = old.bound
            /\ old.status # "RUNNING" => new.status = old.status
            /\ old.status = "FAILED" => new.bound = old.bound]_vars
    BY StepIsFinal DEF Final
<1>2. QED
    BY <1>1, StoreSafe, PTL DEF Spec, HistoryIsFinal

-----------------------------------------------------------------------------
(* RunStore implements EventLog                                            *)

LEMMA InitialPromise == Init => Promise!Init
BY DEF Init, Promise!Init

LEMMA SamePromise ==
    ASSUME \A i \in Incidents :
               /\ "manifest" \in files'[i] <=> "manifest" \in files[i]
               /\ manifest'[i].status = manifest[i].status
               /\ manifest'[i].bound = manifest[i].bound
    PROVE  UNCHANGED Promise!vars
BY DEF Promise!vars

\* The write of the first manifest starts the run.
LEMMA StartIsStart ==
    ASSUME StoreInvariant, NEW i \in Incidents, StartManifest(i)
    PROVE  Promise!Start(i)
<1> USE DEF StoreInvariant
<1>1. "manifest" \notin files[i] /\ \A j \in Incidents : ~Running(j)
    BY ConstantsAssumption DEF StartManifest, LockInvariant, SingleActiveRun
<1>2. /\ "manifest" \in files'[i] /\ manifest'[i] = NewManifest
      /\ \A j \in Incidents \ {i} : files'[j] = files[j] /\ manifest'[j] = manifest[j]
    BY DEF StartManifest, TypeOK
<1> DEFINE status == [j \in Incidents |->
                         IF "manifest" \in files[j] THEN manifest[j].status ELSE "ABSENT"]
           log == [j \in Incidents |->
                      IF "manifest" \in files[j] THEN manifest[j].bound ELSE <<>>]
<1>3. /\ status[i] = "ABSENT"
      /\ \A j \in Incidents : status[j] # "RUNNING"
    BY <1>1 DEF Running
<1>4. status' = [status EXCEPT ![i] = "RUNNING"]
    <2>1. \A j \in Incidents : status'[j] = IF j = i THEN "RUNNING" ELSE status[j]
        BY <1>2 DEF NewManifest
    <2>2. QED
        BY <2>1
<1>5. log' = log
    BY <1>1, <1>2 DEF NewManifest
<1>6. QED
    BY <1>3, <1>4, <1>5 DEF Promise!Start

\* The write of the manifest of an append records the event.
LEMMA AppendIsRecord ==
    ASSUME StoreInvariant, NEW i \in Incidents, AppendManifest(i)
    PROVE  Promise!Record(i) \/ UNCHANGED Promise!vars
<1> USE DEF StoreInvariant
<1>1. /\ "manifest" \in files[i] /\ manifest[i].status \in {"RUNNING", "COMPLETED"}
      /\ UNCHANGED files
    BY ManifestParts DEF AppendManifest, LockInvariant, Status
<1>2. /\ manifest'[i].bound = events[i] /\ manifest'[i].status = manifest[i].status
      /\ \A j \in Incidents \ {i} : manifest'[j] = manifest[j]
    BY DEF AppendManifest, TypeOK, Manifest
<1>3. CASE events[i] = manifest[i].bound
    BY <1>1, <1>2, <1>3, SamePromise
<1>4. CASE events[i] # manifest[i].bound
    <2> DEFINE last == events[i][Len(events[i])]
    <2>1. Len(events[i]) = Len(manifest[i].bound) + 1 /\ Len(manifest[i].bound) \in Nat
        BY <1>1, <1>4, ManifestParts, LenProperties DEF NoAcknowledgedEventLost
    <2>2. last \in Event /\ events[i] = Append(manifest[i].bound, last)
        BY <1>1, <1>4, ManifestParts, OneMore DEF NoAcknowledgedEventLost
    <2>3. Len(events[i]) \in DOMAIN events[i]
        BY <2>1, ManifestParts, LenProperties
    <2>4. last.seq = Len(manifest[i].bound) /\ last.run \in 1..MaxRuns
        BY <2>1, <2>3 DEF Contiguous, RunNumbers
    <2>5. last = [seq |-> Len(manifest[i].bound), run |-> last.run]
        BY <2>2, <2>4 DEF Event
    <2>6. manifest'[i].bound =
              Append(manifest[i].bound, [seq |-> Len(manifest[i].bound), run |-> last.run])
        BY <1>2, <2>2, <2>5
    <2> DEFINE status == [j \in Incidents |->
                             IF "manifest" \in files[j] THEN manifest[j].status ELSE "ABSENT"]
               log == [j \in Incidents |->
                          IF "manifest" \in files[j] THEN manifest[j].bound ELSE <<>>]
               entry == [seq |-> Len(log[i]), run |-> last.run]
    <2>7. /\ status[i] \in {"RUNNING", "COMPLETED"} /\ log[i] = manifest[i].bound
          /\ log'[i] = manifest'[i].bound
        BY <1>1
    <2>8. status' = status
        BY <1>1, <1>2
    <2>9. \A j \in Incidents \ {i} : log'[j] = log[j]
        BY <1>1, <1>2
    <2>10. log'[i] = Append(log[i], entry)
        BY <2>6, <2>7
    <2>11. log' = [log EXCEPT ![i] = Append(@, entry)]
        <3> HIDE DEF entry, last
        <3>1. \A j \in Incidents :
                  log'[j] = IF j = i THEN Append(log[i], entry) ELSE log[j]
            BY <2>9, <2>10
        <3>2. QED
            BY <3>1
    <2>12. QED
        BY <2>4, <2>7, <2>8, <2>11 DEF Promise!Record
<1>5. QED
    BY <1>3, <1>4

LEMMA EndIsEnd ==
    ASSUME StoreInvariant, NEW i \in Incidents, Ends(i)
    PROVE  Promise!End(i)
<1>1. PICK status \in {"COMPLETED", "FAILED"}, state \in States :
          manifest' = [manifest EXCEPT ![i].status = status, ![i].state = state]
    BY DEF Ends
<1>2. /\ manifest'[i].status = status /\ manifest'[i].bound = manifest[i].bound
      /\ \A j \in Incidents \ {i} : manifest'[j] = manifest[j]
    BY <1>1 DEF StoreInvariant, TypeOK, Manifest
<1>3. UNCHANGED files /\ "manifest" \in files[i] /\ manifest[i].status = "RUNNING"
    BY DEF Ends, Running
<1>4. QED
    BY <1>2, <1>3 DEF Promise!End

\* Unlinking the manifest removes the run.
LEMMA DeleteIsRemove ==
    ASSUME StoreInvariant, NEW r \in Requests, DeleteManifest(r),
           NEW i \in Incidents, i = request[r].inc
    PROVE  Promise!Remove(i)
<1> USE DEF StoreInvariant
<1>1. /\ "manifest" \in files[i] /\ manifest[i].status \in {"COMPLETED", "FAILED"}
      /\ "manifest" \notin files'[i]
      /\ \A j \in Incidents \ {i} : files'[j] = files[j] /\ manifest'[j] = manifest[j]
    BY ManifestParts DEF DeleteManifest, Found, Status, TypeOK
<1>2. QED
    BY <1>1 DEF Promise!Remove

LEMMA StepIsPromised == StoreInvariant /\ [Next]_vars => [Promise!Next]_(Promise!vars)
<1> SUFFICES ASSUME StoreInvariant, [Next]_vars
             PROVE  Promise!Next \/ UNCHANGED Promise!vars
    OBVIOUS
<1>1. CASE Quiet
    BY <1>1, SamePromise DEF Quiet
<1>2. ASSUME NEW i \in Incidents, StreamStep(i)
      PROVE  Promise!Next \/ UNCHANGED Promise!vars
    <2>1. CASE StartEvents(i) \/ DeleteEvents(i)
        <3>1. manifest' = manifest
            BY <2>1 DEF StartEvents, DeleteEvents
        <3>2. \A j \in Incidents : "manifest" \in files'[j] <=> "manifest" \in files[j]
            <4>1. files \in [Incidents -> SUBSET (Complete \cup {"temp"})]
                BY DEF StoreInvariant, TypeOK
            <4>2. CASE StartEvents(i)
                BY <4>1, <4>2 DEF StartEvents
            <4>3. CASE DeleteEvents(i)
                BY <4>1, <4>3 DEF DeleteEvents
            <4>4. QED
                BY <2>1, <4>2, <4>3
        <3>3. QED
            BY <3>1, <3>2, SamePromise
    <2>2. CASE StartManifest(i)
        BY <2>2, StartIsStart DEF Promise!Next
    <2>3. CASE Appends(i)
        BY <2>3, SamePromise DEF Appends, AppendEvents
    <2>4. CASE AppendManifest(i)
        BY <2>4, AppendIsRecord DEF Promise!Next
    <2>5. CASE Ends(i)
        BY <2>5, EndIsEnd DEF Promise!Next
    <2>6. CASE Restates(i)
        BY <2>6, SamePromise DEF Restates, StoreInvariant, TypeOK, Manifest
    <2>7. QED
        BY <1>2, <2>1, <2>2, <2>3, <2>4, <2>5, <2>6 DEF StreamStep
<1>3. ASSUME NEW r \in Requests, DeleteManifest(r) PROVE Promise!Next
    <2>1. PICK i \in Incidents : i = request[r].inc
        BY <1>3, RequestTypes DEF DeleteManifest, StoreInvariant
    <2>2. Promise!Remove(i)
        BY <1>3, <2>1, DeleteIsRemove
    <2>3. QED
        BY <2>2 DEF Promise!Next
<1>4. QED
    BY <1>1, <1>2, <1>3, StepCases DEF StoreInvariant

\* The files, the lock and the recorders, with every fault, implement the log
\* that clients are promised.
THEOREM RunStoreImplementsEventLog == Spec => ImplementsEventLog
BY InitialPromise, StoreSafe, StepIsPromised, PTL DEF Spec, ImplementsEventLog, Promise!Spec
-----------------------------------------------------------------------------
(* Directories that no fault has hit                                       *)

\* Nothing, or a complete directory whose manifest binds its stream
Settled(i) ==
    \/ files[i] = {}
    \/ Complete \subseteq files[i] /\ events[i] = manifest[i].bound

\* What the holder of the lock finds in a directory that no fault has hit: start_run
\* what it wrote itself, append_event all of it.
HeldDirectory ==
    lock.op # "free" /\ ~torn[lock.inc] =>
        /\ lock.op = "start" => files[lock.inc] \in {{"dir"}, {"dir", "events"}}
        /\ lock.op = "append" => Complete \subseteq files[lock.inc]

DirectoryInvariant == HeldDirectory /\ \A i \in Incidents : ~torn[i] /\ lock.inc # i => Settled(i)

\* A temporary, and a new status or state, leave a directory settled.
LEMMA SettledKept ==
    ASSUME NEW i \in Incidents, Settled(i),
           events'[i] = events[i], manifest'[i].bound = manifest[i].bound,
           \/ files'[i] = files[i]
           \/ "dir" \in files[i] /\ files'[i] = files[i] \cup {"temp"}
    PROVE  Settled(i)'
BY DEF Settled

LEMMA LitteredDirectories ==
    ASSUME TypeOK, Litter, NEW i \in Incidents
    PROVE  \/ files'[i] = files[i]
           \/ "dir" \in files[i] /\ files'[i] = files[i] \cup {"temp"}
BY DEF TypeOK, Litter

\* A lock that is free is held for no incident.
LEMMA FreeLock ==
    ASSUME TypeOK, lock.op = "free", NEW i \in Incidents
    PROVE  lock.inc # i
BY ConstantsAssumption DEF TypeOK, Free

LEMMA FreedLock ==
    ASSUME lock' = Free, NEW i \in Incidents
    PROVE  lock'.inc # i /\ HeldDirectory'
BY ConstantsAssumption DEF HeldDirectory, Free

\* Steps that touch neither the lock nor a stream, and litter at most with the lock free
LEMMA DirectoriesKept ==
    ASSUME TypeOK, DirectoryInvariant, UNCHANGED <<events, lock, torn>>,
           \A i \in Incidents :
               /\ manifest'[i].bound = manifest[i].bound
               /\ \/ files'[i] = files[i]
                  \/ /\ lock.op = "free"
                     /\ "dir" \in files[i] /\ files'[i] = files[i] \cup {"temp"}
    PROVE  DirectoryInvariant'
<1>1. HeldDirectory'
    BY LockTypes DEF DirectoryInvariant, HeldDirectory
<1>2. ASSUME NEW i \in Incidents, ~torn'[i], lock'.inc # i PROVE Settled(i)'
    BY <1>2, SettledKept DEF DirectoryInvariant
<1>3. QED
    BY <1>1, <1>2 DEF DirectoryInvariant

LEMMA StartDirectories ==
    ASSUME TypeOK, LockInvariant, DirectoryInvariant, NEW i \in Incidents, StartStep(i)
    PROVE  DirectoryInvariant'
<1>1. ASSUME NEW j \in Incidents \ {i}, ~torn'[j], lock'.inc # j PROVE Settled(j)'
    <2>1. /\ files'[j] = files[j] /\ events'[j] = events[j]
          /\ manifest'[j] = manifest[j] /\ torn'[j] = torn[j] /\ lock.inc # j
        BY <1>1, FreeLock
           DEF StartStep, StartRun, StartEvents, StartManifest, Unlocked, TypeOK
    <2>2. QED
        BY <1>1, <2>1, SettledKept DEF DirectoryInvariant
<1>2. CASE StartRun(i)
    <2>1. lock'.inc = i /\ lock'.op = "start" /\ files'[i] = {"dir"}
        BY <1>2 DEF StartRun, TypeOK
    <2>2. QED
        BY <1>1, <2>1 DEF DirectoryInvariant, HeldDirectory
<1>3. CASE StartEvents(i)
    <2>1. /\ lock' = lock /\ lock.inc = i /\ lock.op = "start" /\ torn' = torn
          /\ "events" \notin files[i] /\ files'[i] = files[i] \cup {"events"}
        BY <1>3 DEF StartEvents, TypeOK
    <2>2. ~torn[i] => files'[i] = {"dir", "events"}
        BY <2>1 DEF DirectoryInvariant, HeldDirectory
    <2>3. QED
        BY <1>1, <2>1, <2>2 DEF DirectoryInvariant, HeldDirectory
<1>4. CASE StartManifest(i)
    <2>1. /\ lock' = Free /\ lock.inc = i /\ lock.op = "start" /\ torn' = torn
          /\ "events" \in files[i] /\ files'[i] = files[i] \cup {"manifest"}
          /\ events' = events /\ manifest'[i].bound = <<>>
        BY <1>4 DEF StartManifest, NewManifest, TypeOK
    <2>2. ~torn[i] => files[i] = {"dir", "events"} /\ events[i] = <<>>
        BY <2>1 DEF DirectoryInvariant, HeldDirectory, LockInvariant
    <2>3. ~torn'[i] => Settled(i)'
        BY <2>1, <2>2 DEF Settled, Complete
    <2>4. QED
        BY <1>1, <2>1, <2>3, FreedLock DEF DirectoryInvariant
<1>5. QED
    BY <1>2, <1>3, <1>4 DEF StartStep

LEMMA AppendDirectories ==
    ASSUME TypeOK, DirectoryInvariant, NEW i \in Incidents,
           \/ AppendManifest(i)
           \/ \E event \in Event, by \in Requests \cup {RunThread} : AppendEvents(i, event, by)
    PROVE  DirectoryInvariant'
<1>1. ASSUME NEW j \in Incidents \ {i}, ~torn'[j], lock'.inc # j PROVE Settled(j)'
    <2>1. /\ files'[j] = files[j] /\ events'[j] = events[j]
          /\ manifest'[j] = manifest[j] /\ torn'[j] = torn[j] /\ lock.inc # j
        BY <1>1, FreeLock DEF AppendManifest, AppendEvents, Unlocked, TypeOK
    <2>2. QED
        BY <1>1, <2>1, SettledKept DEF DirectoryInvariant
<1>2. CASE AppendManifest(i)
    <2>1. /\ lock' = Free /\ lock.inc = i /\ lock.op = "append" /\ torn' = torn
          /\ files' = files /\ events' = events /\ manifest'[i].bound = events[i]
        BY <1>2 DEF AppendManifest, TypeOK, Manifest
    <2>2. ~torn'[i] => Settled(i)'
        BY <2>1 DEF DirectoryInvariant, HeldDirectory, Settled
    <2>3. QED
        BY <1>1, <2>1, <2>2, FreedLock DEF DirectoryInvariant
<1>3. ASSUME NEW event \in Event, NEW by \in Requests \cup {RunThread},
             AppendEvents(i, event, by)
      PROVE  DirectoryInvariant'
    <2>1. /\ lock.op = "free" /\ lock'.inc = i /\ lock'.op = "append" /\ torn' = torn
          /\ files' = files /\ "manifest" \in files[i]
        BY <1>3 DEF AppendEvents, Unlocked, Accepts, Readable, Found
    <2>2. ~torn[i] => Complete \subseteq files[i]
        BY <2>1, FreeLock DEF DirectoryInvariant, Settled
    <2>3. HeldDirectory'
        BY <2>1, <2>2 DEF HeldDirectory
    <2>4. QED
        BY <1>1, <2>1, <2>3 DEF DirectoryInvariant
<1>4. QED
    BY <1>2, <1>3

LEMMA DeleteDirectories ==
    ASSUME TypeOK, DirectoryInvariant, NEW i \in Incidents,
           DeleteStep(i) \/ \E r \in Requests : request[r].inc = i /\ DeleteManifest(r)
    PROVE  DirectoryInvariant'
<1>1. ASSUME NEW j \in Incidents \ {i}, ~torn'[j], lock'.inc # j PROVE Settled(j)'
    <2>1. /\ files'[j] = files[j] /\ events'[j] = events[j]
          /\ manifest'[j] = manifest[j] /\ torn'[j] = torn[j] /\ lock.inc # j
        BY <1>1, FreeLock
           DEF DeleteStep, DeleteEvents, DeleteDirectory, DeleteManifest, Unlocked, TypeOK
    <2>2. QED
        BY <1>1, <2>1, SettledKept DEF DirectoryInvariant
<1>2. CASE DeleteDirectory(i)
    <2>1. /\ lock' = Free
          /\ ~torn'[i] => files'[i] = {}
        BY <1>2 DEF DeleteDirectory, TypeOK
    <2>2. QED
        BY <1>1, <2>1, FreedLock DEF DirectoryInvariant, Settled
<1>3. CASE DeleteEvents(i) \/ \E r \in Requests : request[r].inc = i /\ DeleteManifest(r)
    <2>1. lock'.op = "delete" /\ lock'.inc = i
        BY <1>3 DEF DeleteEvents, DeleteManifest
    <2>2. QED
        BY <1>1, <2>1 DEF DirectoryInvariant, HeldDirectory
<1>4. QED
    BY <1>2, <1>3 DEF DeleteStep

LEMMA FaultDirectories ==
    ASSUME TypeOK, DirectoryInvariant, FaultStep
    PROVE  DirectoryInvariant'
<1>1. CASE Crash
    <2>1. /\ lock' = Free /\ UNCHANGED <<events, manifest>> /\ Litter
          /\ \A j \in Incidents : torn'[j] = (torn[j] \/ lock.inc = j)
        BY <1>1 DEF Crash
    <2>2. ASSUME NEW j \in Incidents, ~torn'[j] PROVE Settled(j)'
        BY <2>1, <2>2, LitteredDirectories, SettledKept DEF DirectoryInvariant
    <2>3. QED
        BY <2>1, <2>2, FreedLock DEF DirectoryInvariant, HeldDirectory, Free
<1>2. CASE Restart
    BY <1>2, DirectoriesKept DEF Restart, disk
<1>3. ASSUME NEW i \in Incidents, WriteError(i) PROVE DirectoryInvariant'
    <2>1. /\ lock' = Free /\ UNCHANGED <<events, manifest>> /\ lock.inc = i
          /\ UNCHANGED files \/ Litter
          /\ torn'[i] /\ \A j \in Incidents \ {i} : torn'[j] = torn[j]
        BY <1>3 DEF WriteError, TypeOK
    <2>2. ASSUME NEW j \in Incidents, ~torn'[j] PROVE Settled(j)'
        BY <2>1, <2>2, LitteredDirectories, SettledKept DEF DirectoryInvariant
    <2>3. QED
        BY <2>1, <2>2 DEF DirectoryInvariant, HeldDirectory, Free
<1>4. ASSUME NEW i \in Incidents, FirstWriteError(i) PROVE DirectoryInvariant'
    <2>1. /\ lock.op = "free" /\ "manifest" \in files[i]
          /\ UNCHANGED <<events, manifest, lock, torn>>
          /\ files' = [files EXCEPT ![i] = @ \cup {"temp"}]
        BY <1>4 DEF FirstWriteError, Unlocked, Found
    <2>2. ASSUME NEW j \in Incidents, ~torn'[j] PROVE Settled(j)'
        BY <2>1, <2>2, FreeLock DEF DirectoryInvariant, Settled, TypeOK
    <2>3. QED
        BY <2>1, <2>2 DEF DirectoryInvariant, HeldDirectory
<1>5. ASSUME NEW i \in Incidents, FailRunError(i) PROVE DirectoryInvariant'
    BY <1>5, LitteredDirectories, DirectoriesKept DEF FailRunError, Unlocked
<1>6. QED
    BY <1>1, <1>2, <1>3, <1>4, <1>5 DEF FaultStep

LEMMA DirectoryInductive ==
    TypeOK /\ LockInvariant /\ DirectoryInvariant /\ [Next]_vars => DirectoryInvariant'
<1> SUFFICES ASSUME TypeOK, LockInvariant, DirectoryInvariant, [Next]_vars
             PROVE  DirectoryInvariant'
    OBVIOUS
<1>1. ASSUME NEW i \in Incidents, ThreadStep(i) PROVE DirectoryInvariant'
    <2>1. CASE ThreadEmit(i)
        <3>1. [seq |-> thread[i].emitted, run |-> runs[i]] \in Event
            BY DEF TypeOK, Thread, Event
        <3>2. QED
            BY <2>1, <3>1, AppendDirectories DEF ThreadEmit
    <2>2. CASE ThreadRaise(i)
        BY <2>2, DirectoriesKept DEF ThreadRaise, disk
    <2>3. ASSUME NEW status, NEW state, EndRun(i, status, state) PROVE DirectoryInvariant'
        <3>1. \A j \in Incidents : manifest'[j].bound = manifest[j].bound
            BY <2>3 DEF EndRun, TypeOK, Manifest
        <3>2. QED
            BY <2>3, <3>1, DirectoriesKept DEF EndRun
    <2>4. QED
        BY <1>1, <2>1, <2>2, <2>3 DEF ThreadStep, FinishRun, FailRun
<1>2. ASSUME NEW r \in Requests, RequestStep(r) PROVE DirectoryInvariant'
    <2>1. CASE Emit(r)
        <3>1. [seq |-> request[r].next, run |-> request[r].run] \in Event
            BY <2>1, RequestTypes DEF Emit, Event
        <3>2. request[r].inc \in Incidents
            BY <2>1, RequestTypes DEF Emit
        <3>3. QED
            BY <2>1, <3>1, <3>2, AppendDirectories DEF Emit
    <2>2. CASE UpdateState(r)
        <3>1. \A j \in Incidents : manifest'[j].bound = manifest[j].bound
            BY <2>2 DEF UpdateState, TypeOK, Manifest
        <3>2. QED
            BY <2>2, <3>1, DirectoriesKept DEF UpdateState
    <2>3. CASE DeleteManifest(r)
        BY <2>3, RequestTypes, DeleteDirectories DEF DeleteManifest
    <2>4. ASSUME UNCHANGED <<disk, lock, torn>> PROVE DirectoryInvariant'
        BY <2>4, DirectoriesKept DEF disk
    <2>5. QED
        BY <1>2, <2>1, <2>2, <2>3, <2>4
           DEF RequestStep, Admit, BeginReset, Begin, Load, Leave
<1>3. CASE UNCHANGED vars
    BY <1>3, DirectoriesKept DEF vars
<1>4. QED
    BY <1>1, <1>2, <1>3, StartDirectories, AppendDirectories, DeleteDirectories,
       FaultDirectories DEF Next

\* No interleaving of handlers, run threads and resets leaves a directory half
\* written: outside the lock, one that no fault has hit is absent or readable.
THEOREM UntornRunsAreReadable == Spec => []UntornIsReadable
<1>1. Init => DirectoryInvariant
    BY DEF Init, DirectoryInvariant, HeldDirectory, Settled, Free
<1>2. StoreInvariant => TypeOK /\ LockInvariant
    BY DEF StoreInvariant
<1>3. DirectoryInvariant => UntornIsReadable
    BY DEF DirectoryInvariant, UntornIsReadable, Settled
<1>4. QED
    BY <1>1, <1>2, <1>3, StoreSafe, DirectoryInductive, PTL DEF Spec
=============================================================================
