-------------------------- MODULE EventStreamProofs -------------------------
(***************************************************************************)
(* Proofs about EventStream: what a client has received is a prefix of the *)
(* stream of its run, and a stream that returns has delivered all of it,   *)
(* for every value of the constants.                                       *)
(***************************************************************************)
EXTENDS EventStream, RunStoreProofs

-----------------------------------------------------------------------------
(* What a step of the store does to a run that is read                     *)

LEMMA OnlyStartsCount ==
    [Next]_vars => UNCHANGED runs \/ \E i \in Incidents : StartManifest(i)
<1> SUFFICES ASSUME [Next]_vars
             PROVE  UNCHANGED runs \/ \E i \in Incidents : StartManifest(i)
    OBVIOUS
<1>1. ASSUME NEW i \in Incidents, StartStep(i) \/ AppendManifest(i) \/ DeleteStep(i)
      PROVE  UNCHANGED runs \/ StartManifest(i)
    BY <1>1 DEF StartStep, StartRun, StartEvents, AppendManifest, DeleteStep, DeleteEvents,
                DeleteDirectory
<1>2. ASSUME NEW i \in Incidents, ThreadStep(i) PROVE UNCHANGED runs
    BY <1>2 DEF ThreadStep, ThreadEmit, AppendEvents, ThreadRaise, FinishRun, FailRun, EndRun
<1>3. ASSUME NEW r \in Requests, RequestStep(r) PROVE UNCHANGED runs
    BY <1>3 DEF RequestStep, Admit, BeginReset, Begin, Load, Emit, AppendEvents, UpdateState,
                Leave, DeleteManifest
<1>4. CASE FaultStep
    BY <1>4 DEF FaultStep, Crash, Restart, WriteError, FirstWriteError, FailRunError
<1>5. QED
    BY <1>1, <1>2, <1>3, <1>4 DEF Next, vars

\* An id counts its runs upwards, and a manifest appears only with a new run.
LEMMA RunsGrow ==
    ASSUME StoreInvariant, [Next]_vars, NEW i \in Incidents
    PROVE  /\ runs[i] \in Nat /\ runs'[i] \in Nat /\ runs[i] <= runs'[i]
           /\ runs'[i] = runs[i] /\ "manifest" \in files'[i] => "manifest" \in files[i]
<1> USE DEF StoreInvariant, TypeOK
<1>1. CASE \E j \in Incidents : StartManifest(j)
    <2>1. PICK j \in Incidents : StartManifest(j)
        BY <1>1
    <2>2. /\ runs[i] \in Nat /\ runs[j] \in Nat
          /\ i = j => runs'[i] = runs[i] + 1
          /\ i # j => runs'[i] = runs[i] /\ files'[i] = files[i]
        BY <2>1 DEF StartManifest
    <2>3. QED
        BY <2>2
<1>2. CASE UNCHANGED runs
    <2>1. ASSUME NEW j \in Incidents, StreamStep(j), ~StartManifest(j)
          PROVE  "manifest" \in files'[i] => "manifest" \in files[i]
        <3>1. CASE StartEvents(j)
            BY <3>1 DEF StartEvents
        <3>2. CASE DeleteEvents(j)
            BY <3>2 DEF DeleteEvents
        <3>3. CASE Appends(j) \/ AppendManifest(j) \/ Ends(j) \/ Restates(j)
            BY <3>3 DEF Appends, AppendEvents, AppendManifest, Ends, Restates
        <3>4. QED
            BY <2>1, <3>1, <3>2, <3>3 DEF StreamStep
    <2>2. ASSUME NEW j \in Incidents, StartManifest(j) PROVE FALSE
        BY <1>2, <2>2 DEF StartManifest
    <2>3. ASSUME NEW r \in Requests, DeleteManifest(r)
          PROVE  "manifest" \in files'[i] => "manifest" \in files[i]
        BY <2>3 DEF DeleteManifest
    <2>4. QED
        BY <1>2, <2>1, <2>2, <2>3, StepCases DEF Quiet
<1>3. QED
    BY <1>1, <1>2, OnlyStartsCount

\* While the manifest stays, an event keeps its place in the file.
LEMMA EventsStay ==
    ASSUME StoreInvariant, [Next]_vars, NEW i \in Incidents,
           "manifest" \in files[i], "manifest" \in files'[i]
    PROVE  \A k \in DOMAIN events[i] : k \in DOMAIN events'[i] /\ events'[i][k] = events[i][k]
<1> USE DEF StoreInvariant
<1>1. ASSUME NEW j \in Incidents, StartEvents(j) \/ DeleteEvents(j)
      PROVE  events'[i] = events[i]
    BY <1>1 DEF StartEvents, DeleteEvents, LockInvariant, TypeOK
<1>2. ASSUME NEW j \in Incidents, Appends(j), events'[i] # events[i]
      PROVE  \A k \in DOMAIN events[i] : k \in DOMAIN events'[i] /\ events'[i][k] = events[i][k]
    <2>1. PICK event \in Event, by \in Requests \cup {RunThread} : AppendEvents(j, event, by)
        BY <1>2 DEF Appends
    <2>2. events[i] \in Seq(Event) /\ events'[i] = Append(events[i], event)
        BY <1>2, <2>1 DEF AppendEvents, TypeOK
    <2>3. QED
        BY <2>2, AppendProperties, LenProperties
<1>3. ASSUME NEW j \in Incidents,
             StartManifest(j) \/ AppendManifest(j) \/ Ends(j) \/ Restates(j)
      PROVE  events' = events
    BY <1>3 DEF StartManifest, AppendManifest, Ends, Restates
<1>4. ASSUME NEW r \in Requests, DeleteManifest(r) PROVE events' = events
    BY <1>4 DEF DeleteManifest
<1>5. QED
    BY <1>1, <1>2, <1>3, <1>4, StepCases DEF StreamStep, Quiet

-----------------------------------------------------------------------------
(* The inductive invariant                                                 *)

StreamTypes ==
    /\ server \in [pc: {"closed", "read", "events", "yield", "returned", "error"},
                   inc: Incidents \cup {NoIncident}, run: Nat, cursor: Int,
                   over: BOOLEAN, atEnd: Nat, batch: Seq(Event)]
    /\ received \in Seq(Event)

\* The client has the events 0, 1, ..., cursor, of a run that was started.
Numbered ==
    /\ server.inc = NoIncident => server.pc = "closed" /\ received = <<>>
    /\ server.inc # NoIncident => server.run <= runs[server.inc]
    /\ server.pc \in {"read", "events", "yield"} => server.cursor = Len(received) - 1
    /\ \A k \in DOMAIN received : received[k].seq = k - 1

\* What is left of the batch is numbered on, and skips nothing the client lacks.
BatchFits ==
    server.pc = "yield" =>
        /\ \A k \in DOMAIN server.batch : server.batch[k].seq = server.batch[1].seq + k - 1
        /\ server.batch # <<>> => server.batch[1].seq <= Len(received)

\* Each event of s is where its number says in the file of the followed run.
InPlace(s) ==
    \A k \in DOMAIN s : /\ s[k].seq + 1 \in DOMAIN events[server.inc]
                        /\ events[server.inc][s[k].seq + 1] = s[k]

EventsInPlace ==
    SameRun /\ "manifest" \in files[server.inc] =>
        InPlace(received) /\ (server.pc = "yield" => InPlace(server.batch))

\* What the manifest of this round bound is still to be read, or at hand, or received.
NothingMissed ==
    SameRun =>
        /\ server.pc = "events" /\ "manifest" \in files[server.inc] =>
               Len(manifest[server.inc].bound) >= server.atEnd
        /\ server.pc = "yield" =>
               \/ Len(received) >= server.atEnd
               \/ /\ server.batch # <<>>
                  /\ server.batch[Len(server.batch)].seq + 1 >= server.atEnd
        /\ server.pc = "returned" => Len(received) >= server.atEnd

StreamInvariant == StreamTypes /\ Numbered /\ BatchFits /\ EventsInPlace /\ NothingMissed

LEMMA StreamInitially == StreamInit => StoreInvariant /\ StreamInvariant
<1> SUFFICES ASSUME StreamInit PROVE StoreInvariant /\ StreamInvariant
    OBVIOUS
<1>1. DOMAIN <<>> = {} /\ <<>> \in Seq(Event)
    OBVIOUS
<1>2. StreamTypes
    BY <1>1 DEF StreamInit, Closed, StreamTypes
<1>3. Numbered /\ BatchFits /\ EventsInPlace /\ NothingMissed
    BY <1>1 DEF StreamInit, Closed, Numbered, BatchFits, EventsInPlace, NothingMissed, SameRun
<1>4. QED
    BY <1>2, <1>3, StoreInitially DEF StreamInit, StreamInvariant


-----------------------------------------------------------------------------
(* The steps of the store                                                  *)

\* A client that still follows the run of its id did so before the step.
LEMMA StillTheSameRun ==
    ASSUME StoreInvariant, [Next]_vars, StreamTypes, Numbered,
           UNCHANGED <<server.inc, server.run>>, SameRun'
    PROVE  /\ SameRun /\ server.inc \in Incidents
           /\ "manifest" \in files'[server.inc] => "manifest" \in files[server.inc]
<1>1. /\ server.inc # NoIncident /\ server.inc \in Incidents /\ server.run \in Nat
      /\ runs'[server.inc] = server.run /\ server.run <= runs[server.inc]
    BY DEF SameRun, StreamTypes, Numbered
<1>2. QED
    BY <1>1, RunsGrow DEF SameRun

LEMMA StoreStepKeeps ==
    ASSUME StoreInvariant, StreamInvariant, StoreStep
    PROVE  StreamInvariant'
<1> USE DEF StreamInvariant
<1>1. received' = received /\ [Next]_vars
    BY DEF StoreStep
<1>2. CASE server' = server
    <2>1. StreamTypes' /\ BatchFits'
        BY <1>1, <1>2 DEF StreamTypes, BatchFits
    <2>2. Numbered'
        <3>1. ASSUME server.inc # NoIncident PROVE server.run <= runs'[server.inc]
            <4>1. server.inc \in Incidents /\ server.run \in Nat /\ server.run <= runs[server.inc]
                BY <3>1 DEF StreamTypes, Numbered
            <4>2. QED
                BY <4>1, <1>1, RunsGrow
        <3>2. QED
            BY <1>1, <1>2, <3>1 DEF Numbered
    <2>3. EventsInPlace'
        <3>1. SUFFICES ASSUME SameRun', "manifest" \in files'[server.inc]
                       PROVE  (InPlace(received) /\ (server.pc = "yield" => InPlace(server.batch)))'
            BY <1>2 DEF EventsInPlace
        <3>2. /\ SameRun /\ server.inc \in Incidents /\ "manifest" \in files[server.inc]
              /\ \A k \in DOMAIN events[server.inc] :
                     /\ k \in DOMAIN events'[server.inc]
                     /\ events'[server.inc][k] = events[server.inc][k]
            BY <1>1, <1>2, <3>1, StillTheSameRun, EventsStay
        <3>3. InPlace(received) /\ (server.pc = "yield" => InPlace(server.batch))
            BY <3>2 DEF EventsInPlace
        <3>4. QED
            BY <1>1, <1>2, <3>2, <3>3 DEF InPlace
    <2>4. NothingMissed'
        <3>1. SUFFICES ASSUME SameRun' PROVE NothingMissed'
            BY DEF NothingMissed
        <3>2. /\ SameRun /\ server.inc \in Incidents
              /\ "manifest" \in files'[server.inc] => "manifest" \in files[server.inc]
            BY <1>1, <1>2, <3>1, StillTheSameRun
        <3>3. ASSUME "manifest" \in files'[server.inc], server.pc = "events"
              PROVE  Len(manifest'[server.inc].bound) >= server.atEnd
            <4>1. /\ Len(manifest[server.inc].bound) >= server.atEnd
                  /\ server.atEnd \in Nat
                  /\ Len(manifest[server.inc].bound) <= Len(manifest'[server.inc].bound)
                BY <1>1, <3>2, <3>3, StepIsFinal DEF NothingMissed, Final, StreamTypes
            <4>2. /\ Len(manifest[server.inc].bound) \in Nat
                  /\ Len(manifest'[server.inc].bound) \in Nat
                <5>1. TypeOK /\ TypeOK'
                    BY <1>1, StoreInductive DEF StoreInvariant
                <5>2. manifest[server.inc].bound \in Seq(Event) /\ manifest'[server.inc].bound \in Seq(Event)
                    BY <3>2, <5>1 DEF TypeOK, Manifest
                <5>3. QED
                    BY <5>2, LenProperties
            <4>3. QED
                BY <4>1, <4>2
        <3>4. QED
            BY <1>1, <1>2, <3>2, <3>3 DEF NothingMissed
    <2>5. QED
        BY <2>1, <2>2, <2>3, <2>4
<1>3. CASE /\ server' = [Closed EXCEPT !.inc = server.inc, !.run = server.run]
           /\ server.pc \notin {"returned", "error"}
    <2>1. /\ server'.pc = "closed" /\ server'.inc = server.inc /\ server'.run = server.run
          /\ StreamTypes'
        <3>1. server.inc \in Incidents \cup {NoIncident} /\ server.run \in Nat
            BY DEF StreamTypes
        <3>2. server' = [pc |-> "closed", inc |-> server.inc, run |-> server.run, cursor |-> -1,
                         over |-> FALSE, atEnd |-> 0, batch |-> <<>>]
            BY <1>3 DEF Closed
        <3>3. -1 \in Int /\ <<>> \in Seq(Event)
            OBVIOUS
        <3>4. QED
            BY <1>1, <3>1, <3>2, <3>3 DEF StreamTypes
    <2>2. Numbered'
        <3>1. ASSUME server.inc # NoIncident PROVE server.run <= runs'[server.inc]
            <4>1. server.inc \in Incidents /\ server.run \in Nat /\ server.run <= runs[server.inc]
                BY <3>1 DEF StreamTypes, Numbered
            <4>2. QED
                BY <4>1, <1>1, RunsGrow
        <3>2. QED
            BY <1>1, <2>1, <3>1 DEF Numbered
    <2>3. EventsInPlace'
        <3>1. SUFFICES ASSUME SameRun', "manifest" \in files'[server.inc]
                       PROVE  InPlace(received)'
            BY <2>1 DEF EventsInPlace
        <3>2. /\ SameRun /\ server.inc \in Incidents /\ "manifest" \in files[server.inc]
              /\ \A k \in DOMAIN events[server.inc] :
                     /\ k \in DOMAIN events'[server.inc]
                     /\ events'[server.inc][k] = events[server.inc][k]
            BY <1>1, <2>1, <3>1, StillTheSameRun, EventsStay
        <3>3. QED
            BY <1>1, <2>1, <3>2 DEF InPlace, EventsInPlace
    <2>4. QED
        BY <2>1, <2>2, <2>3 DEF BatchFits, NothingMissed
<1>4. QED
    BY <1>2, <1>3 DEF StoreStep


-----------------------------------------------------------------------------
(* The steps of the coroutine and of the connection                        *)

\* The coroutine leaves the store and what the client has alone.
Reads == UNCHANGED <<vars, received>>

LEMMA StoreRead == Reads => UNCHANGED <<files, events, manifest, runs>>
BY DEF Reads, vars, disk

LEMMA ConnectKeeps ==
    ASSUME StoreInvariant, StreamInvariant, NEW i \in Incidents, Connect(i)
    PROVE  StreamInvariant'
<1> USE DEF StreamInvariant
<1>1. /\ server.pc = "closed" /\ server.inc \in {i, NoIncident}
      /\ server' = [server EXCEPT !.pc = "read", !.inc = i,
                        !.run = IF received = <<>> THEN runs[i] ELSE @, !.cursor = LastEventId]
      /\ received' = received /\ UNCHANGED <<files, events, manifest, runs>>
    BY StoreRead DEF Connect, Reads
<1>2. /\ received \in Seq(Event) /\ runs[i] \in Nat /\ i # NoIncident
      /\ server.run \in Nat /\ received # <<>> => server.inc = i
    BY <1>1, ConstantsAssumption DEF StoreInvariant, TypeOK, StreamTypes, Numbered
<1>3. LastEventId = Len(received) - 1
    <2>1. received # <<>> => Len(received) \in 1..Len(received)
        BY <1>2, EmptySeq
    <2>2. QED
        BY <1>2, <2>1, LenProperties DEF LastEventId, Numbered
<1>4. /\ server'.pc = "read" /\ server'.inc = i /\ server'.cursor = Len(received) - 1
      /\ server'.run = IF received = <<>> THEN runs[i] ELSE server.run
      /\ server'.over = server.over /\ server'.atEnd = server.atEnd
      /\ server'.batch = server.batch
      /\ StreamTypes'
    <2>1. Len(received) - 1 \in Int
        BY <1>2, LenProperties
    <2>2. QED
        BY <1>1, <1>2, <1>3, <2>1 DEF StreamTypes
<1>5. Numbered'
    BY <1>1, <1>2, <1>4 DEF Numbered
<1>6. EventsInPlace'
    <2>1. CASE received = <<>>
        BY <1>1, <1>4, <2>1 DEF EventsInPlace, InPlace
    <2>2. CASE received # <<>>
        BY <1>1, <1>2, <1>4, <2>2 DEF EventsInPlace, InPlace, SameRun
    <2>3. QED
        BY <2>1, <2>2
<1>7. QED
    BY <1>4, <1>5, <1>6 DEF BatchFits, NothingMissed

LEMMA ReadManifestKeeps ==
    ASSUME StoreInvariant, StreamInvariant, ReadManifest
    PROVE  StreamInvariant'
<1> USE DEF StreamInvariant
<1>1. /\ server.pc = "read" /\ "manifest" \in files[server.inc]
      /\ received' = received /\ UNCHANGED <<files, events, manifest, runs>>
      /\ server' = [server EXCEPT
             !.pc = "events", !.over = manifest[server.inc].status \in {"COMPLETED", "FAILED"},
             !.atEnd = Len(manifest[server.inc].bound)]
    BY StoreRead DEF ReadManifest, Reads, Found
<1>2. server.inc \in Incidents
    BY <1>1 DEF StreamTypes, Numbered
<1>3. Len(manifest[server.inc].bound) \in Nat
    BY <1>2, ManifestParts, LenProperties DEF StoreInvariant
<1>4. /\ server'.pc = "events" /\ server'.inc = server.inc /\ server'.run = server.run
      /\ server'.cursor = server.cursor
      /\ server'.atEnd = Len(manifest[server.inc].bound)
      /\ StreamTypes'
    <2>1. PICK over \in BOOLEAN : over <=> manifest[server.inc].status \in {"COMPLETED", "FAILED"}
        OBVIOUS
    <2>2. server' = [server EXCEPT !.pc = "events", !.over = over,
                                   !.atEnd = Len(manifest[server.inc].bound)]
        BY <1>1, <2>1
    <2>3. QED
        BY <1>1, <1>3, <2>2 DEF StreamTypes
<1>5. Numbered' /\ BatchFits' /\ EventsInPlace'
    BY <1>1, <1>4 DEF Numbered, BatchFits, EventsInPlace, InPlace, SameRun
<1>6. NothingMissed'
    BY <1>1, <1>3, <1>4 DEF NothingMissed
<1>7. QED
    BY <1>4, <1>5, <1>6

\* get_events returns the stream that the manifest binds now: no less than it
\* bound when the round read it, if the run is still the same.
LEMMA ReadEventsKeeps ==
    ASSUME StoreInvariant, StreamInvariant, ReadEvents
    PROVE  StreamInvariant'
<1> USE DEF StreamInvariant
<1>1. /\ server.pc = "events" /\ "manifest" \in files[server.inc]
      /\ events[server.inc] = manifest[server.inc].bound
      /\ received' = received /\ UNCHANGED <<files, events, manifest, runs>>
      /\ server' = [server EXCEPT !.pc = "yield", !.batch = events[server.inc]]
    BY StoreRead DEF ReadEvents, Reads, Readable, Found
<1>2. server.inc \in Incidents /\ server.cursor = Len(received) - 1 /\ Len(received) \in Nat
    BY <1>1, LenProperties DEF StreamTypes, Numbered
<1> DEFINE batch == events[server.inc]
<1>3. /\ batch \in Seq(Event) /\ DOMAIN batch = 1..Len(batch) /\ Len(batch) \in Nat
      /\ \A k \in DOMAIN batch : batch[k].seq = k - 1
      /\ batch # <<>> => Len(batch) >= 1
    <2>1. batch \in Seq(Event)
        BY <1>2 DEF StoreInvariant, TypeOK
    <2>2. QED
        BY <1>2, <2>1, LenProperties, EmptySeq DEF StoreInvariant, Contiguous
<1>4. /\ server'.pc = "yield" /\ server'.inc = server.inc /\ server'.run = server.run
      /\ server'.cursor = server.cursor /\ server'.atEnd = server.atEnd
      /\ server'.batch = batch
      /\ StreamTypes'
    BY <1>1, <1>3 DEF StreamTypes
<1> HIDE DEF batch
<1>5. Numbered' /\ BatchFits'
    <2>1. Numbered'
        BY <1>1, <1>4 DEF Numbered
    <2>2. \A k \in DOMAIN batch : batch[k].seq = batch[1].seq + k - 1
        BY <1>3
    <2>3. batch # <<>> => batch[1].seq <= Len(received)
        BY <1>2, <1>3
    <2>4. QED
        BY <1>1, <1>4, <2>1, <2>2, <2>3 DEF BatchFits
<1>6. EventsInPlace'
    <2>1. SameRun /\ "manifest" \in files[server.inc] => InPlace(received)
        BY DEF EventsInPlace
    <2>2. InPlace(batch)
        BY <1>3 DEF InPlace, batch
    <2>3. /\ SameRun' <=> SameRun
          /\ files'[server'.inc] = files[server.inc] /\ server'.batch = batch
        BY <1>1, <1>4 DEF SameRun
    <2>4. InPlace(received)' <=> InPlace(received)
        BY <1>1, <1>4 DEF InPlace
    <2>5. InPlace(server.batch)'
        BY <1>1, <1>4, <2>2, <2>3 DEF InPlace
    <2>6. QED
        BY <2>1, <2>3, <2>4, <2>5 DEF EventsInPlace
<1>7. NothingMissed'
    <2>1. SUFFICES ASSUME SameRun
                   PROVE  \/ Len(received) >= server.atEnd
                          \/ batch # <<>> /\ batch[Len(batch)].seq + 1 >= server.atEnd
        BY <1>1, <1>4 DEF NothingMissed, SameRun
    <2>2. Len(batch) >= server.atEnd /\ server.atEnd \in Nat
        BY <1>1, <2>1 DEF NothingMissed, batch, StreamTypes
    <2>3. CASE batch = <<>>
        BY <1>2, <2>2, <2>3, EmptySeq
    <2>4. CASE batch # <<>>
        BY <1>3, <2>2, <2>4
    <2>5. QED
        BY <2>3, <2>4
<1>8. QED
    BY <1>4, <1>5, <1>6, <1>7


\* A stream that is refused or dropped owes nothing, and the client keeps what it has.
LEMMA EndedKeeps ==
    ASSUME StreamInvariant, Reads, StreamTypes', server'.pc \in {"closed", "error"},
           server'.inc = server.inc, server'.run = server.run,
           server'.pc = "error" => server.inc # NoIncident
    PROVE  StreamInvariant'
<1>1. Numbered'
    BY StoreRead DEF StreamInvariant, Reads, Numbered
<1>2. EventsInPlace'
    BY StoreRead DEF StreamInvariant, Reads, EventsInPlace, InPlace, SameRun
<1>3. QED
    BY <1>1, <1>2 DEF StreamInvariant, BatchFits, NothingMissed

LEMMA RefusedOrDroppedKeeps ==
    ASSUME StreamInvariant, ReportMissing \/ BreakConnection \/ Drop
    PROVE  StreamInvariant'
<1>1. CASE ReportMissing
    <2>1. /\ server.pc \in {"read", "events"} /\ Reads
          /\ server' = [server EXCEPT !.pc = "error", !.batch = <<>>]
          /\ <<>> \in Seq(Event)
        BY <1>1 DEF ReportMissing, Reads
    <2>2. /\ server'.pc = "error" /\ server'.inc = server.inc /\ server'.run = server.run
          /\ StreamTypes'
        BY <2>1 DEF StreamInvariant, StreamTypes, Reads
    <2>3. QED
        BY <2>1, <2>2, EndedKeeps DEF StreamInvariant, Numbered
<1>2. CASE BreakConnection \/ Drop
    <2>1. /\ Reads
          /\ server' = [pc |-> "closed", inc |-> server.inc, run |-> server.run, cursor |-> -1,
                        over |-> FALSE, atEnd |-> 0, batch |-> <<>>]
        BY <1>2 DEF BreakConnection, Drop, Reads, Closed
    <2>2. -1 \in Int /\ <<>> \in Seq(Event)
        OBVIOUS
    <2>3. /\ server'.pc = "closed" /\ server'.inc = server.inc /\ server'.run = server.run
          /\ StreamTypes'
        BY <2>1, <2>2 DEF StreamInvariant, StreamTypes, Reads
    <2>4. QED
        BY <2>1, <2>3, EndedKeeps
<1>3. QED
    BY <1>1, <1>2

LEMMA EndRoundKeeps ==
    ASSUME StreamInvariant, EndRound
    PROVE  StreamInvariant'
<1> USE DEF StreamInvariant
<1>1. /\ server.pc = "yield" /\ server.batch = <<>>
      /\ received' = received /\ UNCHANGED <<files, events, manifest, runs>>
      /\ server' = [server EXCEPT !.pc = IF server.over THEN "returned" ELSE "read",
                                  !.over = FALSE]
    BY StoreRead DEF EndRound, Reads
<1>2. /\ server'.pc \in {"returned", "read"} /\ server'.inc = server.inc
      /\ server'.run = server.run /\ server'.cursor = server.cursor
      /\ server'.atEnd = server.atEnd
      /\ StreamTypes'
    <2>1. PICK pc \in {"returned", "read"} :
              server' = [server EXCEPT !.pc = pc, !.over = FALSE]
        BY <1>1
    <2>2. QED
        BY <1>1, <2>1 DEF StreamTypes
<1>3. Numbered' /\ BatchFits' /\ EventsInPlace'
    BY <1>1, <1>2 DEF Numbered, BatchFits, EventsInPlace, InPlace, SameRun
<1>4. NothingMissed'
    BY <1>1, <1>2 DEF NothingMissed, SameRun
<1>5. QED
    BY <1>2, <1>3, <1>4

\* What the head and the tail of a batch are.
LEMMA BatchParts ==
    ASSUME StreamTypes, server.batch # <<>>, NEW b, b = server.batch
    PROVE  /\ b \in Seq(Event) /\ Len(b) \in Nat /\ Len(b) >= 1 /\ DOMAIN b = 1..Len(b)
           /\ Head(b) = b[1] /\ Head(b) \in Event /\ Head(b).seq \in Nat
           /\ Tail(b) \in Seq(Event) /\ Len(Tail(b)) = Len(b) - 1
           /\ DOMAIN Tail(b) = 1..(Len(b) - 1)
           /\ Tail(b) # <<>> <=> Len(b) > 1
           /\ \A k \in 1..(Len(b) - 1) : Tail(b)[k] = b[k + 1]
<1>1. b \in Seq(Event) /\ b # <<>>
    BY DEF StreamTypes
<1>2. Len(b) \in Nat /\ Len(b) >= 1 /\ DOMAIN b = 1..Len(b)
    BY <1>1, LenProperties, EmptySeq
<1>3. Head(b) = b[1] /\ Head(b) \in Event /\ Head(b).seq \in Nat
    <2>1. Head(b) \in Event
        BY <1>1, HeadTailProperties
    <2>2. Head(b) = b[1]
        BY <1>1
    <2>3. QED
        BY <2>1, <2>2 DEF Event
<1>4. /\ Tail(b) \in Seq(Event) /\ Len(Tail(b)) = Len(b) - 1
      /\ \A k \in 1..(Len(b) - 1) : Tail(b)[k] = b[k + 1]
    BY <1>1, HeadTailProperties
<1>5. DOMAIN Tail(b) = 1..(Len(b) - 1) /\ (Tail(b) # <<>> <=> Len(b) > 1)
    BY <1>2, <1>4, LenProperties, EmptySeq
<1>6. QED
    BY <1>1, <1>2, <1>3, <1>4, <1>5

\* What Skip and Yield share: the batch loses its head.
LEMMA NextOfBatch ==
    ASSUME StoreInvariant, StreamInvariant, server.pc = "yield", server.batch # <<>>,
           UNCHANGED <<files, events, manifest, runs>>, StreamTypes',
           server'.pc = "yield", server'.inc = server.inc, server'.run = server.run,
           server'.atEnd = server.atEnd, server'.batch = Tail(server.batch),
           server'.cursor = Len(received') - 1,
           Len(received) \in Nat, Len(received') \in Nat,
           Len(received') >= Len(received), Head(server.batch).seq < Len(received'),
           \A k \in DOMAIN received' : received'[k].seq = k - 1,
           SameRun /\ "manifest" \in files[server.inc] => InPlace(received)'
    PROVE  StreamInvariant'
<1> USE DEF StreamInvariant
<1> DEFINE b == server.batch
           t == Tail(server.batch)
<1>1. /\ b \in Seq(Event) /\ Len(b) \in Nat /\ Len(b) >= 1 /\ DOMAIN b = 1..Len(b)
      /\ Head(b) = b[1] /\ Head(b) \in Event /\ Head(b).seq \in Nat
      /\ t \in Seq(Event) /\ Len(t) = Len(b) - 1 /\ DOMAIN t = 1..(Len(b) - 1)
      /\ t # <<>> <=> Len(b) > 1
      /\ \A k \in 1..(Len(b) - 1) : t[k] = b[k + 1]
      /\ b[1].seq \in Nat /\ b[1].seq < Len(received')
    BY BatchParts
<1>2. /\ \A k \in DOMAIN b : b[k].seq = b[1].seq + k - 1
      /\ b[1].seq <= Len(received)
    BY DEF BatchFits
<1>3. server'.batch = t /\ server.batch = b
    OBVIOUS
<1> HIDE DEF b, t
<1>4. Numbered'
    BY DEF Numbered
<1>5. BatchFits'
    <2>1. ASSUME NEW k \in DOMAIN t PROVE t[k].seq = b[1].seq + k
        <3>1. k \in 1..(Len(b) - 1) /\ k + 1 \in DOMAIN b
            BY <1>1
        <3>2. b[k + 1].seq = b[1].seq + (k + 1) - 1 /\ t[k] = b[k + 1]
            BY <1>1, <1>2, <3>1
        <3>3. QED
            BY <1>1, <3>1, <3>2
    <2>2. t # <<>> => t[1].seq = b[1].seq + 1
        BY <1>1, <2>1
    <2>3. \A k \in DOMAIN t : t[k].seq = t[1].seq + k - 1
        BY <1>1, <2>1, <2>2
    <2>4. t # <<>> => t[1].seq <= Len(received')
        BY <1>1, <2>2
    <2>5. QED
        BY <1>3, <2>3, <2>4 DEF BatchFits
<1>6. EventsInPlace'
    <2> DEFINE Fits(e) == /\ e.seq + 1 \in DOMAIN events[server.inc]
                          /\ events[server.inc][e.seq + 1] = e
    <2>1. SUFFICES ASSUME SameRun, "manifest" \in files[server.inc]
                   PROVE  \A k \in DOMAIN t : Fits(t[k])
        BY <1>3 DEF EventsInPlace, SameRun, InPlace
    <2>2. \A k \in DOMAIN b : Fits(b[k])
        BY <1>3, <2>1 DEF EventsInPlace, InPlace
    <2> HIDE DEF Fits
    <2>3. ASSUME NEW k \in DOMAIN t PROVE Fits(t[k])
        <3>1. k + 1 \in DOMAIN b /\ t[k] = b[k + 1]
            BY <1>1
        <3>2. QED
            BY <2>2, <3>1
    <2>4. QED
        BY <2>3
<1>7. NothingMissed'
    <2>1. SUFFICES ASSUME SameRun
                   PROVE  \/ Len(received') >= server.atEnd
                          \/ t # <<>> /\ t[Len(t)].seq + 1 >= server.atEnd
        BY <1>3 DEF NothingMissed, SameRun
    <2>2. server.atEnd \in Nat
        BY DEF StreamTypes
    <2>3. CASE Len(received) >= server.atEnd
        BY <2>2, <2>3
    <2>4. CASE b[Len(b)].seq + 1 >= server.atEnd
        <3>1. CASE Len(b) = 1
            BY <1>1, <1>3, <2>2, <2>4, <3>1
        <3>2. CASE Len(b) > 1
            BY <1>1, <2>4, <3>2
        <3>3. QED
            BY <1>1, <3>1, <3>2
    <2>5. QED
        BY <1>3, <2>1, <2>3, <2>4 DEF NothingMissed
<1>8. QED
    BY <1>4, <1>5, <1>6, <1>7


\* The client has the event already: its number is at most the cursor.
LEMMA SkipKeeps ==
    ASSUME StoreInvariant, StreamInvariant, Skip
    PROVE  StreamInvariant'
<1>1. /\ server.pc = "yield" /\ server.batch # <<>> /\ ~(Head(server.batch).seq > server.cursor)
      /\ received' = received /\ UNCHANGED <<files, events, manifest, runs>>
      /\ server' = [server EXCEPT !.batch = Tail(@)]
    BY StoreRead DEF Skip, Past, Reads
<1>2. /\ Tail(server.batch) \in Seq(Event) /\ Head(server.batch).seq \in Nat
      /\ Len(received) \in Nat /\ server.cursor = Len(received) - 1
    BY <1>1, BatchParts, LenProperties DEF StreamInvariant, StreamTypes, Numbered
<1>3. /\ server'.pc = "yield" /\ server'.inc = server.inc /\ server'.run = server.run
      /\ server'.cursor = server.cursor /\ server'.atEnd = server.atEnd
      /\ server'.batch = Tail(server.batch)
      /\ StreamTypes'
    BY <1>1, <1>2 DEF StreamInvariant, StreamTypes
<1>4. Head(server.batch).seq < Len(received)
    BY <1>1, <1>2
<1>5. \A k \in DOMAIN received : received[k].seq = k - 1
    BY DEF StreamInvariant, Numbered
<1>6. SameRun /\ "manifest" \in files[server.inc] => InPlace(received)'
    BY <1>1, <1>3 DEF StreamInvariant, EventsInPlace, InPlace
<1>7. Len(received') >= Len(received)
    BY <1>1, <1>2
<1>8. QED
    BY <1>1, <1>2, <1>3, <1>4, <1>5, <1>6, <1>7, NextOfBatch

\* The event is the next one the client lacks: nothing was skipped before it.
LEMMA YieldKeeps ==
    ASSUME StoreInvariant, StreamInvariant, Yield
    PROVE  StreamInvariant'
<1> DEFINE e == Head(server.batch)
<1>1. /\ server.pc = "yield" /\ server.batch # <<>> /\ e.seq > server.cursor
      /\ received' = Append(received, e) /\ UNCHANGED <<files, events, manifest, runs>>
      /\ server' = [server EXCEPT !.batch = Tail(@), !.cursor = e.seq]
    BY DEF Yield, Past, vars, disk
<1>2. /\ Tail(server.batch) \in Seq(Event) /\ e \in Event /\ e.seq \in Nat
      /\ e = server.batch[1] /\ 1 \in DOMAIN server.batch
      /\ received \in Seq(Event) /\ Len(received) \in Nat /\ DOMAIN received = 1..Len(received)
      /\ server.cursor = Len(received) - 1
    BY <1>1, BatchParts, LenProperties DEF StreamInvariant, StreamTypes, Numbered
<1>3. e.seq = Len(received)
    <2>1. e.seq <= Len(received)
        BY <1>1, <1>2 DEF StreamInvariant, BatchFits
    <2>2. QED
        BY <1>1, <1>2, <2>1
<1> HIDE DEF e
<1>4. /\ received' \in Seq(Event) /\ Len(received') = Len(received) + 1
      /\ DOMAIN received' = 1..(Len(received) + 1)
      /\ \A k \in 1..Len(received) : received'[k] = received[k]
      /\ received'[Len(received) + 1] = e
    BY <1>1, <1>2, AppendProperties, LenProperties
<1>5. /\ server'.pc = "yield" /\ server'.inc = server.inc /\ server'.run = server.run
      /\ server'.cursor = e.seq /\ server'.atEnd = server.atEnd
      /\ server'.batch = Tail(server.batch)
      /\ StreamTypes'
    <2>1. e.seq \in Int
        BY <1>2
    <2>2. StreamTypes'
        <3>1. PICK t \in Seq(Event), n \in Int :
                  server' = [server EXCEPT !.batch = t, !.cursor = n]
            BY <1>1, <1>2, <2>1
        <3>2. QED
            BY <1>4, <3>1 DEF StreamInvariant, StreamTypes
    <2>3. QED
        BY <1>1, <2>2 DEF StreamInvariant, StreamTypes
<1>6. \A k \in DOMAIN received' : received'[k].seq = k - 1
    BY <1>2, <1>3, <1>4 DEF StreamInvariant, Numbered
<1>7. ASSUME SameRun, "manifest" \in files[server.inc] PROVE InPlace(received)'
    <2>1. InPlace(received) /\ InPlace(server.batch)
        BY <1>1, <1>7 DEF StreamInvariant, EventsInPlace
    <2>2. ASSUME NEW k \in DOMAIN received'
          PROVE  /\ received'[k].seq + 1 \in DOMAIN events[server.inc]
                 /\ events[server.inc][received'[k].seq + 1] = received'[k]
        <3>1. CASE k = Len(received) + 1
            BY <1>2, <1>4, <2>1, <3>1 DEF InPlace
        <3>2. CASE k \in DOMAIN received
            BY <1>2, <1>4, <2>1, <3>2 DEF InPlace
        <3>3. QED
            BY <1>2, <1>4, <3>1, <3>2
    <2>3. QED
        BY <1>1, <1>5, <2>2 DEF InPlace
<1>8. /\ server'.cursor = Len(received') - 1 /\ Len(received') \in Nat
      /\ Len(received') >= Len(received) /\ e.seq < Len(received')
    BY <1>2, <1>3, <1>4, <1>5
<1>9. QED
    BY <1>1, <1>2, <1>5, <1>6, <1>7, <1>8, NextOfBatch DEF e

-----------------------------------------------------------------------------
(* What the client is promised                                             *)

LEMMA StreamInductive ==
    StoreInvariant /\ StreamInvariant /\ [StreamNext]_streamVars
        => (StoreInvariant /\ StreamInvariant)'
<1> SUFFICES ASSUME StoreInvariant, StreamInvariant, [StreamNext]_streamVars
             PROVE  StoreInvariant' /\ StreamInvariant'
    OBVIOUS
<1>1. CASE StoreStep
    BY <1>1, StoreStepKeeps, StoreInductive DEF StoreStep
<1>2. CASE ServerStep
    <2>1. UNCHANGED vars
        BY <1>2 DEF ServerStep, Connect, ReadManifest, ReadEvents, ReportMissing,
                    BreakConnection, Skip, Yield, EndRound, Drop
    <2>2. StreamInvariant'
        BY <1>2, ConnectKeeps, ReadManifestKeeps, ReadEventsKeeps, RefusedOrDroppedKeeps,
           SkipKeeps, YieldKeeps, EndRoundKeeps DEF ServerStep
    <2>3. QED
        BY <2>1, <2>2, StoreInductive
<1>3. CASE UNCHANGED streamVars
    <2>1. UNCHANGED <<vars, server, received>>
        BY <1>3 DEF streamVars, client
    <2>2. UNCHANGED <<files, events, manifest, runs>>
        BY <2>1 DEF vars, disk
    <2>3. StreamInvariant'
        BY <2>1, <2>2 DEF StreamInvariant, StreamTypes, Numbered, BatchFits, EventsInPlace,
                          InPlace, NothingMissed, SameRun
    <2>4. QED
        BY <2>1, <2>3, StoreInductive
<1>4. QED
    BY <1>1, <1>2, <1>3 DEF StreamNext

\* The inductive invariant of the stream and the store together: a batch was read from
\* the run it is sent for, and nothing before the cursor was left out.
THEOREM StreamSafe == StreamSpec => [](StoreInvariant /\ StreamInvariant)
BY StreamInitially, StreamInductive, PTL DEF StreamSpec

\* Whatever the store does between two reads, over dropped connections and crashes,
\* the client has the events of its run once each and in their order.
THEOREM ClientHasAPrefix == StreamSpec => []PrefixReceived
<1>1. StoreInvariant /\ StreamInvariant => PrefixReceived
    <2> SUFFICES ASSUME StoreInvariant, StreamInvariant, SameRun,
                        "manifest" \in files[server.inc]
                 PROVE  /\ Len(received) <= Len(events[server.inc])
                        /\ received = SubSeq(events[server.inc], 1, Len(received))
        BY DEF PrefixReceived
    <2> DEFINE stream == events[server.inc]
    <2>1. stream \in Seq(Event) /\ received \in Seq(Event)
        BY DEF StoreInvariant, TypeOK, StreamInvariant, StreamTypes, SameRun
    <2>2. /\ Len(stream) \in Nat /\ DOMAIN stream = 1..Len(stream)
          /\ Len(received) \in Nat /\ DOMAIN received = 1..Len(received)
        BY <2>1, LenProperties
    <2>3. \A k \in 1..Len(received) : k \in 1..Len(stream) /\ stream[k] = received[k]
        <3>1. ASSUME NEW k \in 1..Len(received)
              PROVE  k \in 1..Len(stream) /\ stream[k] = received[k]
            <4>1. received[k].seq = k - 1 /\ received[k].seq + 1 = k
                BY <2>2 DEF StreamInvariant, Numbered
            <4>2. InPlace(received)
                BY DEF StreamInvariant, EventsInPlace
            <4>3. QED
                BY <2>2, <4>1, <4>2 DEF InPlace
        <3>2. QED
            BY <3>1
    <2> HIDE DEF stream
    <2>4. Len(received) <= Len(stream)
        BY <2>2, <2>3
    <2>5. /\ SubSeq(stream, 1, Len(received)) \in Seq(Event)
          /\ Len(SubSeq(stream, 1, Len(received))) = Len(received)
          /\ \A k \in 1..Len(received) : SubSeq(stream, 1, Len(received))[k] = stream[k]
        <3>1. \A k \in 1..Len(received) : stream[k] \in Event
            BY <2>1, <2>3, ElementOfSeq
        <3>2. QED
            BY <2>2, <3>1, SubSeqProperties
    <2>6. received = SubSeq(stream, 1, Len(received))
        BY <2>1, <2>3, <2>5, SeqEqual
    <2>7. QED
        BY <2>4, <2>6 DEF stream
<1>2. QED
    BY <1>1, StreamSafe, PTL

\* The order of the two reads of a round: the events are read after the status, so a
\* stream that returns missed none of the events its run had recorded by then.
THEOREM ReturnedStreamsAreComplete == StreamSpec => []CompleteOnReturn
<1>1. StreamInvariant => CompleteOnReturn
    BY DEF StreamInvariant, NothingMissed, CompleteOnReturn
<1>2. QED
    BY <1>1, StreamSafe, PTL

==============================================================================
