---------------------------- MODULE LiveSandbox -----------------------------
(***************************************************************************)
(* The public sandbox (web/worker/live-sandbox.ts): one Durable Object     *)
(* that keeps every run, rate-limit window and idempotency key in a single *)
(* stored value, and whose requests create a run, stream it, and reset it. *)
(* The first stream of a run also executes it.                             *)
(*                                                                         *)
(* The object runs one piece of JavaScript at a time and delivers no event *)
(* to it while a storage operation is pending, so what a request does      *)
(* between two awaits of anything else (a timer, the body of a request) is *)
(* one step, its get and its put included.  The exception is the end of a  *)
(* run, where a digest is awaited between the get and the put.             *)
(*                                                                         *)
(* Runs are numbered in the order of their creation.  Of the clock only    *)
(* two marks are kept: the runs up to stale are older than STALE_RUN_MS,   *)
(* the attempts up to old are outside RATE_WINDOW_MS.  The source numbers  *)
(* events from 0 and starts the cursor at -1; here both are one higher.    *)
(***************************************************************************)
EXTENDS Naturals, Sequences, FiniteSets

CONSTANTS
    Sessions,     \* browser sessions
    Clients,      \* client addresses
    Address,      \* Address[s]: the address that session s comes from
    Keys,         \* idempotency keys
    Streams,      \* connections to /api/runs/{id}/events
    Absent,
    RateLimit,    \* RATE_LIMIT
    ClientRateLimit,
    MaxRuns,      \* MAX_RUNS
    NumEvents,    \* events of a run
    MaxPolls,     \* polls of a stream that does not execute
    MaxCreated,   \* bound: runs created
    MaxFaults     \* bound: storage calls that fail

ASSUME SandboxAssumption ==
    /\ Address \in [Sessions -> Clients] /\ Sessions \cap Clients = {}
    /\ {RateLimit, ClientRateLimit, MaxCreated, MaxFaults} \subseteq Nat
    /\ {MaxRuns, NumEvents, MaxPolls} \subseteq Nat \ {0}

VARIABLES
    sandbox,      \* the stored value: runs, attempts and idempotency
    created,      \* number of runs created
    stale, old,   \* the marks of the clock
    stream,       \* stream[c]: what the object does for connection c
    client,       \* client[c]: what the client of c was sent
    author,       \* author[i]: the session that created run i (history)
    overwritten,  \* the end of a run overwrote a change (history)
    faults

vars == <<sandbox, created, stale, old, stream, client, author, overwritten, faults>>

Runs == 1..MaxCreated
Statuses == {"RUNNING", "COMPLETED", "FAILED"}
StoredRun == [status: Statuses, started: BOOLEAN, events: Seq(1..NumEvents),
              session: Sessions, key: Keys]
Sandbox == [runs: [Runs -> StoredRun \cup {Absent}],
            attempts: [Sessions \cup Clients -> SUBSET Runs],
            idempotency: [Sessions \X Keys -> Runs \cup {Absent}]]

\* A connection: the run it streams, the number of events it generated or of polls
\* it made, whether its client still listens, and the value read before the digest
Closed == [role |-> "closed", run |-> Absent, steps |-> 0, open |-> FALSE, read |-> Absent]
NothingSent == [after |-> 0, events |-> <<>>, end |-> "none"]
Stream == [role: {"closed", "executor", "reader"}, run: Runs \cup {Absent}, steps: Nat,
           open: BOOLEAN, read: Sandbox \cup {Absent}]
Client == [after: 0..NumEvents, events: Seq(1..NumEvents), end: {"none", "COMPLETED", "FAILED"}]

ASSUME AbsentAssumption == Absent \notin Runs \cup StoredRun \cup Sandbox \cup Sessions

TypeOK ==
    /\ sandbox \in Sandbox
    /\ created \in 0..MaxCreated /\ stale \in 0..created /\ old \in 0..stale
    /\ stream \in [Streams -> Stream] /\ client \in [Streams -> Client]
    /\ author \in [Runs -> Sessions \cup {Absent}]
    /\ overwritten \in BOOLEAN /\ faults \in 0..MaxFaults

\* emptyState
Init ==
    /\ sandbox = [runs |-> [i \in Runs |-> Absent],
                  attempts |-> [b \in Sessions \cup Clients |-> {}],
                  idempotency |-> [k \in Sessions \X Keys |-> Absent]]
    /\ created = 0 /\ stale = 0 /\ old = 0 /\ faults = 0 /\ overwritten = FALSE
    /\ stream = [c \in Streams |-> Closed]
    /\ client = [c \in Streams |-> NothingSent]
    /\ author = [i \in Runs |-> Absent]

Stored(value) == {i \in Runs : value.runs[i] # Absent}
Running(value) == {i \in Stored(value) : value.runs[i].status = "RUNNING"}
WithStatus(value, set, status) ==
    [value EXCEPT !.runs = [i \in Runs |->
        IF i \in set THEN [value.runs[i] EXCEPT !.status = status] ELSE value.runs[i]]]

-----------------------------------------------------------------------------
(* handleCreate *)

\* Mutant of Attempts: counts the runs that are still stored.
AttemptsStored(b) == {i \in sandbox.attempts[b] : i > old /\ i \in Stored(sandbox)}

\* The attempts of a session or of an address that are inside the window
Attempts(b) == {i \in sandbox.attempts[b] : i > old}

\* Mutant of Busy: a run that nobody streams yet is not in the way.
BusyStarted(value) == \E i \in Running(value) : value.runs[i].started

Busy(value) == Running(value) # {}

\* Mutant of Replayed: a run that ended is not replayed.
ReplayedRunning(s, k) == sandbox.idempotency[<<s, k>>] \in Running(sandbox)

\* The key names a run that is still stored: the request is a retry.
Replayed(s, k) == sandbox.idempotency[<<s, k>>] \in Stored(sandbox)

\* The newest MaxRuns runs and those that execute stay.
Trimmed(value) ==
    [value EXCEPT !.runs = [i \in Runs |->
        IF Cardinality({j \in Stored(value) : j > i}) >= MaxRuns /\ i \notin Running(value)
        THEN Absent ELSE value.runs[i]]]

\* Runs beyond STALE_RUN_MS are timed out first; a request that is refused does
\* not store that.
Create(s, k) ==
    LET i == created + 1
        swept == WithStatus(sandbox, {j \in Running(sandbox) : j <= stale}, "FAILED")
        new == [status |-> "RUNNING", started |-> FALSE, events |-> <<>>,
                session |-> s, key |-> k]
    IN
    /\ created < MaxCreated
    /\ ~Replayed(s, k)
    /\ Cardinality(Attempts(s)) < RateLimit
    /\ Cardinality(Attempts(Address[s])) < ClientRateLimit
    /\ ~Busy(swept)
    /\ sandbox' = Trimmed([swept EXCEPT
           !.runs[i] = new,
           !.attempts = [b \in Sessions \cup Clients |->
               IF b \in {s, Address[s]} THEN Attempts(b) \cup {i} ELSE sandbox.attempts[b]],
           !.idempotency[<<s, k>>] = i])
    /\ created' = i
    /\ author' = [author EXCEPT ![i] = s]
    /\ UNCHANGED <<stale, old, stream, client, overwritten, faults>>

-----------------------------------------------------------------------------
(* streamRun *)

\* The last event sent on connection c, when those in sent were
LastSent(c, sent) == IF sent = <<>> THEN client[c].after ELSE sent[Len(sent)]

\* sendAvailable: what was sent on c once the loop went through the events
SendAvailable(c, events) ==
    LET sent[n \in 0..Len(events)] ==
            IF n = 0 THEN client[c].events
            ELSE IF events[n] > LastSent(c, sent[n - 1]) THEN Append(sent[n - 1], events[n])
            ELSE sent[n - 1]
    IN  sent[Len(events)]

\* The events and a last frame; a stream whose client is gone sends nothing.
Sent(c, events, end) ==
    IF stream[c].open
    THEN [client EXCEPT ![c].events = SendAvailable(c, events), ![c].end = end]
    ELSE client

\* Mutant of ShouldExecute: whoever streams a run that goes on executes it.
ShouldExecuteRunning(run) == run.status = "RUNNING"

\* The first stream of a run executes it, whatever its status.
ShouldExecute(run) == ~run.started

Connect(c, i) ==
    /\ stream[c].role = "closed"
    /\ i \in Stored(sandbox)
    /\ LET run == sandbox.runs[i]
           role == IF ShouldExecute(run) THEN "executor" ELSE "reader"
       IN
       /\ sandbox' = [sandbox EXCEPT !.runs[i].started = TRUE]
       /\ stream' = [stream EXCEPT ![c] = [Closed EXCEPT !.role = role, !.run = i, !.open = TRUE]]
       \* the client asks for the events after those it has seen
       /\ \E after \in 0..Len(run.events) :
             client' = [client EXCEPT ![c] = [NothingSent EXCEPT !.after = after]]
    /\ UNCHANGED <<created, stale, old, author, overwritten, faults>>

\* Mutant of WithEvent: the event brings a removed run back.
WithEventRestored(i, e) ==
    IF i \in Stored(sandbox) THEN [sandbox EXCEPT !.runs[i].events = Append(@, e)]
    ELSE [sandbox EXCEPT !.runs[i] = [status |-> "RUNNING", started |-> TRUE, events |-> <<e>>,
              session |-> author[i], key |-> CHOOSE k \in Keys : TRUE]]

\* The stored value with event e of run i; a run that was removed gets none.
WithEvent(i, e) ==
    IF i \in Stored(sandbox) THEN [sandbox EXCEPT !.runs[i].events = Append(@, e)] ELSE sandbox

\* Mutants of GeneratedAll: the loop stops one event early, or one late.
GeneratedAllButOne(c) == stream[c].steps >= NumEvents - 1
GeneratedOneMore(c) == stream[c].steps > NumEvents

\* The executor's loop is over.
GeneratedAll(c) == stream[c].steps = NumEvents

\* One turn of the executor's loop, which a removed run ends
Emit(c) ==
    LET i == stream[c].run
        e == stream[c].steps + 1
    IN
    /\ stream[c].role = "executor" /\ ~GeneratedAll(c)
    /\ sandbox' = WithEvent(i, e)
    /\ stream' = [stream EXCEPT ![c].steps = IF i \in Stored(sandbox) THEN e ELSE NumEvents]
    /\ client' = IF i \in Stored(sandbox) THEN Sent(c, sandbox'.runs[i].events, "none") ELSE client
    /\ UNCHANGED <<created, stale, old, author, overwritten, faults>>

\* The executor reads the stored value again and awaits the digest of its events.
AwaitDigest(c) ==
    /\ stream[c].role = "executor" /\ GeneratedAll(c) /\ stream[c].read = Absent
    /\ stream' = [stream EXCEPT ![c].read = sandbox]
    /\ UNCHANGED <<sandbox, created, stale, old, client, author, overwritten, faults>>

\* It puts back what it read, with the run completed.
Complete(c) ==
    LET i == stream[c].run
        read == stream[c].read
    IN
    /\ read # Absent
    /\ IF i \in Stored(read)
       THEN /\ sandbox' = WithStatus(read, {i}, "COMPLETED")
            /\ client' = Sent(c, <<>>, "COMPLETED")
            /\ overwritten' = (overwritten \/ sandbox # read)
       ELSE UNCHANGED <<sandbox, client, overwritten>>
    /\ stream' = [stream EXCEPT ![c] = Closed]
    /\ UNCHANGED <<created, stale, old, author, faults>>

\* One poll of a stream that does not execute: what is new, and the end
Poll(c) ==
    LET i == stream[c].run
        run == sandbox.runs[i]
        goesOn == i \in Running(sandbox)
    IN
    /\ stream[c].role = "reader"
    /\ client' = IF i \in Stored(sandbox)
                 THEN Sent(c, run.events, IF goesOn THEN "none" ELSE run.status) ELSE client
    /\ stream' = IF goesOn /\ stream[c].steps + 1 < MaxPolls
                 THEN [stream EXCEPT ![c].steps = @ + 1] ELSE [stream EXCEPT ![c] = Closed]
    /\ UNCHANGED <<sandbox, created, stale, old, author, overwritten, faults>>

-----------------------------------------------------------------------------
(* handleReset, and what happens to the object *)

\* Only the session that created a run may reset it, once it ended.
Reset(s, i) ==
    /\ i \in Stored(sandbox) /\ sandbox.runs[i].session = s
    /\ i \notin Running(sandbox)
    /\ sandbox' = [sandbox EXCEPT !.runs[i] = Absent,
                                 !.idempotency[<<s, sandbox.runs[i].key>>] = Absent]
    /\ UNCHANGED <<created, stale, old, stream, client, author, overwritten, faults>>

\* A storage call of a stream failed: its catch block fails the run, whether the
\* stream executes it or not, unless storage still does not answer.  The client is told of an error.
StreamError(c) ==
    LET i == stream[c].run IN
    /\ stream[c].role # "closed"
    /\ faults < MaxFaults /\ faults' = faults + 1
    /\ \/ sandbox' = WithStatus(sandbox, {i} \cap Stored(sandbox), "FAILED")
       \/ UNCHANGED sandbox
    /\ stream' = [stream EXCEPT ![c] = Closed]
    /\ client' = [client EXCEPT ![c] = NothingSent]
    /\ UNCHANGED <<created, stale, old, author, overwritten>>

\* The client leaves or the object is evicted: storage survives, and the stream
\* ends.  An executor whose client left may also go on.
Drop(c) ==
    /\ stream[c].role # "closed"
    /\ \/ /\ stream[c].role = "executor"
          /\ stream' = [stream EXCEPT ![c].open = FALSE]
       \/ stream' = [stream EXCEPT ![c] = Closed]
    /\ client' = [client EXCEPT ![c] = NothingSent]
    /\ UNCHANGED <<sandbox, created, stale, old, author, overwritten, faults>>

\* Time passes; the window is longer than STALE_RUN_MS.
Tick ==
    /\ \/ stale < created /\ stale' = stale + 1 /\ UNCHANGED old
       \/ old < stale /\ old' = old + 1 /\ UNCHANGED stale
    /\ UNCHANGED <<sandbox, created, stream, client, author, overwritten, faults>>

\* Once the end of a run overwrote a change nothing is claimed any more, and the
\* model stops.
Next ==
    /\ ~overwritten
    /\ \/ \E s \in Sessions : (\E k \in Keys : Create(s, k)) \/ (\E i \in Runs : Reset(s, i))
       \/ \E c \in Streams :
             \/ \E i \in Runs : Connect(c, i)
             \/ Emit(c) \/ AwaitDigest(c) \/ Complete(c) \/ Poll(c)
             \/ StreamError(c) \/ Drop(c)
       \/ Tick

Spec == Init /\ [][Next]_vars

-----------------------------------------------------------------------------
(* Properties                                                              *)

Counting(n) == [k \in 1..n |-> k]

\* "A bounded live run is already executing": whatever streams were lost, failed or
\* timed out before, at most one stored run is RUNNING.
OneRunning == Cardinality(Running(sandbox)) <= 1

\* A run is executed once, although any number of streams connect to it and it may go
\* on after it was timed out: its events are 1, 2, 3, ..., and a client is sent those
\* behind its cursor, each once and in order.
EachEventOnce ==
    ~overwritten =>
        /\ \A i \in Stored(sandbox) :
              LET events == sandbox.runs[i].events IN events = Counting(Len(events))
        /\ \A c \in Streams : client[c].events =
              [k \in DOMAIN client[c].events |-> client[c].after + k]

\* A stream that reports COMPLETED has sent every event of the run.
CompletedIsWhole ==
    ~overwritten => \A c \in Streams : client[c].end = "COMPLETED" =>
        client[c].after + Len(client[c].events) = NumEvents

\* "Three runs per browser session per ten minutes", whatever the session resets
\* meanwhile.  The end of a run may forget attempts when it overwrites a change.
RateLimited ==
    ~overwritten => \A s \in Sessions :
        Cardinality({i \in Runs : i > old /\ author[i] = s}) <= RateLimit

\* One request that is retried under its idempotency key has one run.
OneRunPerKey ==
    \A i, j \in Stored(sandbox) :
        /\ sandbox.runs[i].session = sandbox.runs[j].session
        /\ sandbox.runs[i].key = sandbox.runs[j].key
        => i = j

\* A run that was reset or trimmed does not come back, although a stream may still
\* execute it; only the end of a run can bring it back, by overwriting a change.
GoneStaysGone ==
    [][\A i \in 1..created : i \notin Stored(sandbox) /\ ~overwritten' =>
           i \notin Stored(sandbox')]_vars
=============================================================================
