-------------------------- MODULE LiveSandboxProofs -------------------------
(***************************************************************************)
(* Proofs about LiveSandbox: one run at a time, each event once and in     *)
(* order to every client, and the limits, for any number of sessions,      *)
(* streams, runs and events.                                               *)
(***************************************************************************)
EXTENDS LiveSandbox, SequenceTheorems, FiniteSetTheorems, WellFoundedInduction, TLAPS

-----------------------------------------------------------------------------
(* Sequences that count                                                    *)

\* The n numbers after a.
CountFrom(a, n) == [k \in 1..n |-> a + k]

LEMMA CountFromSeq ==
    ASSUME NEW a \in Nat, NEW n \in Nat
    PROVE  /\ CountFrom(a, n) \in Seq(Nat)
           /\ Len(CountFrom(a, n)) = n /\ DOMAIN CountFrom(a, n) = 1..n
           /\ \A k \in 1..n : CountFrom(a, n)[k] = a + k
           /\ CountFrom(a, n) = <<>> <=> n = 0
           /\ \A m \in Nat : a + n <= m => CountFrom(a, n) \in Seq(1..m)
<1>1. CountFrom(a, n) \in [1..n -> Nat]
    BY DEF CountFrom
<1>2. CountFrom(a, n) \in Seq(Nat) /\ Len(CountFrom(a, n)) = n /\ DOMAIN CountFrom(a, n) = 1..n
    BY <1>1
<1>3. \A k \in 1..n : CountFrom(a, n)[k] = a + k
    BY DEF CountFrom
<1>4. CountFrom(a, n) = <<>> <=> n = 0
    BY <1>2, EmptySeq
<1>5. ASSUME NEW m \in Nat, a + n <= m PROVE CountFrom(a, n) \in Seq(1..m)
    <2>1. CountFrom(a, n) \in [1..n -> 1..m]
        BY <1>5 DEF CountFrom
    <2>2. QED
        BY <2>1
<1>6. QED
    BY <1>2, <1>3, <1>4, <1>5

LEMMA CountFromAppend ==
    ASSUME NEW a \in Nat, NEW n \in Nat
    PROVE  Append(CountFrom(a, n), a + n + 1) = CountFrom(a, n + 1)
<1>1. /\ CountFrom(a, n) \in Seq(Nat) /\ Len(CountFrom(a, n)) = n
      /\ \A k \in 1..n : CountFrom(a, n)[k] = a + k
      /\ CountFrom(a, n + 1) \in Seq(Nat) /\ Len(CountFrom(a, n + 1)) = n + 1
      /\ \A k \in 1..(n + 1) : CountFrom(a, n + 1)[k] = a + k
    <2>1. n + 1 \in Nat
        OBVIOUS
    <2>2. QED
        BY <2>1, CountFromSeq
<1> DEFINE s == Append(CountFrom(a, n), a + n + 1)
<1>2. /\ s \in Seq(Nat) /\ Len(s) = n + 1
      /\ \A k \in 1..n : s[k] = a + k
      /\ s[n + 1] = a + n + 1
    BY <1>1, AppendProperties
<1> HIDE DEF s
<1>3. ASSUME NEW k \in 1..(n + 1) PROVE s[k] = CountFrom(a, n + 1)[k]
    <2>1. CountFrom(a, n + 1)[k] = a + k
        BY <1>1
    <2>2. s[k] = a + k
        BY <1>2
    <2>3. QED
        BY <2>1, <2>2
<1>4. s = CountFrom(a, n + 1)
    <2> DEFINE t == CountFrom(a, n + 1)
    <2>1. s \in Seq(Nat) /\ t \in Seq(Nat) /\ Len(s) = Len(t)
        BY <1>1, <1>2
    <2>2. \A k \in 1..Len(s) : s[k] = t[k]
        BY <1>2, <1>3
    <2> HIDE DEF t
    <2>3. s = t
        BY <2>1, <2>2, SeqEqual
    <2>4. QED
        BY <2>3 DEF t
<1>5. QED
    BY <1>4 DEF s

\* A nonempty set of naturals has a least element.
LEMMA LeastOf ==
    ASSUME NEW S \in SUBSET Nat, S # {}
    PROVE  \E n \in S : \A m \in S : n <= m
<1> DEFINE R == OpToRel(<, Nat)
<1>1. \A m, n \in Nat : <<m, n>> \in R <=> m < n
    BY DEF OpToRel
<1>2. IsWellFoundedOn(R, Nat)
    BY NatLessThanWellFounded
<1> HIDE DEF R
<1>3. PICK x \in S : \A y \in S : ~ (<<y, x>> \in R)
    BY <1>2, WFMin
<1>4. ASSUME NEW y \in S PROVE x <= y
    <2>1. x \in Nat /\ y \in Nat /\ ~(<<y, x>> \in R)
        BY <1>3
    <2>2. QED
        BY <1>1, <2>1
<1>5. QED
    BY <1>4

-----------------------------------------------------------------------------
(* sendAvailable                                                           *)

\* f is what the loop of sendAvailable has sent after each event.
IsLoop(c, events, f) ==
    f = [n \in 0..Len(events) |->
            IF n = 0 THEN client[c].events
            ELSE IF events[n] > LastSent(c, f[n - 1]) THEN Append(f[n - 1], events[n])
            ELSE f[n - 1]]

LEMMA SendAvailableIsChosen ==
    ASSUME NEW c, NEW events
    PROVE  SendAvailable(c, events) = (CHOOSE f : IsLoop(c, events, f))[Len(events)]
BY DEF SendAvailable, IsLoop

\* To a client that has the p events after its cursor a, a run with the events 1, ..., n
\* sends those from a + p + 1 on.
LEMMA SendsTheRest ==
    ASSUME NEW c, NEW a \in Nat, NEW p \in Nat, NEW n \in Nat,
           client[c].after = a, client[c].events = CountFrom(a, p),
           NEW events, events = CountFrom(0, n)
    PROVE  SendAvailable(c, events) = CountFrom(a, IF n > a + p THEN n - a ELSE p)
<1> DEFINE Size(k) == IF k > a + p THEN k - a ELSE p
           Next1(s, k) == IF events[k] > LastSent(c, s) THEN Append(s, events[k]) ELSE s
           f == [k \in 0..n |-> CountFrom(a, Size(k))]
<1>1. Len(events) = n /\ \A k \in 1..n : events[k] = k
    <2>1. /\ 0 \in Nat /\ Len(CountFrom(0, n)) = n
          /\ \A k \in 1..n : CountFrom(0, n)[k] = 0 + k
        BY CountFromSeq
    <2>2. QED
        BY <2>1
<1>2. ASSUME NEW k \in 1..n
      PROVE  Next1(CountFrom(a, Size(k - 1)), k) = CountFrom(a, Size(k))
    <2> DEFINE q == Size(k - 1)
               s == CountFrom(a, q)
    <2>1. q \in Nat /\ k - 1 \in Nat
        OBVIOUS
    <2>2. LastSent(c, s) = a + q
        <3>1. s = <<>> <=> q = 0
            BY <2>1, CountFromSeq
        <3>2. q # 0 => Len(s) = q /\ s[q] = a + q
            <4>1. Len(s) = q /\ \A i \in 1..q : s[i] = a + i
                BY <2>1, CountFromSeq
            <4>2. q # 0 => q \in 1..q
                BY <2>1
            <4>3. QED
                BY <4>1, <4>2
        <3>3. QED
            BY <2>1, <3>1, <3>2 DEF LastSent
    <2>3. CASE k > a + p
        <3>1. a + q + 1 = k /\ Size(k) = q + 1
            BY <2>3
        <3>2. Append(s, k) = CountFrom(a, Size(k))
            <4> HIDE DEF Size, q
            <4>1. Append(CountFrom(a, q), a + q + 1) = CountFrom(a, q + 1)
                BY <2>1, CountFromAppend
            <4>2. QED
                BY <3>1, <4>1
        <3>3. events[k] = k /\ k > a + q
            BY <1>1, <2>1, <3>1
        <3>4. QED
            BY <2>2, <3>2, <3>3
    <2>4. CASE ~(k > a + p)
        <3>1. q = p /\ Size(k) = p /\ ~(events[k] > a + q)
            BY <1>1, <2>4
        <3>2. QED
            BY <2>2, <3>1
    <2>5. QED
        BY <2>3, <2>4
<1>3. f[0] = client[c].events
    OBVIOUS
<1>4. \A k \in 0..n : f[k] = IF k = 0 THEN client[c].events ELSE Next1(f[k - 1], k)
    <2>1. ASSUME NEW k \in 1..n PROVE f[k] = Next1(f[k - 1], k)
        <3>1. k - 1 \in 0..n /\ k \in 0..n
            OBVIOUS
        <3>2. f[k] = CountFrom(a, Size(k)) /\ f[k - 1] = CountFrom(a, Size(k - 1))
            BY <3>1
        <3>3. QED
            BY <1>2, <3>2
    <2>2. ASSUME NEW k \in 0..n
          PROVE  f[k] = IF k = 0 THEN client[c].events ELSE Next1(f[k - 1], k)
        <3>1. k # 0 => k \in 1..n
            OBVIOUS
        <3> HIDE DEF f, Next1
        <3>2. QED
            BY <1>3, <2>1, <3>1
    <2>3. QED
        BY <2>2
<1>5. IsLoop(c, events, f)
    <2> HIDE DEF f
    <2>1. f = [k \in 0..n |-> f[k]]
        BY DEF f
    <2>2. \A k \in 0..n : f[k] = IF k = 0 THEN client[c].events ELSE Next1(f[k - 1], k)
        BY <1>4
    <2>3. QED
        BY <1>1, <2>1, <2>2 DEF IsLoop
<1> DEFINE g == CHOOSE h : IsLoop(c, events, h)
<1>6. IsLoop(c, events, g)
    BY <1>5
<1> HIDE DEF g
<1>7. \A k \in 0..n : g[k] = IF k = 0 THEN client[c].events ELSE Next1(g[k - 1], k)
    BY <1>1, <1>6 DEF IsLoop
\* There is only one: the first difference would have no reason.
<1> HIDE DEF f, Next1
<1>8. \A k \in 0..n : g[k] = f[k]
    <2> DEFINE D == {k \in 0..n : g[k] # f[k]}
    <2>1. SUFFICES ASSUME D # {} PROVE FALSE
        OBVIOUS
    <2>2. PICK d \in D : \A m \in D : d <= m
        <3>1. D \in SUBSET Nat
            OBVIOUS
        <3> HIDE DEF D
        <3>2. QED
            BY <2>1, <3>1, LeastOf
    <2>3. d # 0
        BY <1>4, <1>7, <2>2
    <2>4. d - 1 \in 0..n /\ d - 1 \notin D
        BY <2>2, <2>3
    <2>5. g[d - 1] = f[d - 1]
        BY <2>4
    <2>6. QED
        BY <1>4, <1>7, <2>2, <2>3, <2>5
<1>9. SendAvailable(c, events) = g[n]
    BY <1>1, SendAvailableIsChosen DEF g
<1>10. QED
    BY <1>8, <1>9 DEF f


-----------------------------------------------------------------------------
(* The stored value                                                        *)

\* One run executes at most, and a key names the one run that was made under it.
Valid(v) ==
    /\ \A i, j \in Running(v) : i = j
    /\ \A i \in Stored(v) : v.idempotency[<<v.runs[i].session, v.runs[i].key>>] = i

\* Runs that are stored in w are stored in v, under the same session and key.
KeepsRuns(v, w) ==
    \A i \in Stored(w) : /\ i \in Stored(v)
                         /\ w.runs[i].session = v.runs[i].session
                         /\ w.runs[i].key = v.runs[i].key

LEMMA ValidKept ==
    ASSUME NEW v, NEW w, Valid(v), KeepsRuns(v, w), w.idempotency = v.idempotency,
           Running(w) \subseteq Running(v)
    PROVE  Valid(w)
BY DEF Valid, KeepsRuns

LEMMA StoredTypes ==
    ASSUME NEW v \in Sandbox, NEW i \in Stored(v)
    PROVE  /\ i \in Runs /\ v.runs[i] \in StoredRun
           /\ v.runs[i].session \in Sessions /\ v.runs[i].key \in Keys
           /\ v.runs[i].events \in Seq(1..NumEvents) /\ v.runs[i].status \in Statuses
BY DEF Stored, Sandbox, StoredRun

\* A value whose runs are replaced.
LEMMA RunsReplaced ==
    ASSUME NEW v \in Sandbox, NEW R \in [Runs -> StoredRun \cup {Absent}]
    PROVE  /\ [v EXCEPT !.runs = R] \in Sandbox
           /\ [v EXCEPT !.runs = R].runs = R
           /\ [v EXCEPT !.runs = R].attempts = v.attempts
           /\ [v EXCEPT !.runs = R].idempotency = v.idempotency
BY DEF Sandbox

LEMMA WithStatusIs ==
    ASSUME NEW v \in Sandbox, NEW set \in SUBSET Stored(v), NEW status \in Statuses
    PROVE  LET w == WithStatus(v, set, status) IN
           /\ w \in Sandbox /\ Stored(w) = Stored(v)
           /\ w.attempts = v.attempts /\ w.idempotency = v.idempotency
           /\ \A i \in Runs \ set : w.runs[i] = v.runs[i]
           /\ \A i \in set : /\ w.runs[i].status = status
                             /\ w.runs[i].started = v.runs[i].started
                             /\ w.runs[i].events = v.runs[i].events
                             /\ w.runs[i].session = v.runs[i].session
                             /\ w.runs[i].key = v.runs[i].key
<1> DEFINE R == [i \in Runs |->
        IF i \in set THEN [v.runs[i] EXCEPT !.status = status] ELSE v.runs[i]]
           w == WithStatus(v, set, status)
<1>1. ASSUME NEW i \in set
      PROVE  /\ [v.runs[i] EXCEPT !.status = status] \in StoredRun
             /\ R[i] = [v.runs[i] EXCEPT !.status = status]
             /\ R[i].status = status /\ R[i].started = v.runs[i].started
             /\ R[i].events = v.runs[i].events /\ R[i].session = v.runs[i].session
             /\ R[i].key = v.runs[i].key
    <2>1. i \in Stored(v) /\ i \in Runs /\ v.runs[i] \in StoredRun
        BY StoredTypes DEF Stored
    <2>2. QED
        BY <2>1 DEF StoredRun
<1>2. \A i \in Runs \ set : R[i] = v.runs[i] /\ v.runs[i] \in StoredRun \cup {Absent}
    BY DEF Sandbox
<1>3. R \in [Runs -> StoredRun \cup {Absent}]
    <2>1. ASSUME NEW i \in Runs PROVE R[i] \in StoredRun \cup {Absent}
        BY <1>1, <1>2
    <2> HIDE DEF R
    <2>2. R = [i \in Runs |-> R[i]]
        BY DEF R
    <2>3. QED
        BY <2>1, <2>2
<1>4. w = [v EXCEPT !.runs = R]
    BY DEF WithStatus
<1> HIDE DEF R, w
<1>5. w \in Sandbox /\ w.runs = R /\ w.attempts = v.attempts /\ w.idempotency = v.idempotency
    BY <1>3, <1>4, RunsReplaced
<1>6. Stored(w) = Stored(v)
    <2>1. ASSUME NEW i \in Runs PROVE i \in Stored(w) <=> i \in Stored(v)
        <3>1. CASE i \in set
            <4>1. i \in Stored(v) /\ w.runs[i] \in StoredRun
                BY <1>1, <1>5, <3>1
            <4>2. QED
                BY <4>1, AbsentAssumption DEF Stored
        <3>2. CASE i \notin set
            BY <1>2, <1>5, <3>2 DEF Stored
        <3>3. QED
            BY <3>1, <3>2
    <2>2. QED
        BY <2>1 DEF Stored
<1>7. QED
    BY <1>1, <1>2, <1>5, <1>6 DEF w

LEMMA TrimmedIs ==
    ASSUME NEW v \in Sandbox
    PROVE  LET w == Trimmed(v) IN
           /\ w \in Sandbox /\ w.attempts = v.attempts /\ w.idempotency = v.idempotency
           /\ \A i \in Stored(w) : i \in Stored(v) /\ w.runs[i] = v.runs[i]
           /\ Running(w) = Running(v)
<1> DEFINE R == [i \in Runs |->
        IF Cardinality({j \in Stored(v) : j > i}) >= MaxRuns /\ i \notin Running(v)
        THEN Absent ELSE v.runs[i]]
           w == Trimmed(v)
<1>1. \A i \in Runs : R[i] = v.runs[i] \/ (R[i] = Absent /\ i \notin Running(v))
    OBVIOUS
<1>2. R \in [Runs -> StoredRun \cup {Absent}]
    <2>1. ASSUME NEW i \in Runs PROVE R[i] \in StoredRun \cup {Absent}
        BY <1>1 DEF Sandbox
    <2> HIDE DEF R
    <2>2. R = [i \in Runs |-> R[i]]
        BY DEF R
    <2>3. QED
        BY <2>1, <2>2
<1>3. w = [v EXCEPT !.runs = R]
    BY DEF Trimmed
<1> HIDE DEF R, w
<1>4. w \in Sandbox /\ w.runs = R /\ w.attempts = v.attempts /\ w.idempotency = v.idempotency
    BY <1>2, <1>3, RunsReplaced
<1>5. \A i \in Stored(w) : i \in Stored(v) /\ w.runs[i] = v.runs[i]
    BY <1>1, <1>4 DEF Stored
<1>6. \A i \in Running(v) : i \in Running(w)
    BY <1>1, <1>4 DEF Running, Stored
<1>7. \A i \in Running(w) : i \in Running(v)
    BY <1>5 DEF Running
<1>8. QED
    BY <1>4, <1>5, <1>6, <1>7 DEF w


\* A value in which one stored run changes.
LEMMA RunChanged ==
    ASSUME NEW v \in Sandbox, NEW i \in Stored(v), NEW run \in StoredRun
    PROVE  LET w == [v EXCEPT !.runs[i] = run] IN
           /\ w \in Sandbox /\ Stored(w) = Stored(v)
           /\ w.attempts = v.attempts /\ w.idempotency = v.idempotency
           /\ w.runs[i] = run /\ \A j \in Runs \ {i} : w.runs[j] = v.runs[j]
<1> DEFINE R == [v.runs EXCEPT ![i] = run]
           w == [v EXCEPT !.runs[i] = run]
<1>1. i \in Runs /\ v.runs \in [Runs -> StoredRun \cup {Absent}]
    BY DEF Stored, Sandbox
<1>2. /\ R \in [Runs -> StoredRun \cup {Absent}]
      /\ R[i] = run /\ \A j \in Runs \ {i} : R[j] = v.runs[j]
    BY <1>1
<1>3. w = [v EXCEPT !.runs = R]
    BY DEF Sandbox
<1> DEFINE u == [v EXCEPT !.runs = R]
<1>a. w = u
    BY <1>3
<1> HIDE DEF R, w
<1>b. u \in Sandbox /\ u.runs = R /\ u.attempts = v.attempts /\ u.idempotency = v.idempotency
    BY <1>2, RunsReplaced
<1> HIDE DEF u
<1>4. w \in Sandbox /\ w.runs = R /\ w.attempts = v.attempts /\ w.idempotency = v.idempotency
    BY <1>a, <1>b
<1>5. Stored(w) = Stored(v)
    <2>1. ASSUME NEW j \in Runs PROVE j \in Stored(w) <=> j \in Stored(v)
        <3>1. CASE j = i
            BY <1>2, <1>4, <3>1, AbsentAssumption DEF Stored
        <3>2. CASE j # i
            BY <1>2, <1>4, <3>2 DEF Stored
        <3>3. QED
            BY <3>1, <3>2
    <2>2. QED
        BY <2>1 DEF Stored
<1>6. QED
    BY <1>2, <1>4, <1>5 DEF w

\* What the writes of a stream share.
Continues(v, w) ==
    /\ w \in Sandbox /\ Stored(w) = Stored(v)
    /\ w.attempts = v.attempts /\ w.idempotency = v.idempotency
    /\ \A i \in Stored(v) : /\ w.runs[i].session = v.runs[i].session
                            /\ w.runs[i].key = v.runs[i].key

LEMMA ContinuesValid ==
    ASSUME NEW v, NEW w, Valid(v), Continues(v, w), Running(w) \subseteq Running(v)
    PROVE  Valid(w)
<1>1. KeepsRuns(v, w)
    BY DEF Continues, KeepsRuns
<1>2. QED
    BY <1>1, ValidKept DEF Continues

\* The first write of Connect
LEMMA StartedIs ==
    ASSUME NEW v \in Sandbox, NEW i \in Stored(v)
    PROVE  LET w == [v EXCEPT !.runs[i].started = TRUE] IN
           /\ Continues(v, w) /\ Running(w) = Running(v)
           /\ \A j \in Runs \ {i} : w.runs[j] = v.runs[j]
           /\ w.runs[i].started /\ w.runs[i].events = v.runs[i].events
           /\ w.runs[i].status = v.runs[i].status
<1> DEFINE run == [v.runs[i] EXCEPT !.started = TRUE]
           w == [v EXCEPT !.runs[i].started = TRUE]
<1>1. /\ run \in StoredRun /\ run.started /\ run.events = v.runs[i].events
      /\ run.status = v.runs[i].status /\ run.session = v.runs[i].session
      /\ run.key = v.runs[i].key
    BY StoredTypes DEF StoredRun
<1>2. w = [v EXCEPT !.runs[i] = run]
    OBVIOUS
<1> DEFINE u == [v EXCEPT !.runs[i] = run]
<1>a. w = u
    BY <1>2
<1> HIDE DEF run, w
<1>b. /\ u \in Sandbox /\ Stored(u) = Stored(v)
      /\ u.attempts = v.attempts /\ u.idempotency = v.idempotency
      /\ u.runs[i] = run /\ \A j \in Runs \ {i} : u.runs[j] = v.runs[j]
    BY <1>1, RunChanged
<1> HIDE DEF u
<1>3. /\ w \in Sandbox /\ Stored(w) = Stored(v)
      /\ w.attempts = v.attempts /\ w.idempotency = v.idempotency
      /\ w.runs[i] = run /\ \A j \in Runs \ {i} : w.runs[j] = v.runs[j]
    BY <1>a, <1>b
<1>4. Running(w) = Running(v)
    BY <1>1, <1>3 DEF Running, Stored
<1>5. QED
    BY <1>1, <1>3, <1>4 DEF Continues, Stored, w

\* The write of one event
LEMMA WithEventIs ==
    ASSUME sandbox \in Sandbox, NEW i \in Stored(sandbox), NEW e \in 1..NumEvents
    PROVE  LET w == WithEvent(i, e) IN
           /\ Continues(sandbox, w) /\ Running(w) = Running(sandbox)
           /\ \A j \in Runs \ {i} : w.runs[j] = sandbox.runs[j]
           /\ w.runs[i].started = sandbox.runs[i].started
           /\ w.runs[i].events = Append(sandbox.runs[i].events, e)
           /\ w.runs[i].status = sandbox.runs[i].status
<1> DEFINE v == sandbox
           run == [v.runs[i] EXCEPT !.events = Append(v.runs[i].events, e)]
           w == WithEvent(i, e)
<1>1. /\ run \in StoredRun /\ run.started = v.runs[i].started
      /\ run.events = Append(v.runs[i].events, e)
      /\ run.status = v.runs[i].status /\ run.session = v.runs[i].session
      /\ run.key = v.runs[i].key
    <2>1. v.runs[i] \in StoredRun /\ Append(v.runs[i].events, e) \in Seq(1..NumEvents)
        BY StoredTypes
    <2>2. QED
        BY <2>1 DEF StoredRun
<1>2. w = [v EXCEPT !.runs[i] = run]
    BY DEF WithEvent
<1> DEFINE u == [v EXCEPT !.runs[i] = run]
<1>a. w = u
    BY <1>2
<1> HIDE DEF run, w
<1>b. /\ u \in Sandbox /\ Stored(u) = Stored(v)
      /\ u.attempts = v.attempts /\ u.idempotency = v.idempotency
      /\ u.runs[i] = run /\ \A j \in Runs \ {i} : u.runs[j] = v.runs[j]
    BY <1>1, RunChanged
<1> HIDE DEF u, v
<1>3. /\ w \in Sandbox /\ Stored(w) = Stored(v)
      /\ w.attempts = v.attempts /\ w.idempotency = v.idempotency
      /\ w.runs[i] = run /\ \A j \in Runs \ {i} : w.runs[j] = v.runs[j]
    BY <1>a, <1>b
<1>4. Running(w) = Running(v)
    BY <1>1, <1>3 DEF Running, Stored
<1>5. QED
    BY <1>1, <1>3, <1>4 DEF Continues, Stored, v, w

\* The write that ends a run, or that fails it
LEMMA EndedIs ==
    ASSUME NEW v \in Sandbox, NEW set \in SUBSET Stored(v), NEW status \in {"COMPLETED", "FAILED"}
    PROVE  LET w == WithStatus(v, set, status) IN
           /\ Continues(v, w) /\ Running(w) = Running(v) \ set
           /\ \A j \in Runs \ set : w.runs[j] = v.runs[j]
           /\ \A j \in set : /\ w.runs[j].status = status
                             /\ w.runs[j].started = v.runs[j].started
                             /\ w.runs[j].events = v.runs[j].events
<1> DEFINE w == WithStatus(v, set, status)
<1>1. /\ w \in Sandbox /\ Stored(w) = Stored(v)
      /\ w.attempts = v.attempts /\ w.idempotency = v.idempotency
      /\ \A i \in Runs \ set : w.runs[i] = v.runs[i]
      /\ \A i \in set : /\ w.runs[i].status = status
                        /\ w.runs[i].started = v.runs[i].started
                        /\ w.runs[i].events = v.runs[i].events
                        /\ w.runs[i].session = v.runs[i].session
                        /\ w.runs[i].key = v.runs[i].key
    BY WithStatusIs DEF Statuses
<1> HIDE DEF w
<1>2. Running(w) = Running(v) \ set
    BY <1>1 DEF Running, Stored
<1>3. QED
    BY <1>1, <1>2 DEF Continues, Stored, w


-----------------------------------------------------------------------------
(* The invariant                                                           *)

\* A stored run has its events in order; it completes only with all of them.
RunFits(run) ==
    /\ run.events = CountFrom(0, Len(run.events)) /\ Len(run.events) <= NumEvents
    /\ ~run.started => Len(run.events) = 0
    /\ run.status = "COMPLETED" => Len(run.events) = NumEvents

RunsFit == \A i \in Stored(sandbox) : i <= created /\ RunFits(sandbox.runs[i])

\* The executor of a stored run is as far as the run is.
StreamFits(d) ==
    /\ stream[d].role # "closed" => stream[d].run \in 1..created
    /\ stream[d].role = "executor" =>
          /\ stream[d].steps <= NumEvents
          /\ stream[d].run \in Stored(sandbox) =>
                /\ sandbox.runs[stream[d].run].started
                /\ Len(sandbox.runs[stream[d].run].events) = stream[d].steps
    /\ stream[d].read # Absent => stream[d].role = "executor" /\ stream[d].steps = NumEvents

\* The number of the last event that the client of d has seen
Seen(d) == client[d].after + Len(client[d].events)

\* A client has the events behind its cursor; that of an executor has all there are.
ClientFits(d) ==
    /\ client[d].events = CountFrom(client[d].after, Len(client[d].events))
    /\ Seen(d) <= NumEvents
    /\ client[d].end = "COMPLETED" => Seen(d) = NumEvents
    /\ stream[d].role # "closed" /\ stream[d].open /\ stream[d].run \in Stored(sandbox) =>
          /\ Seen(d) <= Len(sandbox.runs[stream[d].run].events)
          /\ stream[d].role = "executor" =>
                Seen(d) = Len(sandbox.runs[stream[d].run].events)

SoleExecutor ==
    \A c, d \in Streams :
        /\ stream[c].role = "executor" /\ stream[d].role = "executor"
        /\ stream[c].run = stream[d].run
        => c = d

\* The attempts that are kept inside the window are the runs that were created in it.
AttemptsFit ==
    /\ \A i \in Runs : i > created => author[i] = Absent
    /\ \A s \in Sessions : /\ {i \in Runs : i > old /\ author[i] = s} = Attempts(s)
                           /\ Cardinality(Attempts(s)) <= RateLimit

Fits ==
    /\ RunsFit /\ SoleExecutor /\ AttemptsFit
    /\ \A d \in Streams : StreamFits(d) /\ ClientFits(d)

\* What a stream read before its digest was once the stored value.
ReadsValid == \A d \in Streams : stream[d].read # Absent => Valid(stream[d].read)

SandboxInvariant ==
    /\ TypeOK /\ Valid(sandbox) /\ ReadsValid
    /\ ~overwritten => Fits

-----------------------------------------------------------------------------
(* What the actions share                                                  *)

LEMMA StreamTypes ==
    ASSUME TypeOK, NEW d \in Streams
    PROVE  /\ stream[d] \in Stream /\ client[d] \in Client
           /\ stream[d].role \in {"closed", "executor", "reader"}
           /\ stream[d].run \in Runs \cup {Absent} /\ stream[d].steps \in Nat
           /\ stream[d].open \in BOOLEAN /\ stream[d].read \in Sandbox \cup {Absent}
           /\ client[d].after \in 0..NumEvents /\ client[d].events \in Seq(1..NumEvents)
           /\ client[d].end \in {"none", "COMPLETED", "FAILED"}
           /\ Len(client[d].events) \in Nat /\ Seen(d) \in Nat /\ NumEvents \in Nat
<1>1. stream[d] \in Stream /\ client[d] \in Client /\ NumEvents \in Nat
    BY SandboxAssumption DEF TypeOK
<1>2. client[d].after \in 0..NumEvents /\ client[d].events \in Seq(1..NumEvents)
    BY <1>1 DEF Client
<1>3. Len(client[d].events) \in Nat
    BY <1>2
<1>4. Seen(d) \in Nat
    BY <1>1, <1>2, <1>3 DEF Seen
<1>5. QED
    BY <1>1, <1>2, <1>3, <1>4 DEF Stream, Client

\* The run of stream d is there after the step only if it was before, no shorter.
RunKept(d) ==
    LET i == stream[d].run IN
    stream[d].role # "closed" /\ i \in Stored(sandbox') =>
        /\ i \in Stored(sandbox)
        /\ sandbox.runs[i].started => sandbox'.runs[i].started
        /\ Len(sandbox.runs[i].events) \in Nat /\ Len(sandbox'.runs[i].events) \in Nat
        /\ Len(sandbox.runs[i].events) <= Len(sandbox'.runs[i].events)
        /\ stream[d].role = "executor" =>
              Len(sandbox.runs[i].events) = Len(sandbox'.runs[i].events)

\* A stream that a step leaves alone
LEMMA StreamStays ==
    ASSUME TypeOK, NEW d \in Streams, StreamFits(d), ClientFits(d), RunKept(d),
           stream'[d] = stream[d], client'[d] = client[d],
           created \in Nat, created' \in Nat, created <= created'
    PROVE  StreamFits(d)' /\ ClientFits(d)'
<1>1. /\ stream[d].role \in {"closed", "executor", "reader"}
      /\ Seen(d) \in Nat /\ Seen(d)' = Seen(d)
    BY StreamTypes DEF Seen
<1>2. StreamFits(d)'
    BY DEF StreamFits, RunKept
<1>3. /\ (client[d].events = CountFrom(client[d].after, Len(client[d].events)))'
      /\ (Seen(d) <= NumEvents)' /\ (client[d].end = "COMPLETED" => Seen(d) = NumEvents)'
    BY <1>1 DEF ClientFits
<1>4. ASSUME (stream[d].role # "closed" /\ stream[d].open /\ stream[d].run \in Stored(sandbox))'
      PROVE  (/\ Seen(d) <= Len(sandbox.runs[stream[d].run].events)
              /\ stream[d].role = "executor" =>
                    Seen(d) = Len(sandbox.runs[stream[d].run].events))'
    <2> DEFINE i == stream[d].run
               m == Len(sandbox.runs[i].events)
               n == Len(sandbox'.runs[i].events)
    <2>1. stream[d].role # "closed" /\ stream[d].open /\ i \in Stored(sandbox')
        BY <1>4
    <2>2. /\ i \in Stored(sandbox) /\ m \in Nat /\ n \in Nat /\ m <= n
          /\ stream[d].role = "executor" => m = n
        BY <2>1 DEF RunKept
    <2>3. Seen(d) <= m /\ (stream[d].role = "executor" => Seen(d) = m)
        BY <2>1, <2>2 DEF ClientFits
    <2> HIDE DEF i, m, n
    <2>4. Seen(d)' <= n /\ (stream[d].role = "executor" => Seen(d)' = n)
        BY <1>1, <2>2, <2>3
    <2>5. QED
        BY <2>4 DEF i, n
<1>5. ClientFits(d)'
    BY <1>3, <1>4 DEF ClientFits
<1>6. QED
    BY <1>2, <1>5

\* What a stream sends, to a client that still listens and to one that left
LEMMA SentIs ==
    ASSUME TypeOK, NEW c \in Streams, ClientFits(c), NEW n \in 0..NumEvents,
           NEW events, events = CountFrom(0, n), NEW end \in {"none", "COMPLETED", "FAILED"}
    PROVE  LET w == Sent(c, events, end) IN
           /\ w \in [Streams -> Client] /\ \A d \in Streams \ {c} : w[d] = client[d]
           /\ ~stream[c].open => w = client
           /\ stream[c].open =>
                 /\ w[c].after = client[c].after /\ w[c].end = end
                 /\ w[c].events = CountFrom(w[c].after, Len(w[c].events))
                 /\ w[c].after + Len(w[c].events) = IF n > Seen(c) THEN n ELSE Seen(c)
<1> DEFINE w == Sent(c, events, end)
           a == client[c].after
           p == Len(client[c].events)
           size == IF n > a + p THEN n - a ELSE p
<1>1. /\ a \in Nat /\ p \in Nat /\ n \in Nat /\ NumEvents \in Nat /\ Seen(c) = a + p
      /\ a + p <= NumEvents /\ client[c].events = CountFrom(a, p)
      /\ client \in [Streams -> Client] /\ client[c] \in Client
      /\ a \in 0..NumEvents
    BY StreamTypes DEF ClientFits, TypeOK, Seen
<1>2. CASE ~stream[c].open
    BY <1>1, <1>2 DEF Sent
<1>3. CASE stream[c].open
    <2>1. SendAvailable(c, events) = CountFrom(a, size)
        BY <1>1, SendsTheRest
    <2>2. size \in Nat /\ a + size <= NumEvents /\ a + size = IF n > Seen(c) THEN n ELSE Seen(c)
        BY <1>1
    <2>3. CountFrom(a, size) \in Seq(1..NumEvents) /\ Len(CountFrom(a, size)) = size
        BY <1>1, <2>2, CountFromSeq
    <2> DEFINE x == [client[c] EXCEPT !.events = CountFrom(a, size), !.end = end]
    <2>4. w = [client EXCEPT ![c] = x]
        BY <1>3, <2>1 DEF Sent
    <2> HIDE DEF size
    <2>5. x \in Client /\ x.after = a /\ x.events = CountFrom(a, size) /\ x.end = end
        BY <1>1, <2>3 DEF Client
    <2> HIDE DEF w, x
    <2>6. w \in [Streams -> Client] /\ w[c] = x /\ \A d \in Streams \ {c} : w[d] = client[d]
        BY <1>1, <2>4, <2>5
    <2>7. QED
        BY <1>1, <1>3, <2>2, <2>3, <2>5, <2>6 DEF w
<1>4. QED
    BY <1>2, <1>3, StreamTypes

\* Events are stored in the order of their numbers, a finite number of them.
LEMMA StoredEvents ==
    ASSUME TypeOK, NEW i \in Stored(sandbox)
    PROVE  /\ i \in Runs /\ Len(sandbox.runs[i].events) \in Nat
           /\ sandbox.runs[i].events \in Seq(1..NumEvents)
           /\ sandbox.runs[i].status \in Statuses
BY StoredTypes DEF TypeOK


LEMMA AttemptsStay ==
    ASSUME AttemptsFit, sandbox'.attempts = sandbox.attempts,
           created' = created, old' = old, author' = author
    PROVE  AttemptsFit'
BY DEF AttemptsFit, Attempts

LEMMA ReadsStay ==
    ASSUME ReadsValid, \A d \in Streams : stream'[d].read \in {Absent, stream[d].read}
    PROVE  ReadsValid'
BY DEF ReadsValid

LEMMA SoleStays ==
    ASSUME SoleExecutor,
           \A d \in Streams : stream'[d].role = "executor" =>
               stream[d].role = "executor" /\ stream'[d].run = stream[d].run
    PROVE  SoleExecutor'
BY DEF SoleExecutor

\* No run that was there before the step comes back.
NoReturn ==
    \A i \in 1..created : i \notin Stored(sandbox) /\ ~overwritten' => i \notin Stored(sandbox')

\* Streams that a step leaves alone, when runs keep their events
LEMMA OthersStay ==
    ASSUME TypeOK, NEW D \in SUBSET Streams, \A d \in D : StreamFits(d) /\ ClientFits(d),
           \A d \in D : stream'[d] = stream[d] /\ client'[d] = client[d],
           \A i \in Stored(sandbox') \cap 1..created :
               /\ i \in Stored(sandbox)
               /\ sandbox.runs[i].started => sandbox'.runs[i].started
               /\ sandbox'.runs[i].events = sandbox.runs[i].events,
           created \in Nat, created' \in Nat, created <= created'
    PROVE  \A d \in D : StreamFits(d)' /\ ClientFits(d)'
<1>1. ASSUME NEW d \in D PROVE RunKept(d)
    <2>1. ASSUME stream[d].role # "closed", stream[d].run \in Stored(sandbox')
          PROVE  /\ stream[d].run \in Stored(sandbox)
                 /\ sandbox.runs[stream[d].run].started =>
                       sandbox'.runs[stream[d].run].started
                 /\ sandbox'.runs[stream[d].run].events = sandbox.runs[stream[d].run].events
        BY <2>1 DEF StreamFits
    <2>2. ASSUME NEW i \in Stored(sandbox)
          PROVE  /\ Len(sandbox.runs[i].events) \in Nat
                 /\ Len(sandbox.runs[i].events) <= Len(sandbox.runs[i].events)
        BY <2>2, StoredEvents
    <2>3. QED
        BY <2>1, <2>2 DEF RunKept
<1>2. QED
    BY <1>1, StreamStays

\* The same for the streams other than c, and for all
LEMMA OtherStreamsStay ==
    ASSUME TypeOK, Fits, NEW c \in Streams,
           \A d \in Streams \ {c} : stream'[d] = stream[d] /\ client'[d] = client[d],
           \A i \in Stored(sandbox') \cap 1..created :
               /\ i \in Stored(sandbox)
               /\ sandbox.runs[i].started => sandbox'.runs[i].started
               /\ sandbox'.runs[i].events = sandbox.runs[i].events,
           created' = created
    PROVE  \A d \in Streams \ {c} : StreamFits(d)' /\ ClientFits(d)'
<1> DEFINE D == Streams \ {c}
<1>1. D \in SUBSET Streams /\ created \in Nat /\ created <= created
    BY DEF TypeOK
<1>2. /\ \A d \in D : StreamFits(d) /\ ClientFits(d)
      /\ \A d \in D : stream'[d] = stream[d] /\ client'[d] = client[d]
    BY DEF Fits
<1> HIDE DEF D
<1>3. \A d \in D : StreamFits(d)' /\ ClientFits(d)'
    BY <1>1, <1>2, OthersStay
<1>4. QED
    BY <1>3 DEF D

LEMMA AllStreamsStay ==
    ASSUME TypeOK, Fits, stream' = stream, client' = client,
           \A i \in Stored(sandbox') \cap 1..created :
               /\ i \in Stored(sandbox)
               /\ sandbox.runs[i].started => sandbox'.runs[i].started
               /\ sandbox'.runs[i].events = sandbox.runs[i].events,
           created' \in Nat, created <= created'
    PROVE  \A d \in Streams : StreamFits(d)' /\ ClientFits(d)'
<1>1. Streams \in SUBSET Streams /\ created \in Nat
    BY DEF TypeOK
<1>2. /\ \A d \in Streams : StreamFits(d) /\ ClientFits(d)
      /\ \A d \in Streams : stream'[d] = stream[d] /\ client'[d] = client[d]
    BY DEF Fits
<1>3. QED
    BY <1>1, <1>2, OthersStay

\* A connection that ends, whatever its client had seen
LEMMA ClosedFits ==
    ASSUME NEW c \in Streams, stream'[c] = Closed, Absent \notin Runs,
           client'[c].events = CountFrom(client'[c].after, Len(client'[c].events)),
           Seen(c)' <= NumEvents, client'[c].end = "COMPLETED" => Seen(c)' = NumEvents
    PROVE  StreamFits(c)' /\ ClientFits(c)'
<1>1. Closed.role = "closed" /\ Closed.read = Absent /\ Closed.open = FALSE
    BY DEF Closed
<1>2. StreamFits(c)'
    BY <1>1 DEF StreamFits
<1>3. ClientFits(c)'
    BY <1>1 DEF ClientFits
<1>4. QED
    BY <1>2, <1>3

\* A client that is told nothing more
LEMMA ForgottenFits ==
    ASSUME NEW c \in Streams, client'[c] = NothingSent
    PROVE  /\ client'[c].events = CountFrom(client'[c].after, Len(client'[c].events))
           /\ Seen(c)' <= NumEvents /\ (client'[c].end = "COMPLETED" => Seen(c)' = NumEvents)
           /\ Seen(c)' = 0
<1>1. NothingSent.after = 0 /\ NothingSent.events = <<>> /\ NothingSent.end = "none"
    BY DEF NothingSent
<1>2. CountFrom(0, 0) = <<>> /\ Len(CountFrom(0, 0)) = 0 /\ NumEvents \in Nat
    BY CountFromSeq, SandboxAssumption
<1>3. /\ client'[c].after = 0 /\ client'[c].events = CountFrom(0, 0)
      /\ Len(client'[c].events) = 0 /\ client'[c].end = "none"
    BY <1>1, <1>2
<1>4. Seen(c)' = 0
    BY <1>3 DEF Seen
<1>5. QED
    BY <1>2, <1>3, <1>4

\* The types of a stream that ends
LEMMA ClosedTypes ==
    ASSUME TypeOK, NEW c \in Streams, NEW closing, closing = [stream EXCEPT ![c] = Closed]
    PROVE  /\ closing \in [Streams -> Stream] /\ closing[c] = Closed
           /\ \A d \in Streams \ {c} : closing[d] = stream[d]
<1>1. Closed \in Stream
    BY DEF Closed, Stream
<1>2. QED
    BY <1>1 DEF TypeOK

LEMMA ForgottenTypes ==
    ASSUME TypeOK, NEW c \in Streams, NEW forgot, forgot = [client EXCEPT ![c] = NothingSent]
    PROVE  /\ forgot \in [Streams -> Client] /\ forgot[c] = NothingSent
           /\ \A d \in Streams \ {c} : forgot[d] = client[d]
<1>1. <<>> \in Seq(1..NumEvents) /\ 0 \in 0..NumEvents
    BY SandboxAssumption
<1>2. NothingSent \in Client
    BY <1>1 DEF NothingSent, Client
<1>3. QED
    BY <1>2 DEF TypeOK

-----------------------------------------------------------------------------
(* Each action preserves the invariant                                     *)

LEMMA ConnectStep ==
    ASSUME SandboxInvariant, ~overwritten, NEW c \in Streams, NEW i \in Runs, Connect(c, i)
    PROVE  SandboxInvariant' /\ NoReturn
<1> DEFINE run == sandbox.runs[i]
           role == IF ShouldExecute(run) THEN "executor" ELSE "reader"
<1>1. PICK after \in 0..Len(run.events) :
        /\ stream[c].role = "closed" /\ i \in Stored(sandbox)
        /\ sandbox' = [sandbox EXCEPT !.runs[i].started = TRUE]
        /\ stream' = [stream EXCEPT ![c] = [Closed EXCEPT !.role = role, !.run = i, !.open = TRUE]]
        /\ client' = [client EXCEPT ![c] = [NothingSent EXCEPT !.after = after]]
        /\ UNCHANGED <<created, stale, old, author, overwritten, faults>>
    BY DEF Connect
<1>2. TypeOK /\ Valid(sandbox) /\ ReadsValid /\ Fits
    BY DEF SandboxInvariant
<1>3. /\ Continues(sandbox, sandbox') /\ Running(sandbox') = Running(sandbox)
      /\ \A j \in Runs \ {i} : sandbox'.runs[j] = sandbox.runs[j]
      /\ sandbox'.runs[i].started /\ sandbox'.runs[i].events = run.events
      /\ sandbox'.runs[i].status = run.status
    <2> DEFINE w == [sandbox EXCEPT !.runs[i].started = TRUE]
    <2>1. /\ Continues(sandbox, w) /\ Running(w) = Running(sandbox)
          /\ \A j \in Runs \ {i} : w.runs[j] = sandbox.runs[j]
          /\ w.runs[i].started /\ w.runs[i].events = run.events
          /\ w.runs[i].status = run.status
        BY <1>1, <1>2, StartedIs DEF TypeOK
    <2> HIDE DEF w
    <2>2. sandbox' = w
        BY <1>1 DEF w
    <2>3. QED
        BY <2>1, <2>2
<1>4. /\ sandbox' \in Sandbox /\ Stored(sandbox') = Stored(sandbox)
      /\ sandbox'.attempts = sandbox.attempts
    BY <1>3 DEF Continues
<1>5. /\ i <= created /\ RunFits(run) /\ Len(run.events) \in Nat /\ NumEvents \in Nat
      /\ created \in Nat /\ i \in 1..created
    <2>1. i <= created /\ RunFits(run)
        BY <1>1, <1>2 DEF Fits, RunsFit
    <2>2. Len(run.events) \in Nat
        BY <1>1, <1>2, StoredEvents
    <2>3. NumEvents \in Nat /\ MaxCreated \in Nat /\ created \in 0..MaxCreated
        BY <1>2, SandboxAssumption DEF TypeOK
    <2>4. QED
        BY <2>1, <2>2, <2>3 DEF Runs
<1>6. /\ stream' \in [Streams -> Stream] /\ stream'[c].role = role /\ stream'[c].run = i
      /\ stream'[c].steps = 0 /\ stream'[c].open /\ stream'[c].read = Absent
      /\ \A d \in Streams \ {c} : stream'[d] = stream[d]
    BY <1>1, <1>2 DEF TypeOK, Stream, Closed
<1>7. /\ client' \in [Streams -> Client] /\ client'[c].after = after
      /\ client'[c].events = <<>> /\ client'[c].end = "none"
      /\ \A d \in Streams \ {c} : client'[d] = client[d]
    <2>1. after \in 0..NumEvents
        BY <1>5 DEF RunFits
    <2> DEFINE x == [NothingSent EXCEPT !.after = after]
    <2>e. <<>> \in Seq(1..NumEvents)
        OBVIOUS
    <2>f. x = [after |-> after, events |-> <<>>, end |-> "none"]
        BY DEF NothingSent
    <2>2. x \in Client /\ x.after = after /\ x.events = <<>> /\ x.end = "none"
        BY <2>1, <2>e, <2>f DEF Client
    <2> HIDE DEF x
    <2>3. client' = [client EXCEPT ![c] = x] /\ client \in [Streams -> Client]
        BY <1>1, <1>2 DEF x, TypeOK
    <2>4. QED
        BY <2>2, <2>3
<1>8. TypeOK'
    BY <1>1, <1>2, <1>4, <1>6, <1>7 DEF TypeOK
<1>9. Valid(sandbox')
    BY <1>2, <1>3, ContinuesValid
<1>10. ReadsValid'
    BY <1>2, <1>6, ReadsStay
<1>11. RunsFit'
    <2>1. ASSUME NEW j \in Stored(sandbox') PROVE j <= created' /\ RunFits(sandbox'.runs[j])
        <3>1. j \in Runs /\ j \in Stored(sandbox) /\ j <= created' /\ RunFits(sandbox.runs[j])
            BY <1>1, <1>2, <1>4 DEF Fits, RunsFit, Stored
        <3>2. CASE j = i
            BY <1>3, <3>1, <3>2 DEF RunFits
        <3>3. CASE j # i
            BY <1>3, <3>1, <3>3
        <3>4. QED
            BY <3>1, <3>2, <3>3
    <2>2. QED
        BY <2>1 DEF RunsFit
<1>12. AttemptsFit'
    BY <1>1, <1>2, <1>4, AttemptsStay DEF Fits
\* A run that somebody executes was started.
<1>13. ASSUME NEW d \in Streams \ {c}, role = "executor", stream[d].role = "executor"
       PROVE  stream[d].run # i
    BY <1>1, <1>2, <1>13 DEF Fits, StreamFits, ShouldExecute
<1>14. SoleExecutor'
    BY <1>2, <1>6, <1>13 DEF Fits, SoleExecutor
<1>15. ASSUME NEW d \in Streams \ {c} PROVE StreamFits(d)' /\ ClientFits(d)'
    <2>1. RunKept(d)
        <3>1. CASE stream[d].run = i
            BY <1>1, <1>3, <1>5, <3>1 DEF RunKept
        <3>2. CASE stream[d].run # i
            BY <1>2, <1>3, <1>4, <3>2, StoredEvents DEF RunKept, Stored
        <3>3. QED
            BY <3>1, <3>2
    <2>2. QED
        BY <1>1, <1>2, <1>5, <1>6, <1>7, <2>1, StreamStays DEF Fits
<1>16. StreamFits(c)'
    BY <1>1, <1>3, <1>5, <1>6 DEF StreamFits, RunFits, ShouldExecute
<1>17. ClientFits(c)'
    <2>1. /\ client'[c].after = after /\ after \in Nat /\ client'[c].events = CountFrom(after, 0)
          /\ Len(client'[c].events) = 0
        <3>1. after \in Nat /\ 0 \in Nat
            BY <1>5
        <3>2. CountFrom(after, 0) = <<>> /\ Len(CountFrom(after, 0)) = 0
            BY <3>1, CountFromSeq
        <3>3. QED
            BY <1>7, <3>1, <3>2
    <2>2. Seen(c)' = after /\ after <= Len(run.events) /\ after <= NumEvents
        BY <1>5, <2>1 DEF Seen, RunFits
    <2>3. role = "executor" => Len(run.events) = 0
        BY <1>5 DEF RunFits, ShouldExecute
    <2>4. QED
        BY <1>3, <1>5, <1>6, <1>7, <2>1, <2>2, <2>3 DEF ClientFits
<1>18. QED
    BY <1>4, <1>8, <1>9, <1>10, <1>11, <1>12, <1>14, <1>15, <1>16, <1>17
       DEF SandboxInvariant, Fits, NoReturn


LEMMA EmitStep ==
    ASSUME SandboxInvariant, ~overwritten, NEW c \in Streams, Emit(c)
    PROVE  SandboxInvariant' /\ NoReturn
<1> DEFINE i == stream[c].run
           e == stream[c].steps + 1
<1>1. /\ stream[c].role = "executor" /\ stream[c].steps # NumEvents
      /\ sandbox' = WithEvent(i, e)
      /\ stream' = [stream EXCEPT ![c].steps = IF i \in Stored(sandbox) THEN e ELSE NumEvents]
      /\ client' = IF i \in Stored(sandbox) THEN Sent(c, sandbox'.runs[i].events, "none")
                   ELSE client
      /\ UNCHANGED <<created, stale, old, author, overwritten, faults>>
    BY DEF Emit, GeneratedAll
<1>2. TypeOK /\ Valid(sandbox) /\ ReadsValid /\ Fits
    BY DEF SandboxInvariant
<1>3. /\ stream[c].steps \in 0..NumEvents /\ NumEvents \in Nat /\ e \in 1..NumEvents
      /\ stream[c].read = Absent /\ stream[c] \in Stream
    <2>1. stream[c].steps \in Nat /\ stream[c].steps <= NumEvents /\ NumEvents \in Nat
        BY <1>1, <1>2, StreamTypes DEF Fits, StreamFits
    <2>2. stream[c].read = Absent
        BY <1>1, <1>2 DEF Fits, StreamFits
    <2>3. QED
        BY <1>1, <1>2, <2>1, <2>2, StreamTypes
<1>4. i \in 1..created /\ created \in Nat /\ created \in 0..MaxCreated
    BY <1>1, <1>2, SandboxAssumption DEF Fits, StreamFits, TypeOK
<1> DEFINE n == IF i \in Stored(sandbox) THEN e ELSE NumEvents
           x == [stream[c] EXCEPT !.steps = n]
<1>5. /\ x \in Stream /\ x.steps = n /\ x.role = "executor" /\ x.run = i
      /\ x.open = stream[c].open /\ x.read = Absent
    BY <1>1, <1>3 DEF Stream
<1>6. /\ stream' \in [Streams -> Stream] /\ stream'[c] = x
      /\ \A d \in Streams \ {c} : stream'[d] = stream[d]
    <2>1. stream' = [stream EXCEPT ![c] = x] /\ stream \in [Streams -> Stream]
        BY <1>1, <1>2 DEF TypeOK
    <2> HIDE DEF x
    <2>2. QED
        BY <1>5, <2>1
<1> HIDE DEF x
<1>a. i = stream[c].run /\ e = stream[c].steps + 1
    OBVIOUS
<1>7. ReadsValid'
    BY <1>2, <1>3, <1>5, <1>6, ReadsStay
<1>8. SoleExecutor'
    BY <1>1, <1>2, <1>5, <1>6, SoleStays DEF Fits
\* The run was removed: the loop ends.
<1>9. CASE i \notin Stored(sandbox)
    <2>1. sandbox' = sandbox /\ client' = client
        BY <1>1, <1>9 DEF WithEvent
    <2>2. TypeOK' /\ Valid(sandbox')
        BY <1>1, <1>2, <1>6, <2>1 DEF TypeOK
    <2>3. RunsFit' /\ AttemptsFit'
        BY <1>1, <1>2, <2>1 DEF Fits, RunsFit, AttemptsFit, Attempts
    <2>4. \A d \in Streams \ {c} : StreamFits(d)' /\ ClientFits(d)'
        <3>1. \A d \in Streams \ {c} : stream'[d] = stream[d] /\ client'[d] = client[d]
            BY <1>6, <2>1
        <3>2. \A j \in Stored(sandbox') \cap 1..created :
                 /\ j \in Stored(sandbox)
                 /\ sandbox.runs[j].started => sandbox'.runs[j].started
                 /\ sandbox'.runs[j].events = sandbox.runs[j].events
            BY <2>1
        <3>3. QED
            BY <1>1, <1>2, <3>1, <3>2, OtherStreamsStay
    <2>5. StreamFits(c)'
        BY <1>1, <1>3, <1>4, <1>5, <1>6, <1>9, <2>1 DEF StreamFits
    <2>6. ClientFits(c)'
        <3>1. ClientFits(c) /\ Seen(c)' = Seen(c)
            BY <1>2, <2>1 DEF Fits, Seen
        <3>2. QED
            BY <1>5, <1>6, <1>9, <2>1, <3>1 DEF ClientFits
    <2>7. QED
        BY <1>7, <1>8, <2>1, <2>2, <2>3, <2>4, <2>5, <2>6
           DEF SandboxInvariant, Fits, NoReturn
<1>10. CASE i \in Stored(sandbox)
    <2>1. /\ Continues(sandbox, sandbox') /\ Running(sandbox') = Running(sandbox)
          /\ \A j \in Runs \ {i} : sandbox'.runs[j] = sandbox.runs[j]
          /\ sandbox'.runs[i].started = sandbox.runs[i].started
          /\ sandbox'.runs[i].events = Append(sandbox.runs[i].events, e)
          /\ sandbox'.runs[i].status = sandbox.runs[i].status
        <3> DEFINE w == WithEvent(i, e)
        <3>1. /\ Continues(sandbox, w) /\ Running(w) = Running(sandbox)
              /\ \A j \in Runs \ {i} : w.runs[j] = sandbox.runs[j]
              /\ w.runs[i].started = sandbox.runs[i].started
              /\ w.runs[i].events = Append(sandbox.runs[i].events, e)
              /\ w.runs[i].status = sandbox.runs[i].status
            BY <1>2, <1>3, <1>10, WithEventIs DEF TypeOK
        <3> HIDE DEF w, e
        <3>2. sandbox' = w
            BY <1>1 DEF w
        <3>3. QED
            BY <3>1, <3>2
    <2>2. /\ sandbox' \in Sandbox /\ Stored(sandbox') = Stored(sandbox)
          /\ sandbox'.attempts = sandbox.attempts
        BY <2>1 DEF Continues
    <2>3. /\ RunFits(sandbox.runs[i]) /\ sandbox.runs[i].started
          /\ Len(sandbox.runs[i].events) = stream[c].steps
          /\ sandbox.runs[i].events = CountFrom(0, stream[c].steps)
        BY <1>1, <1>2, <1>10 DEF Fits, StreamFits, RunsFit, RunFits
    <2>a. sandbox'.runs[i].started
        BY <2>1, <2>3
    <2>4. sandbox'.runs[i].events = CountFrom(0, e) /\ Len(sandbox'.runs[i].events) = e
        <3>1. ASSUME NEW m \in Nat PROVE Append(CountFrom(0, m), m + 1) = CountFrom(0, m + 1)
            <4>1. Append(CountFrom(0, m), 0 + m + 1) = CountFrom(0, m + 1)
                BY CountFromAppend
            <4>2. QED
                BY <4>1
        <3>2. stream[c].steps \in Nat /\ e \in Nat
            BY <1>3
        <3>3. Len(CountFrom(0, e)) = e
            BY <3>2, CountFromSeq
        <3>4. QED
            BY <2>1, <2>3, <3>1, <3>2, <3>3
    <2> HIDE DEF i, e
    <2>5. /\ client' \in [Streams -> Client] /\ \A d \in Streams \ {c} : client'[d] = client[d]
          /\ ~stream[c].open => client' = client
          /\ stream[c].open =>
                /\ client'[c].after = client[c].after /\ client'[c].end = "none"
                /\ client'[c].events = CountFrom(client'[c].after, Len(client'[c].events))
                /\ Seen(c)' = IF e > Seen(c) THEN e ELSE Seen(c)
        <3> DEFINE events == sandbox'.runs[i].events
                   w == Sent(c, events, "none")
        <3>1. ClientFits(c) /\ e \in 0..NumEvents /\ events = CountFrom(0, e)
            BY <1>2, <1>3, <2>4 DEF Fits
        <3> HIDE DEF events
        <3>2. /\ w \in [Streams -> Client] /\ \A d \in Streams \ {c} : w[d] = client[d]
              /\ ~stream[c].open => w = client
              /\ stream[c].open =>
                    /\ w[c].after = client[c].after /\ w[c].end = "none"
                    /\ w[c].events = CountFrom(w[c].after, Len(w[c].events))
                    /\ w[c].after + Len(w[c].events) = IF e > Seen(c) THEN e ELSE Seen(c)
            BY <1>2, <3>1, SentIs
        <3>3. client' = w
            BY <1>1, <1>10 DEF events
        <3> HIDE DEF w
        <3>4. QED
            BY <3>2, <3>3 DEF Seen
    <2>6. TypeOK'
        BY <1>1, <1>2, <1>6, <2>2, <2>5 DEF TypeOK
    <2>7. Valid(sandbox')
        BY <1>2, <2>1, ContinuesValid
    <2>8. RunsFit'
        <3>1. ASSUME NEW j \in Stored(sandbox') PROVE j <= created' /\ RunFits(sandbox'.runs[j])
            <4>1. j \in Runs /\ j \in Stored(sandbox) /\ j <= created' /\ RunFits(sandbox.runs[j])
                BY <1>1, <1>2, <2>2 DEF Fits, RunsFit, Stored
            <4>2. CASE j = i
                <5>1. sandbox.runs[i].status # "COMPLETED"
                    BY <1>1, <2>3 DEF RunFits
                <5>2. e <= NumEvents /\ sandbox'.runs[i].status # "COMPLETED"
                    BY <1>3, <2>1, <5>1
                <5>3. RunFits(sandbox'.runs[i])
                    BY <2>a, <2>4, <5>2 DEF RunFits
                <5>4. QED
                    BY <4>1, <4>2, <5>3
            <4>3. CASE j # i
                BY <2>1, <4>1, <4>3
            <4>4. QED
                BY <4>1, <4>2, <4>3
        <3>2. QED
            BY <3>1 DEF RunsFit
    <2>9. AttemptsFit'
        BY <1>1, <1>2, <2>2, AttemptsStay DEF Fits
    \* Only readers share the run with the one that executes it.
    <2>10. ASSUME NEW d \in Streams \ {c} PROVE StreamFits(d)' /\ ClientFits(d)'
        <3>1. CASE stream[d].run = i
            <4>1. stream[d].role # "executor"
                BY <1>a, <1>1, <1>2, <3>1 DEF Fits, SoleExecutor
            <4>2. RunKept(d)
                BY <1>a, <1>3, <1>10, <2>2, <2>3, <2>a, <2>4, <3>1, <4>1 DEF RunKept
            <4>3. QED
                BY <1>1, <1>2, <1>4, <1>6, <2>5, <4>2, StreamStays DEF Fits
        <3>2. CASE stream[d].run # i
            <4>1. RunKept(d)
                <5>1. ASSUME NEW j \in Stored(sandbox), j # i
                      PROVE  /\ sandbox'.runs[j] = sandbox.runs[j]
                             /\ Len(sandbox.runs[j].events) \in Nat
                    BY <1>2, <2>1, <5>1, StoredEvents
                <5>2. QED
                    BY <2>2, <3>2, <5>1 DEF RunKept
            <4>2. QED
                BY <1>1, <1>2, <1>4, <1>6, <2>5, <4>1, StreamStays DEF Fits
        <3>3. QED
            BY <3>1, <3>2
    <2>11. StreamFits(c)'
        <3>0. n = e /\ e <= NumEvents
            BY <1>3, <1>10
        <3> HIDE DEF n
        <3>1. /\ stream'[c].run = i /\ stream'[c].role = "executor" /\ stream'[c].steps = e
              /\ stream'[c].read = Absent /\ e <= NumEvents /\ i \in 1..created'
            BY <1>1, <1>4, <1>5, <1>6, <3>0
        <3>2. sandbox'.runs[i].started /\ Len(sandbox'.runs[i].events) = e
            BY <2>a, <2>4
        <3>3. QED
            BY <3>1, <3>2 DEF StreamFits
    <2>12. ClientFits(c)'
        <3>1. ClientFits(c) /\ Seen(c) \in Nat
            BY <1>2, StreamTypes DEF Fits
        <3>2. CASE stream[c].open
            <4>1. Seen(c) = stream[c].steps
                BY <1>a, <1>1, <1>10, <2>3, <3>1, <3>2 DEF ClientFits
            <4>2. Seen(c)' = e
                BY <1>a, <1>3, <2>5, <3>2, <4>1
            <4>3. QED
                BY <1>3, <2>4, <2>5, <3>2, <4>2, <1>5, <1>6 DEF ClientFits
        <3>3. CASE ~stream[c].open
            <4>1. client' = client /\ Seen(c)' = Seen(c)
                BY <2>5, <3>3 DEF Seen
            <4>2. QED
                BY <1>5, <1>6, <3>1, <3>3, <4>1 DEF ClientFits
        <3>4. QED
            BY <3>2, <3>3
    <2>13. QED
        BY <1>7, <1>8, <2>2, <2>6, <2>7, <2>8, <2>9, <2>10, <2>11, <2>12
           DEF SandboxInvariant, Fits, NoReturn
<1>11. QED
    BY <1>9, <1>10


LEMMA AwaitDigestStep ==
    ASSUME SandboxInvariant, ~overwritten, NEW c \in Streams, AwaitDigest(c)
    PROVE  SandboxInvariant' /\ NoReturn
<1> DEFINE x == [stream[c] EXCEPT !.read = sandbox]
<1>1. /\ stream[c].role = "executor" /\ stream[c].steps = NumEvents
      /\ stream' = [stream EXCEPT ![c] = x]
      /\ UNCHANGED <<sandbox, created, stale, old, client, author, overwritten, faults>>
    BY DEF AwaitDigest, GeneratedAll
<1>2. TypeOK /\ Valid(sandbox) /\ ReadsValid /\ Fits
    BY DEF SandboxInvariant
<1>3. /\ x \in Stream /\ x.role = "executor" /\ x.run = stream[c].run /\ x.open = stream[c].open
      /\ x.steps = NumEvents /\ x.read = sandbox
    <2>1. stream[c] \in Stream /\ sandbox \in Sandbox
        BY <1>2, StreamTypes DEF TypeOK
    <2>2. QED
        BY <1>1, <2>1 DEF Stream
<1> HIDE DEF x
<1>4. /\ stream' \in [Streams -> Stream] /\ stream'[c] = x
      /\ \A d \in Streams \ {c} : stream'[d] = stream[d]
    BY <1>1, <1>2, <1>3 DEF TypeOK
<1>5. TypeOK' /\ Valid(sandbox')
    BY <1>1, <1>2, <1>4 DEF TypeOK
<1>6. ReadsValid'
    BY <1>2, <1>3, <1>4 DEF ReadsValid
<1>7. SoleExecutor'
    BY <1>1, <1>2, <1>3, <1>4, SoleStays DEF Fits
<1>8. RunsFit' /\ AttemptsFit'
    BY <1>1, <1>2 DEF Fits, RunsFit, AttemptsFit, Attempts
<1>9. \A d \in Streams \ {c} : StreamFits(d)' /\ ClientFits(d)'
    <2>1. \A d \in Streams \ {c} : stream'[d] = stream[d] /\ client'[d] = client[d]
        BY <1>1, <1>4
    <2>2. QED
        BY <1>1, <1>2, <2>1, OtherStreamsStay
<1>10. StreamFits(c)'
    BY <1>1, <1>2, <1>3, <1>4 DEF Fits, StreamFits
<1>11. ClientFits(c)'
    <2>1. ClientFits(c) /\ Seen(c)' = Seen(c)
        BY <1>1, <1>2 DEF Fits, Seen
    <2>2. QED
        BY <1>1, <1>3, <1>4, <2>1 DEF ClientFits
<1>12. QED
    BY <1>1, <1>5, <1>6, <1>7, <1>8, <1>9, <1>10, <1>11 DEF SandboxInvariant, Fits, NoReturn

\* A stream that ends without a word and leaves the stored value as it was
LEMMA SilentEnd ==
    ASSUME SandboxInvariant, ~overwritten, NEW c \in Streams,
           stream' = [stream EXCEPT ![c] = Closed],
           UNCHANGED <<sandbox, client, created, stale, old, author, overwritten, faults>>
    PROVE  SandboxInvariant' /\ NoReturn
<1>1. TypeOK /\ Valid(sandbox) /\ ReadsValid /\ Fits
    BY DEF SandboxInvariant
<1>2. /\ stream' \in [Streams -> Stream] /\ stream'[c] = Closed
      /\ \A d \in Streams \ {c} : stream'[d] = stream[d]
    BY <1>1, ClosedTypes
<1>3. Closed.role = "closed" /\ Closed.read = Absent
    BY DEF Closed
<1>4. TypeOK' /\ Valid(sandbox')
    BY <1>1, <1>2 DEF TypeOK
<1>5. ReadsValid' /\ SoleExecutor'
    BY <1>1, <1>2, <1>3, ReadsStay, SoleStays DEF Fits
<1>6. RunsFit' /\ AttemptsFit'
    BY <1>1 DEF Fits, RunsFit, AttemptsFit, Attempts
<1>7. \A d \in Streams \ {c} : StreamFits(d)' /\ ClientFits(d)'
    BY <1>1, <1>2, OtherStreamsStay
<1>8. StreamFits(c)' /\ ClientFits(c)'
    <2>1. ClientFits(c) /\ Seen(c)' = Seen(c)
        BY <1>1 DEF Fits, Seen
    <2>2. QED
        BY <1>2, <2>1, ClosedFits, AbsentAssumption DEF ClientFits
<1>9. QED
    BY <1>4, <1>5, <1>6, <1>7, <1>8 DEF SandboxInvariant, Fits, NoReturn

LEMMA CompleteStep ==
    ASSUME SandboxInvariant, ~overwritten, NEW c \in Streams, Complete(c)
    PROVE  SandboxInvariant' /\ NoReturn
<1> DEFINE i == stream[c].run
           read == stream[c].read
<1>1. /\ read # Absent /\ stream' = [stream EXCEPT ![c] = Closed]
      /\ UNCHANGED <<created, stale, old, author, faults>>
    BY DEF Complete
<1>2. CASE i \notin Stored(read)
    <2>1. UNCHANGED <<sandbox, client, overwritten>>
        BY <1>2 DEF Complete
    <2>2. QED
        BY <1>1, <2>1, SilentEnd
<1>3. CASE i \in Stored(read)
    <2>1. /\ sandbox' = WithStatus(read, {i}, "COMPLETED")
          /\ client' = Sent(c, <<>>, "COMPLETED")
          /\ overwritten' = (overwritten \/ sandbox # read)
        BY <1>3 DEF Complete
    <2>2. TypeOK /\ Valid(sandbox) /\ ReadsValid /\ Fits
        BY DEF SandboxInvariant
    <2>3. /\ read \in Sandbox /\ Valid(read) /\ stream[c].role = "executor"
          /\ stream[c].steps = NumEvents
        BY <1>1, <2>2, StreamTypes DEF ReadsValid, Fits, StreamFits
    <2>4. /\ Continues(read, sandbox') /\ Running(sandbox') = Running(read) \ {i}
          /\ \A j \in Runs \ {i} : sandbox'.runs[j] = read.runs[j]
          /\ sandbox'.runs[i].status = "COMPLETED"
          /\ sandbox'.runs[i].started = read.runs[i].started
          /\ sandbox'.runs[i].events = read.runs[i].events
        <3> DEFINE set == {i}
                   w == WithStatus(read, set, "COMPLETED")
        <3>1. set \in SUBSET Stored(read) /\ "COMPLETED" \in {"COMPLETED", "FAILED"}
            BY <1>3
        <3> HIDE DEF set, read
        <3>2. /\ Continues(read, w) /\ Running(w) = Running(read) \ set
              /\ \A j \in Runs \ set : w.runs[j] = read.runs[j]
              /\ \A j \in set : /\ w.runs[j].status = "COMPLETED"
                              /\ w.runs[j].started = read.runs[j].started
                              /\ w.runs[j].events = read.runs[j].events
            BY <2>3, <3>1, EndedIs
        <3> HIDE DEF w
        <3>3. sandbox' = w
            BY <2>1 DEF w, set, read
        <3>4. QED
            BY <3>2, <3>3 DEF set
    <2>5. Valid(sandbox')
        BY <2>3, <2>4, ContinuesValid
    <2>6. /\ stream' \in [Streams -> Stream] /\ stream'[c] = Closed
          /\ \A d \in Streams \ {c} : stream'[d] = stream[d]
        BY <1>1, <2>2, ClosedTypes
    <2>7. Closed.role = "closed" /\ Closed.read = Absent
        BY DEF Closed
    <2>8. /\ client' \in [Streams -> Client] /\ \A d \in Streams \ {c} : client'[d] = client[d]
          /\ ~stream[c].open => client' = client
          /\ stream[c].open =>
                /\ client'[c].after = client[c].after /\ client'[c].end = "COMPLETED"
                /\ client'[c].events = CountFrom(client'[c].after, Len(client'[c].events))
                /\ Seen(c)' = Seen(c)
        <3> DEFINE w == Sent(c, <<>>, "COMPLETED")
        <3>1. /\ ClientFits(c) /\ 0 \in 0..NumEvents /\ <<>> = CountFrom(0, 0) /\ Seen(c) \in Nat
              /\ "COMPLETED" \in {"none", "COMPLETED", "FAILED"}
            <4>1. 0 \in Nat /\ NumEvents \in Nat /\ ClientFits(c) /\ Seen(c) \in Nat
                BY <2>2, StreamTypes DEF Fits
            <4>2. <<>> = CountFrom(0, 0)
                BY <4>1, CountFromSeq
            <4>3. QED
                BY <4>1, <4>2
        <3>2. /\ w \in [Streams -> Client] /\ \A d \in Streams \ {c} : w[d] = client[d]
              /\ ~stream[c].open => w = client
              /\ stream[c].open =>
                    /\ w[c].after = client[c].after /\ w[c].end = "COMPLETED"
                    /\ w[c].events = CountFrom(w[c].after, Len(w[c].events))
                    /\ w[c].after + Len(w[c].events) = IF 0 > Seen(c) THEN 0 ELSE Seen(c)
            BY <2>2, <3>1, SentIs
        <3> HIDE DEF w
        <3>3. client' = w
            BY <2>1 DEF w
        <3>4. QED
            BY <3>1, <3>2, <3>3 DEF Seen
    <2>9. TypeOK'
        BY <1>1, <2>1, <2>2, <2>4, <2>6, <2>8 DEF TypeOK, Continues
    <2>10. ReadsValid'
        BY <2>2, <2>6, <2>7, ReadsStay
    \* When nothing was overwritten, the run that ends is as the stream left it.
    <2>11. ASSUME ~overwritten' PROVE Fits' /\ NoReturn
        <3>1. read = sandbox
            BY <2>1, <2>11
        <3>2. /\ Stored(sandbox') = Stored(sandbox) /\ sandbox'.attempts = sandbox.attempts
            BY <2>4, <3>1 DEF Continues
        <3>3. RunFits(sandbox.runs[i]) /\ Len(sandbox.runs[i].events) = NumEvents
            BY <1>3, <2>2, <2>3, <3>1 DEF Fits, RunsFit, StreamFits
        <3>4. RunFits(sandbox'.runs[i])
            BY <2>4, <3>1, <3>3 DEF RunFits
        <3>5. RunsFit'
            <4>1. ASSUME NEW j \in Stored(sandbox') PROVE j <= created' /\ RunFits(sandbox'.runs[j])
                <5>1. j \in Runs /\ j \in Stored(sandbox) /\ j <= created'
                      /\ RunFits(sandbox.runs[j])
                    BY <1>1, <2>2, <3>2 DEF Fits, RunsFit, Stored
                <5>2. j # i => sandbox'.runs[j] = sandbox.runs[j]
                    BY <2>4, <3>1, <5>1
                <5>3. QED
                    BY <3>4, <5>1, <5>2
            <4>2. QED
                BY <4>1 DEF RunsFit
        <3>6. AttemptsFit' /\ SoleExecutor'
            BY <1>1, <2>2, <2>6, <2>7, <3>2, AttemptsStay, SoleStays DEF Fits
        <3>7. \A d \in Streams \ {c} : StreamFits(d)' /\ ClientFits(d)'
            <4>1. \A d \in Streams \ {c} : stream'[d] = stream[d] /\ client'[d] = client[d]
                BY <2>6, <2>8
            <4>2. ASSUME NEW j \in Stored(sandbox') \cap 1..created
                  PROVE  /\ j \in Stored(sandbox)
                         /\ sandbox.runs[j].started => sandbox'.runs[j].started
                         /\ sandbox'.runs[j].events = sandbox.runs[j].events
                <5>1. j \in Stored(sandbox) /\ j \in Runs
                    BY <3>2 DEF Stored
                <5>2. CASE j = i
                    BY <2>4, <3>1, <5>1, <5>2
                <5>3. CASE j # i
                    BY <2>4, <3>1, <5>1, <5>3
                <5>4. QED
                    BY <5>2, <5>3
            <4>3. QED
                BY <1>1, <2>2, <4>1, <4>2, OtherStreamsStay
        <3>8. /\ client'[c].events = CountFrom(client'[c].after, Len(client'[c].events))
              /\ Seen(c)' <= NumEvents /\ (client'[c].end = "COMPLETED" => Seen(c)' = NumEvents)
            <4>1. ClientFits(c)
                BY <2>2 DEF Fits
            <4>2. CASE stream[c].open
                <5>1. Seen(c) = NumEvents /\ NumEvents \in Nat
                    BY <1>3, <2>3, <3>1, <3>3, <4>1, <4>2, SandboxAssumption DEF ClientFits
                <5>2. QED
                    BY <2>8, <4>2, <5>1
            <4>3. CASE ~stream[c].open
                BY <2>8, <4>1, <4>3 DEF ClientFits, Seen
            <4>4. QED
                BY <4>2, <4>3
        <3>9. StreamFits(c)' /\ ClientFits(c)'
            BY <2>6, <3>8, ClosedFits, AbsentAssumption
        <3>10. QED
            BY <3>2, <3>5, <3>6, <3>7, <3>9 DEF Fits, NoReturn
    <2>12. QED
        BY <2>5, <2>9, <2>10, <2>11 DEF SandboxInvariant, NoReturn
<1>4. QED
    BY <1>2, <1>3


LEMMA PollStep ==
    ASSUME SandboxInvariant, ~overwritten, NEW c \in Streams, Poll(c)
    PROVE  SandboxInvariant' /\ NoReturn
<1> DEFINE i == stream[c].run
           run == sandbox.runs[i]
           goesOn == i \in Running(sandbox)
           end == IF goesOn THEN "none" ELSE run.status
           x == [stream[c] EXCEPT !.steps = stream[c].steps + 1]
<1>1. /\ stream[c].role = "reader"
      /\ client' = IF i \in Stored(sandbox) THEN Sent(c, run.events, end) ELSE client
      /\ \/ stream' = [stream EXCEPT ![c] = Closed]
         \/ goesOn /\ stream' = [stream EXCEPT ![c] = x]
      /\ UNCHANGED <<sandbox, created, stale, old, author, overwritten, faults>>
    <2>1. /\ stream[c].role = "reader"
          /\ UNCHANGED <<sandbox, created, stale, old, author, overwritten, faults>>
        BY DEF Poll
    <2>2. client' = IF i \in Stored(sandbox) THEN Sent(c, run.events, end) ELSE client
        BY DEF Poll
    <2>3. stream' = IF goesOn /\ stream[c].steps + 1 < MaxPolls
                    THEN [stream EXCEPT ![c] = x] ELSE [stream EXCEPT ![c] = Closed]
        BY DEF Poll
    <2>4. QED
        BY <2>1, <2>2, <2>3
<1>2. TypeOK /\ Valid(sandbox) /\ ReadsValid /\ Fits
    BY DEF SandboxInvariant
<1>3. CASE i \notin Stored(sandbox)
    <2>1. client' = client /\ stream' = [stream EXCEPT ![c] = Closed]
        BY <1>1, <1>3 DEF Running
    <2>2. QED
        BY <1>1, <2>1, SilentEnd
<1>4. CASE i \in Stored(sandbox)
    <2>1. /\ Len(run.events) \in Nat /\ NumEvents \in Nat /\ RunFits(run)
          /\ run.status \in Statuses /\ Seen(c) \in Nat /\ ClientFits(c) /\ i \in 1..created
        BY <1>1, <1>2, <1>4, StoredEvents, StreamTypes DEF Fits, RunsFit, StreamFits
    <2>2. end \in {"none", "COMPLETED", "FAILED"}
        BY <1>4, <2>1 DEF Running, Statuses
    <2>3. end = "COMPLETED" => Len(run.events) = NumEvents
        BY <2>1 DEF RunFits
    <2>4. /\ client' \in [Streams -> Client] /\ \A d \in Streams \ {c} : client'[d] = client[d]
          /\ ~stream[c].open => client' = client
          /\ stream[c].open =>
                /\ client'[c].after = client[c].after /\ client'[c].end = end
                /\ client'[c].events = CountFrom(client'[c].after, Len(client'[c].events))
                /\ Seen(c)' = Len(run.events)
        <3> DEFINE n == Len(run.events)
                   events == run.events
                   w == Sent(c, events, end)
        <3>1. n \in 0..NumEvents /\ events = CountFrom(0, n)
            BY <2>1 DEF RunFits
        <3>2. stream[c].open => Seen(c) <= n
            BY <1>1, <1>4, <2>1 DEF ClientFits
        <3>3. client' = w
            BY <1>1, <1>4
        <3> HIDE DEF n, events, end
        <3>4. /\ w \in [Streams -> Client] /\ \A d \in Streams \ {c} : w[d] = client[d]
              /\ ~stream[c].open => w = client
              /\ stream[c].open =>
                    /\ w[c].after = client[c].after /\ w[c].end = end
                    /\ w[c].events = CountFrom(w[c].after, Len(w[c].events))
                    /\ w[c].after + Len(w[c].events) = IF n > Seen(c) THEN n ELSE Seen(c)
            BY <1>2, <2>1, <2>2, <3>1, SentIs
        <3> HIDE DEF w
        <3>5. stream[c].open => Seen(c)' = n
            BY <2>1, <3>1, <3>2, <3>3, <3>4 DEF Seen
        <3>6. QED
            BY <3>3, <3>4, <3>5 DEF n
    <2> HIDE DEF end
    <2>5. /\ client'[c].events = CountFrom(client'[c].after, Len(client'[c].events))
          /\ Seen(c)' <= NumEvents /\ (client'[c].end = "COMPLETED" => Seen(c)' = NumEvents)
        <3>1. CASE stream[c].open
            BY <2>1, <2>3, <2>4, <3>1 DEF RunFits
        <3>2. CASE ~stream[c].open
            BY <2>1, <2>4, <3>2 DEF ClientFits, Seen
        <3>3. QED
            BY <3>1, <3>2
    <2>6. RunsFit' /\ AttemptsFit'
        BY <1>1, <1>2 DEF Fits, RunsFit, AttemptsFit, Attempts
    <2>7. CASE stream' = [stream EXCEPT ![c] = Closed]
        <3>1. /\ stream' \in [Streams -> Stream] /\ stream'[c] = Closed
              /\ \A d \in Streams \ {c} : stream'[d] = stream[d]
            BY <1>2, <2>7, ClosedTypes
        <3>2. Closed.role = "closed" /\ Closed.read = Absent
            BY DEF Closed
        <3>3. TypeOK' /\ Valid(sandbox')
            BY <1>1, <1>2, <2>4, <3>1 DEF TypeOK
        <3>4. ReadsValid' /\ SoleExecutor'
            BY <1>2, <3>1, <3>2, ReadsStay, SoleStays DEF Fits
        <3>5. \A d \in Streams \ {c} : StreamFits(d)' /\ ClientFits(d)'
            BY <1>1, <1>2, <2>4, <3>1, OtherStreamsStay
        <3>6. StreamFits(c)' /\ ClientFits(c)'
            BY <2>5, <3>1, ClosedFits, AbsentAssumption
        <3>7. QED
            BY <1>1, <2>6, <3>3, <3>4, <3>5, <3>6 DEF SandboxInvariant, Fits, NoReturn
    <2>8. CASE goesOn /\ stream' = [stream EXCEPT ![c] = x]
        <3>1. /\ x \in Stream /\ x.role = "reader" /\ x.run = i
              /\ x.open = stream[c].open /\ x.read = stream[c].read
            <4>1. stream[c] \in Stream /\ stream[c].steps \in Nat
                BY <1>2, StreamTypes
            <4>2. stream[c].steps + 1 \in Nat
                BY <4>1
            <4>3. QED
                BY <1>1, <4>1, <4>2 DEF Stream
        <3> HIDE DEF x
        <3>2. /\ stream' \in [Streams -> Stream] /\ stream'[c] = x
              /\ \A d \in Streams \ {c} : stream'[d] = stream[d]
            BY <1>2, <2>8, <3>1 DEF TypeOK
        <3>3. TypeOK' /\ Valid(sandbox')
            BY <1>1, <1>2, <2>4, <3>2 DEF TypeOK
        <3>4. ReadsValid' /\ SoleExecutor'
            BY <1>2, <3>1, <3>2, ReadsStay, SoleStays DEF Fits
        <3>5. \A d \in Streams \ {c} : StreamFits(d)' /\ ClientFits(d)'
            BY <1>1, <1>2, <2>4, <3>2, OtherStreamsStay
        <3>6. StreamFits(c)'
            BY <1>1, <1>2, <2>1, <3>1, <3>2 DEF Fits, StreamFits
        <3>7. ClientFits(c)'
            <4>1. stream[c].open => Seen(c)' <= Len(run.events)
                BY <2>1, <2>4
            <4>2. stream'[c].run = i /\ stream'[c].open = stream[c].open
                  /\ stream'[c].role = "reader"
                BY <3>1, <3>2
            <4>3. sandbox' = sandbox
                BY <1>1
            <4> HIDE DEF i
            <4>4. QED
                BY <2>5, <4>1, <4>2, <4>3 DEF ClientFits
        <3>8. QED
            BY <1>1, <2>6, <3>3, <3>4, <3>5, <3>6, <3>7 DEF SandboxInvariant, Fits, NoReturn
    <2>9. QED
        BY <1>1, <2>7, <2>8
<1>5. QED
    BY <1>3, <1>4

LEMMA TickStep ==
    ASSUME SandboxInvariant, ~overwritten, Tick
    PROVE  SandboxInvariant' /\ NoReturn
<1>1. /\ \/ stale < created /\ stale' = stale + 1 /\ old' = old
         \/ old < stale /\ old' = old + 1 /\ stale' = stale
      /\ UNCHANGED <<sandbox, created, stream, client, author, overwritten, faults>>
    BY DEF Tick
<1>2. TypeOK /\ Valid(sandbox) /\ ReadsValid /\ Fits
    BY DEF SandboxInvariant
<1>3. created \in Nat /\ stale \in 0..created /\ old \in 0..stale /\ old' \in Nat /\ old <= old'
    BY <1>1, <1>2 DEF TypeOK
<1>4. TypeOK' /\ Valid(sandbox') /\ ReadsValid'
    BY <1>1, <1>2, <1>3 DEF TypeOK, ReadsValid
<1>5. RunsFit' /\ SoleExecutor'
    BY <1>1, <1>2 DEF Fits, RunsFit, SoleExecutor
<1>6. AttemptsFit'
    <2>1. \A i \in Runs : i > created' => author'[i] = Absent
        BY <1>1, <1>2 DEF Fits, AttemptsFit
    <2>2. ASSUME NEW s \in Sessions
          PROVE  /\ {i \in Runs : i > old' /\ author'[i] = s} = Attempts(s)'
                 /\ Cardinality(Attempts(s)') <= RateLimit
        <3>1. /\ {i \in Runs : i > old /\ author[i] = s} = Attempts(s)
              /\ Cardinality(Attempts(s)) <= RateLimit
            BY <1>2 DEF Fits, AttemptsFit
        <3>2. \A i \in Runs : i > old' => i > old
            BY <1>3 DEF Runs
        <3>3. sandbox.attempts[s] \subseteq Runs /\ sandbox' = sandbox
            BY <1>1, <1>2 DEF TypeOK, Sandbox
        <3>4. Attempts(s)' = {i \in Attempts(s) : i > old'}
            BY <3>2, <3>3 DEF Attempts
        <3>5. {i \in Runs : i > old' /\ author'[i] = s} = Attempts(s)'
            BY <1>1, <3>1, <3>2, <3>4
        <3>6. IsFiniteSet(Attempts(s)) /\ Attempts(s)' \subseteq Attempts(s)
            <4>1. IsFiniteSet(Runs)
                BY FS_Interval, SandboxAssumption DEF Runs
            <4>2. Attempts(s) \subseteq Runs
                BY <3>3 DEF Attempts
            <4>3. QED
                BY <3>4, <4>1, <4>2, FS_Subset
        <3>7. /\ Cardinality(Attempts(s)') <= Cardinality(Attempts(s))
              /\ Cardinality(Attempts(s)) \in Nat /\ Cardinality(Attempts(s)') \in Nat
            BY <3>6, FS_Subset, FS_CardinalityType
        <3>8. QED
            BY <3>1, <3>5, <3>7, SandboxAssumption
    <2>3. QED
        BY <2>1, <2>2 DEF AttemptsFit
<1>7. \A d \in Streams : StreamFits(d)' /\ ClientFits(d)'
    BY <1>1, <1>2, <1>3, AllStreamsStay
<1>8. QED
    BY <1>1, <1>4, <1>5, <1>6, <1>7 DEF SandboxInvariant, Fits, NoReturn


LEMMA StreamErrorStep ==
    ASSUME SandboxInvariant, ~overwritten, NEW c \in Streams, StreamError(c)
    PROVE  SandboxInvariant' /\ NoReturn
<1> DEFINE set == {stream[c].run} \cap Stored(sandbox)
<1>1. /\ faults < MaxFaults /\ faults' = faults + 1
      /\ sandbox' = WithStatus(sandbox, set, "FAILED") \/ sandbox' = sandbox
      /\ stream' = [stream EXCEPT ![c] = Closed]
      /\ client' = [client EXCEPT ![c] = NothingSent]
      /\ UNCHANGED <<created, stale, old, author, overwritten>>
    BY DEF StreamError
<1>2. TypeOK /\ Valid(sandbox) /\ ReadsValid /\ Fits
    BY DEF SandboxInvariant
<1>3. /\ Continues(sandbox, sandbox') /\ Running(sandbox') \subseteq Running(sandbox)
      /\ \A j \in Stored(sandbox) :
            /\ sandbox'.runs[j].started = sandbox.runs[j].started
            /\ sandbox'.runs[j].events = sandbox.runs[j].events
            /\ sandbox'.runs[j].status = "COMPLETED" => sandbox.runs[j].status = "COMPLETED"
    <2>1. CASE sandbox' = sandbox
        BY <1>2, <2>1 DEF Continues, TypeOK
    <2>2. CASE sandbox' = WithStatus(sandbox, set, "FAILED")
        <3> DEFINE w == WithStatus(sandbox, set, "FAILED")
        <3>1. set \in SUBSET Stored(sandbox) /\ "FAILED" \in {"COMPLETED", "FAILED"}
            OBVIOUS
        <3> HIDE DEF set
        <3>2. /\ Continues(sandbox, w) /\ Running(w) = Running(sandbox) \ set
              /\ \A j \in Runs \ set : w.runs[j] = sandbox.runs[j]
              /\ \A j \in set : /\ w.runs[j].status = "FAILED"
                                /\ w.runs[j].started = sandbox.runs[j].started
                                /\ w.runs[j].events = sandbox.runs[j].events
            BY <1>2, <3>1, EndedIs DEF TypeOK
        <3> HIDE DEF w
        <3>3. sandbox' = w
            BY <2>2 DEF w
        <3>4. ASSUME NEW j \in Stored(sandbox)
              PROVE  /\ w.runs[j].started = sandbox.runs[j].started
                     /\ w.runs[j].events = sandbox.runs[j].events
                     /\ w.runs[j].status = "COMPLETED" => sandbox.runs[j].status = "COMPLETED"
            <4>1. CASE j \in set
                BY <3>2, <4>1
            <4>2. CASE j \notin set
                BY <3>2, <4>2 DEF Stored
            <4>3. QED
                BY <4>1, <4>2
        <3>5. QED
            BY <3>2, <3>3, <3>4
    <2>3. QED
        BY <1>1, <2>1, <2>2
<1> HIDE DEF set
<1>4. /\ sandbox' \in Sandbox /\ Stored(sandbox') = Stored(sandbox)
      /\ sandbox'.attempts = sandbox.attempts
    BY <1>3 DEF Continues
<1>5. Valid(sandbox')
    BY <1>2, <1>3, ContinuesValid
<1>6. /\ stream' \in [Streams -> Stream] /\ stream'[c] = Closed
      /\ \A d \in Streams \ {c} : stream'[d] = stream[d]
    BY <1>1, <1>2, ClosedTypes
<1>7. /\ client' \in [Streams -> Client] /\ client'[c] = NothingSent
      /\ \A d \in Streams \ {c} : client'[d] = client[d]
    BY <1>1, <1>2, ForgottenTypes
<1>8. Closed.role = "closed" /\ Closed.read = Absent
    BY DEF Closed
<1>9. TypeOK'
    BY <1>1, <1>2, <1>4, <1>6, <1>7, SandboxAssumption DEF TypeOK
<1>10. ReadsValid' /\ SoleExecutor' /\ AttemptsFit'
    BY <1>1, <1>2, <1>4, <1>6, <1>8, ReadsStay, SoleStays, AttemptsStay DEF Fits
<1>11. RunsFit'
    <2>1. ASSUME NEW j \in Stored(sandbox') PROVE j <= created' /\ RunFits(sandbox'.runs[j])
        <3>1. j \in Stored(sandbox) /\ j <= created' /\ RunFits(sandbox.runs[j])
            BY <1>1, <1>2, <1>4 DEF Fits, RunsFit
        <3>2. QED
            BY <1>3, <3>1 DEF RunFits
    <2>2. QED
        BY <2>1 DEF RunsFit
<1>12. \A d \in Streams \ {c} : StreamFits(d)' /\ ClientFits(d)'
    <2>1. ASSUME NEW j \in Stored(sandbox') \cap 1..created
          PROVE  /\ j \in Stored(sandbox)
                 /\ sandbox.runs[j].started => sandbox'.runs[j].started
                 /\ sandbox'.runs[j].events = sandbox.runs[j].events
        BY <1>3, <1>4
    <2>2. QED
        BY <1>1, <1>2, <1>6, <1>7, <2>1, OtherStreamsStay
<1>13. StreamFits(c)' /\ ClientFits(c)'
    BY <1>6, <1>7, ForgottenFits, ClosedFits, AbsentAssumption
<1>14. QED
    BY <1>4, <1>5, <1>9, <1>10, <1>11, <1>12, <1>13 DEF SandboxInvariant, Fits, NoReturn

LEMMA DropStep ==
    ASSUME SandboxInvariant, ~overwritten, NEW c \in Streams, Drop(c)
    PROVE  SandboxInvariant' /\ NoReturn
<1> DEFINE x == [stream[c] EXCEPT !.open = FALSE]
<1>1. /\ stream[c].role # "closed"
      /\ \/ stream[c].role = "executor" /\ stream' = [stream EXCEPT ![c] = x]
         \/ stream' = [stream EXCEPT ![c] = Closed]
      /\ client' = [client EXCEPT ![c] = NothingSent]
      /\ UNCHANGED <<sandbox, created, stale, old, author, overwritten, faults>>
    BY DEF Drop
<1>2. TypeOK /\ Valid(sandbox) /\ ReadsValid /\ Fits
    BY DEF SandboxInvariant
<1>3. /\ client' \in [Streams -> Client] /\ client'[c] = NothingSent
      /\ \A d \in Streams \ {c} : client'[d] = client[d]
    BY <1>1, <1>2, ForgottenTypes
<1>4. /\ client'[c].events = CountFrom(client'[c].after, Len(client'[c].events))
      /\ Seen(c)' <= NumEvents /\ (client'[c].end = "COMPLETED" => Seen(c)' = NumEvents)
    BY <1>3, ForgottenFits
<1>5. Valid(sandbox') /\ RunsFit' /\ AttemptsFit'
    BY <1>1, <1>2 DEF Fits, RunsFit, AttemptsFit, Attempts
<1>6. CASE stream' = [stream EXCEPT ![c] = Closed]
    <2>1. /\ stream' \in [Streams -> Stream] /\ stream'[c] = Closed
          /\ \A d \in Streams \ {c} : stream'[d] = stream[d]
        BY <1>2, <1>6, ClosedTypes
    <2>2. Closed.role = "closed" /\ Closed.read = Absent
        BY DEF Closed
    <2>3. TypeOK'
        BY <1>1, <1>2, <1>3, <2>1 DEF TypeOK
    <2>4. ReadsValid' /\ SoleExecutor'
        BY <1>2, <2>1, <2>2, ReadsStay, SoleStays DEF Fits
    <2>5. \A d \in Streams \ {c} : StreamFits(d)' /\ ClientFits(d)'
        BY <1>1, <1>2, <1>3, <2>1, OtherStreamsStay
    <2>6. StreamFits(c)' /\ ClientFits(c)'
        BY <1>4, <2>1, ClosedFits, AbsentAssumption
    <2>7. QED
        BY <1>1, <1>5, <2>3, <2>4, <2>5, <2>6 DEF SandboxInvariant, Fits, NoReturn
\* The client left; the executor goes on.
<1>7. CASE stream[c].role = "executor" /\ stream' = [stream EXCEPT ![c] = x]
    <2>1. /\ x \in Stream /\ x.role = "executor" /\ x.run = stream[c].run
          /\ x.open = FALSE /\ x.read = stream[c].read /\ x.steps = stream[c].steps
        BY <1>2, <1>7, StreamTypes DEF Stream
    <2> HIDE DEF x
    <2>2. /\ stream' \in [Streams -> Stream] /\ stream'[c] = x
          /\ \A d \in Streams \ {c} : stream'[d] = stream[d]
        BY <1>2, <1>7, <2>1 DEF TypeOK
    <2>3. TypeOK'
        BY <1>1, <1>2, <1>3, <2>2 DEF TypeOK
    <2>4. ReadsValid' /\ SoleExecutor'
        BY <1>2, <1>7, <2>1, <2>2, ReadsStay, SoleStays DEF Fits
    <2>5. \A d \in Streams \ {c} : StreamFits(d)' /\ ClientFits(d)'
        BY <1>1, <1>2, <1>3, <2>2, OtherStreamsStay
    <2>6. StreamFits(c)'
        BY <1>1, <1>2, <1>7, <2>1, <2>2 DEF Fits, StreamFits
    <2>7. ClientFits(c)'
        BY <1>4, <2>1, <2>2 DEF ClientFits
    <2>8. QED
        BY <1>1, <1>5, <2>3, <2>4, <2>5, <2>6, <2>7 DEF SandboxInvariant, Fits, NoReturn
<1>8. QED
    BY <1>1, <1>6, <1>7

LEMMA ResetStep ==
    ASSUME SandboxInvariant, ~overwritten, NEW s \in Sessions, NEW i \in Runs, Reset(s, i)
    PROVE  SandboxInvariant' /\ NoReturn
<1> DEFINE k == sandbox.runs[i].key
           R == [sandbox.runs EXCEPT ![i] = Absent]
           I == [sandbox.idempotency EXCEPT ![<<s, k>>] = Absent]
<1>1. /\ i \in Stored(sandbox) /\ sandbox.runs[i].session = s
      /\ sandbox' = [sandbox EXCEPT !.runs[i] = Absent,
                                    !.idempotency[<<s, sandbox.runs[i].key>>] = Absent]
      /\ UNCHANGED <<created, stale, old, stream, client, author, overwritten, faults>>
    BY DEF Reset
<1>2. TypeOK /\ Valid(sandbox) /\ ReadsValid /\ Fits
    BY DEF SandboxInvariant
<1>3. /\ sandbox.runs \in [Runs -> StoredRun \cup {Absent}]
      /\ sandbox.attempts \in [Sessions \cup Clients -> SUBSET Runs]
      /\ sandbox.idempotency \in [Sessions \X Keys -> Runs \cup {Absent}]
      /\ sandbox = [runs |-> sandbox.runs, attempts |-> sandbox.attempts,
                    idempotency |-> sandbox.idempotency]
    BY <1>2 DEF TypeOK, Sandbox
<1>4. /\ R \in [Runs -> StoredRun \cup {Absent}] /\ R[i] = Absent
      /\ \A j \in Runs \ {i} : R[j] = sandbox.runs[j]
    BY <1>3
<1>5. /\ I \in [Sessions \X Keys -> Runs \cup {Absent}]
      /\ \A p \in Sessions \X Keys : p # <<s, k>> => I[p] = sandbox.idempotency[p]
    BY <1>3
<1>6. /\ sandbox'.runs = R /\ sandbox'.attempts = sandbox.attempts /\ sandbox'.idempotency = I
      /\ sandbox' \in Sandbox
    <2>1. sandbox' = [runs |-> R, attempts |-> sandbox.attempts, idempotency |-> I]
        BY <1>1, <1>3
    <2> HIDE DEF R, I
    <2>2. QED
        BY <1>3, <1>4, <1>5, <2>1 DEF Sandbox
<1>7. \A j \in Stored(sandbox') :
          /\ j \in Stored(sandbox) /\ j \in Runs /\ j # i /\ sandbox'.runs[j] = sandbox.runs[j]
    BY <1>4, <1>6 DEF Stored
<1> HIDE DEF R, I, k
<1>8. Valid(sandbox')
    <2>1. \A a, b \in Running(sandbox') : a = b
        BY <1>2, <1>7 DEF Valid, Running
    <2>2. ASSUME NEW j \in Stored(sandbox')
          PROVE  sandbox'.idempotency[<<sandbox'.runs[j].session, sandbox'.runs[j].key>>] = j
        <3> DEFINE p == <<sandbox.runs[j].session, sandbox.runs[j].key>>
        <3>1. sandbox.idempotency[p] = j /\ j # i
            BY <1>2, <1>7 DEF Valid
        <3>2. sandbox.idempotency[<<s, k>>] = i
            BY <1>1, <1>2 DEF Valid, k
        <3>3. p # <<s, k>> /\ p \in Sessions \X Keys
            <4>1. sandbox.runs[j].session \in Sessions /\ sandbox.runs[j].key \in Keys
                BY <1>2, <1>7, StoredTypes DEF TypeOK
            <4>2. QED
                BY <3>1, <3>2, <4>1
        <3>4. I[p] = j
            BY <1>5, <3>1, <3>3
        <3>5. QED
            BY <1>6, <1>7, <3>4
    <2>3. QED
        BY <2>1, <2>2 DEF Valid
<1>9. TypeOK' /\ ReadsValid' /\ SoleExecutor' /\ AttemptsFit'
    BY <1>1, <1>2, <1>6, AttemptsStay DEF TypeOK, ReadsValid, SoleExecutor, Fits
<1>10. RunsFit'
    BY <1>1, <1>2, <1>7 DEF Fits, RunsFit
<1>11. \A d \in Streams : StreamFits(d)' /\ ClientFits(d)'
    <2>1. created' \in Nat /\ created <= created'
        BY <1>1, <1>2 DEF TypeOK
    <2>2. QED
        BY <1>1, <1>2, <1>7, <2>1, AllStreamsStay
<1>12. QED
    BY <1>7, <1>8, <1>9, <1>10, <1>11 DEF SandboxInvariant, Fits, NoReturn


\* A value in which everything is replaced
LEMMA ValueReplaced ==
    ASSUME NEW r, NEW t, NEW d, NEW R, NEW A, NEW I
    PROVE  [[runs |-> r, attempts |-> t, idempotency |-> d]
               EXCEPT !.runs = R, !.attempts = A, !.idempotency = I]
           = [runs |-> R, attempts |-> A, idempotency |-> I]
<1>1. [[runs |-> r, attempts |-> t, idempotency |-> d] EXCEPT !.runs = R]
      = [runs |-> R, attempts |-> t, idempotency |-> d]
    OBVIOUS
<1>2. [[runs |-> R, attempts |-> t, idempotency |-> d] EXCEPT !.attempts = A]
      = [runs |-> R, attempts |-> A, idempotency |-> d]
    OBVIOUS
<1>3. [[runs |-> R, attempts |-> A, idempotency |-> d] EXCEPT !.idempotency = I]
      = [runs |-> R, attempts |-> A, idempotency |-> I]
    OBVIOUS
<1>4. QED
    BY <1>1, <1>2, <1>3, Zenon

LEMMA CreateStep ==
    ASSUME SandboxInvariant, ~overwritten, NEW s \in Sessions, NEW k \in Keys, Create(s, k)
    PROVE  SandboxInvariant' /\ NoReturn
<1> DEFINE i == created + 1
           a == Address[s]
           timedOut == {j \in Running(sandbox) : j <= stale}
           swept == WithStatus(sandbox, timedOut, "FAILED")
           new == [status |-> "RUNNING", started |-> FALSE, events |-> <<>>,
                   session |-> s, key |-> k]
           R == [swept.runs EXCEPT ![i] = new]
           A == [b \in Sessions \cup Clients |->
               IF b \in {s, Address[s]} THEN Attempts(b) \cup {i} ELSE sandbox.attempts[b]]
           I == [swept.idempotency EXCEPT ![<<s, k>>] = i]
           w == [runs |-> R, attempts |-> A, idempotency |-> I]
<1>1. /\ created < MaxCreated /\ ~Replayed(s, k)
      /\ Cardinality(Attempts(s)) < RateLimit /\ ~Busy(swept)
      /\ created' = i /\ author' = [author EXCEPT ![i] = s]
      /\ UNCHANGED <<stale, old, stream, client, overwritten, faults>>
    BY DEF Create
<1>2. sandbox' = Trimmed([swept EXCEPT
           !.runs[i] = new,
           !.attempts = [b \in Sessions \cup Clients |->
               IF b \in {s, Address[s]} THEN Attempts(b) \cup {i} ELSE sandbox.attempts[b]],
           !.idempotency[<<s, k>>] = i])
    BY DEF Create
<1>3. TypeOK /\ Valid(sandbox) /\ ReadsValid /\ Fits
    BY DEF SandboxInvariant
<1>4. /\ i \in Runs /\ created \in Nat /\ i \in Nat /\ old \in Nat /\ i > old
      /\ stale \in 0..created /\ old \in 0..stale
      /\ a \in Clients /\ a \notin Sessions
    BY <1>1, <1>3, SandboxAssumption DEF TypeOK, Runs
<1>5. /\ swept \in Sandbox /\ Stored(swept) = Stored(sandbox)
      /\ swept.attempts = sandbox.attempts /\ swept.idempotency = sandbox.idempotency
      /\ \A j \in Stored(sandbox) :
            /\ swept.runs[j].started = sandbox.runs[j].started
            /\ swept.runs[j].events = sandbox.runs[j].events
            /\ swept.runs[j].session = sandbox.runs[j].session
            /\ swept.runs[j].key = sandbox.runs[j].key
            /\ swept.runs[j].status = "COMPLETED" => sandbox.runs[j].status = "COMPLETED"
    <2>1. timedOut \in SUBSET Stored(sandbox) /\ "FAILED" \in Statuses
        BY DEF Running, Statuses
    <2> HIDE DEF timedOut
    <2>2. /\ swept \in Sandbox /\ Stored(swept) = Stored(sandbox)
          /\ swept.attempts = sandbox.attempts /\ swept.idempotency = sandbox.idempotency
          /\ \A j \in Runs \ timedOut : swept.runs[j] = sandbox.runs[j]
          /\ \A j \in timedOut : /\ swept.runs[j].status = "FAILED"
                                 /\ swept.runs[j].started = sandbox.runs[j].started
                                 /\ swept.runs[j].events = sandbox.runs[j].events
                                 /\ swept.runs[j].session = sandbox.runs[j].session
                                 /\ swept.runs[j].key = sandbox.runs[j].key
        BY <1>3, <2>1, WithStatusIs DEF TypeOK
    <2> HIDE DEF swept
    <2>3. ASSUME NEW j \in Stored(sandbox)
          PROVE  /\ swept.runs[j].started = sandbox.runs[j].started
                 /\ swept.runs[j].events = sandbox.runs[j].events
                 /\ swept.runs[j].session = sandbox.runs[j].session
                 /\ swept.runs[j].key = sandbox.runs[j].key
                 /\ swept.runs[j].status = "COMPLETED" => sandbox.runs[j].status = "COMPLETED"
        <3>1. CASE j \in timedOut
            BY <2>2, <3>1
        <3>2. CASE j \notin timedOut
            BY <2>2, <3>2 DEF Stored
        <3>3. QED
            BY <3>1, <3>2
    <2>4. QED
        BY <2>2, <2>3
<1> HIDE DEF timedOut, swept
<1>6. /\ swept.runs \in [Runs -> StoredRun \cup {Absent}]
      /\ swept.attempts \in [Sessions \cup Clients -> SUBSET Runs]
      /\ swept.idempotency \in [Sessions \X Keys -> Runs \cup {Absent}]
      /\ swept = [runs |-> swept.runs, attempts |-> swept.attempts,
                  idempotency |-> swept.idempotency]
    BY <1>5 DEF Sandbox
<1>7. /\ new \in StoredRun /\ new # Absent /\ new.status = "RUNNING" /\ new.started = FALSE
      /\ new.events = <<>> /\ new.session = s /\ new.key = k
    <2>1. <<>> \in Seq(1..NumEvents)
        OBVIOUS
    <2>2. new \in StoredRun
        BY <2>1 DEF StoredRun, Statuses
    <2>3. QED
        BY <2>2, AbsentAssumption
<1> HIDE DEF new
<1>8. /\ R \in [Runs -> StoredRun \cup {Absent}] /\ R[i] = new
      /\ \A j \in Runs \ {i} : R[j] = swept.runs[j]
    BY <1>4, <1>6, <1>7
<1>9. /\ A \in [Sessions \cup Clients -> SUBSET Runs]
      /\ A[s] = Attempts(s) \cup {i}
      /\ \A b \in Sessions \ {s} : A[b] = sandbox.attempts[b]
    <2>1. ASSUME NEW b \in Sessions \cup Clients
          PROVE  /\ Attempts(b) \cup {i} \in SUBSET Runs /\ sandbox.attempts[b] \in SUBSET Runs
        BY <1>4, <1>5, <1>6 DEF Attempts
    <2>2. a # s /\ s \in Sessions \cup Clients
        BY <1>4
    <2>3. QED
        BY <1>4, <2>1, <2>2
<1>10. /\ I \in [Sessions \X Keys -> Runs \cup {Absent}] /\ I[<<s, k>>] = i
       /\ \A p \in Sessions \X Keys : p # <<s, k>> => I[p] = sandbox.idempotency[p]
    BY <1>4, <1>5, <1>6
<1>11. sandbox' = Trimmed(w)
    <2>1. [swept EXCEPT !.runs[i] = new, !.attempts = A, !.idempotency[<<s, k>>] = i]
           = [swept EXCEPT !.runs = R, !.attempts = A, !.idempotency = I]
        OBVIOUS
    <2>2. sandbox' = Trimmed([swept EXCEPT !.runs = R, !.attempts = A, !.idempotency = I])
        BY <1>2, <2>1
    <2> HIDE DEF R, A, I
    <2>3. [swept EXCEPT !.runs = R, !.attempts = A, !.idempotency = I] = w
        <3> HIDE DEF w
        <3>1. w = [runs |-> R, attempts |-> A, idempotency |-> I]
            BY DEF w
        <3>2. QED
            <4> DEFINE r == swept.runs
                       t == swept.attempts
                       d == swept.idempotency
            <4>1. swept = [runs |-> r, attempts |-> t, idempotency |-> d]
                BY <1>6
            <4> HIDE DEF r, t, d
            <4>2. [[runs |-> r, attempts |-> t, idempotency |-> d]
                      EXCEPT !.runs = R, !.attempts = A, !.idempotency = I]
                  = [runs |-> R, attempts |-> A, idempotency |-> I]
                BY ValueReplaced
            <4> HIDE DEF swept
            <4>3. QED
                BY <3>1, <4>1, <4>2
    <2>4. QED
        BY <2>2, <2>3
<1>12. w \in Sandbox /\ w.runs = R /\ w.attempts = A /\ w.idempotency = I
    BY <1>8, <1>9, <1>10 DEF Sandbox
<1> HIDE DEF R, A, I, w
<1>13. /\ sandbox' \in Sandbox /\ sandbox'.attempts = A /\ sandbox'.idempotency = I
       /\ \A j \in Stored(sandbox') : j \in Stored(w) /\ sandbox'.runs[j] = R[j]
       /\ Running(sandbox') = Running(w)
    BY <1>11, <1>12, TrimmedIs
<1>14. \A j \in Stored(sandbox') :
           /\ j \in Runs
           /\ j = i => sandbox'.runs[j] = new
           /\ j # i => j \in Stored(sandbox) /\ sandbox'.runs[j] = swept.runs[j]
    BY <1>5, <1>8, <1>12, <1>13 DEF Stored
<1>15. \A j \in Running(sandbox') : j = i
    BY <1>1, <1>5, <1>14 DEF Running, Busy
<1>16. Valid(sandbox')
    <2>1. ASSUME NEW j \in Stored(sandbox')
          PROVE  sandbox'.idempotency[<<sandbox'.runs[j].session, sandbox'.runs[j].key>>] = j
        <3>1. CASE j = i
            BY <1>7, <1>10, <1>13, <1>14, <3>1
        \* A key that names a stored run is not used for another.
        <3>2. CASE j # i
            <4> DEFINE p == <<sandbox.runs[j].session, sandbox.runs[j].key>>
            <4>1. j \in Stored(sandbox) /\ sandbox'.runs[j] = swept.runs[j]
                BY <1>14, <3>2
            <4>2. <<sandbox'.runs[j].session, sandbox'.runs[j].key>> = p
                BY <1>5, <4>1
            <4>3. sandbox.idempotency[p] = j
                BY <1>3, <4>1 DEF Valid
            <4>4. p # <<s, k>>
                BY <1>1, <4>1, <4>3 DEF Replayed
            <4>5. p \in Sessions \X Keys
                BY <1>3, <4>1, StoredTypes DEF TypeOK
            <4>6. I[p] = j
                BY <1>10, <4>3, <4>4, <4>5
            <4>7. QED
                BY <1>13, <4>2, <4>6
        <3>3. QED
            BY <3>1, <3>2
    <2>2. QED
        BY <1>15, <2>1 DEF Valid
<1>17. TypeOK'
    <2>1. created' \in 0..MaxCreated /\ stale' \in 0..created' /\ old' \in 0..stale'
        BY <1>1, <1>4 DEF Runs
    <2>2. author' \in [Runs -> Sessions \cup {Absent}]
        BY <1>1, <1>3 DEF TypeOK
    <2>3. QED
        BY <1>1, <1>3, <1>13, <2>1, <2>2 DEF TypeOK
<1>18. ReadsValid' /\ SoleExecutor'
    BY <1>1, <1>3 DEF ReadsValid, SoleExecutor, Fits
<1>19. RunsFit'
    <2>1. ASSUME NEW j \in Stored(sandbox') PROVE j <= created' /\ RunFits(sandbox'.runs[j])
        <3>1. CASE j = i
            <4>1. <<>> = CountFrom(0, 0) /\ Len(<<>>) = 0 /\ NumEvents \in Nat
                BY CountFromSeq, SandboxAssumption
            <4>2. RunFits(new)
                BY <1>7, <4>1 DEF RunFits
            <4>3. QED
                BY <1>1, <1>4, <1>14, <3>1, <4>2
        <3>2. CASE j # i
            <4>1. /\ j \in Stored(sandbox) /\ sandbox'.runs[j] = swept.runs[j]
                  /\ j <= created /\ RunFits(sandbox.runs[j]) /\ j \in Runs
                BY <1>3, <1>14, <3>2 DEF Fits, RunsFit
            <4>2. RunFits(swept.runs[j])
                BY <1>5, <4>1 DEF RunFits
            <4>3. j <= created'
                BY <1>1, <1>4, <4>1 DEF Runs
            <4>4. QED
                BY <4>1, <4>2, <4>3
        <3>3. QED
            BY <3>1, <3>2
    <2>2. QED
        BY <2>1 DEF RunsFit
<1>20. AttemptsFit'
    <2>1. ASSUME NEW j \in Runs, j > created' PROVE author'[j] = Absent
        <3>1. j # i /\ j > created
            BY <1>1, <1>4, <2>1 DEF Runs
        <3>2. QED
            BY <1>1, <1>3, <3>1 DEF Fits, AttemptsFit, TypeOK
    <2>2. ASSUME NEW b \in Sessions
          PROVE  /\ {j \in Runs : j > old' /\ author'[j] = b} = Attempts(b)'
                 /\ Cardinality(Attempts(b)') <= RateLimit
        <3>1. /\ {j \in Runs : j > old /\ author[j] = b} = Attempts(b)
              /\ Cardinality(Attempts(b)) <= RateLimit
            BY <1>3 DEF Fits, AttemptsFit
        <3>2. author'[i] = s /\ \A j \in Runs \ {i} : author'[j] = author[j]
            BY <1>1, <1>3, <1>4 DEF TypeOK
        <3>3. CASE b = s
            <4>1. Attempts(b)' = Attempts(b) \cup {i}
                BY <1>1, <1>4, <1>9, <1>13, <3>3 DEF Attempts
            <4>2. {j \in Runs : j > old' /\ author'[j] = b} = Attempts(b) \cup {i}
                BY <1>1, <1>4, <3>1, <3>2, <3>3
            <4>3. IsFiniteSet(Attempts(b))
                <5>1. IsFiniteSet(Runs)
                    BY FS_Interval, SandboxAssumption DEF Runs
                <5>2. Attempts(b) \subseteq Runs
                    BY <3>1
                <5>3. QED
                    BY <5>1, <5>2, FS_Subset
            <4>4. /\ Cardinality(Attempts(b)) \in Nat
                  /\ Cardinality(Attempts(b) \cup {i}) \in
                         {Cardinality(Attempts(b)), Cardinality(Attempts(b)) + 1}
                BY <4>3, FS_CardinalityType, FS_AddElement
            <4>5. QED
                BY <1>1, <3>3, <4>1, <4>2, <4>4, SandboxAssumption
        <3>4. CASE b # s
            <4>1. Attempts(b)' = Attempts(b)
                BY <1>1, <1>9, <1>13, <3>4 DEF Attempts
            <4>2. author[i] = Absent /\ Absent \notin Sessions
                BY <1>3, <1>4, AbsentAssumption DEF Fits, AttemptsFit
            <4>3. \A j \in Runs : author'[j] = b <=> author[j] = b
                BY <3>2, <3>4, <4>2
            <4>4. QED
                BY <1>1, <3>1, <4>1, <4>3
        <3>5. QED
            BY <3>3, <3>4
    <2>3. QED
        BY <2>1, <2>2 DEF AttemptsFit
<1>21. \A d \in Streams : StreamFits(d)' /\ ClientFits(d)'
    <2>1. ASSUME NEW j \in Stored(sandbox') \cap 1..created
          PROVE  /\ j \in Stored(sandbox)
                 /\ sandbox.runs[j].started => sandbox'.runs[j].started
                 /\ sandbox'.runs[j].events = sandbox.runs[j].events
        <3>1. j # i /\ j \in Stored(sandbox')
            BY <1>4
        <3>2. j \in Stored(sandbox) /\ sandbox'.runs[j] = swept.runs[j]
            BY <1>14, <3>1
        <3>3. QED
            BY <1>5, <3>2
    <2>2. created' \in Nat /\ created <= created'
        BY <1>1, <1>4
    <2>3. stream' = stream /\ client' = client
        BY <1>1
    <2>4. QED
        BY <1>3, <2>1, <2>2, <2>3, AllStreamsStay
<1>22. NoReturn
    <2>1. \A j \in 1..created : j # i
        BY <1>4
    <2>2. QED
        BY <1>14, <2>1 DEF NoReturn
<1>23. QED
    BY <1>16, <1>17, <1>18, <1>19, <1>20, <1>21, <1>22 DEF SandboxInvariant, Fits


-----------------------------------------------------------------------------
(* The theorems                                                            *)

LEMMA InitFits == Init => SandboxInvariant
<1> SUFFICES ASSUME Init PROVE SandboxInvariant
    OBVIOUS
<1>1. /\ sandbox = [runs |-> [i \in Runs |-> Absent],
                    attempts |-> [b \in Sessions \cup Clients |-> {}],
                    idempotency |-> [k \in Sessions \X Keys |-> Absent]]
      /\ created = 0 /\ stale = 0 /\ old = 0 /\ faults = 0 /\ overwritten = FALSE
      /\ stream = [c \in Streams |-> Closed] /\ client = [c \in Streams |-> NothingSent]
      /\ author = [i \in Runs |-> Absent]
    BY DEF Init
<1>2. sandbox \in Sandbox /\ Stored(sandbox) = {} /\ Running(sandbox) = {}
    BY <1>1 DEF Sandbox, Stored, Running
<1>3. /\ Closed \in Stream /\ Closed.role = "closed" /\ Closed.read = Absent
      /\ Closed.open = FALSE
    BY DEF Closed, Stream
<1>4. /\ NothingSent \in Client /\ NothingSent.after = 0 /\ NothingSent.events = <<>>
      /\ NothingSent.end = "none"
    <2>1. <<>> \in Seq(1..NumEvents) /\ 0 \in 0..NumEvents
        BY SandboxAssumption
    <2>2. QED
        BY <2>1 DEF NothingSent, Client
<1>5. TypeOK
    <2>1. /\ created \in 0..MaxCreated /\ stale \in 0..created /\ old \in 0..stale
          /\ faults \in 0..MaxFaults /\ overwritten \in BOOLEAN
        <3>1. MaxCreated \in Nat /\ MaxFaults \in Nat
            BY SandboxAssumption
        <3>2. 0 \in 0..MaxCreated /\ 0 \in 0..MaxFaults /\ 0 \in 0..0
            BY <3>1
        <3>3. overwritten \in BOOLEAN
            BY <1>1
        <3>4. QED
            BY <1>1, <3>2, <3>3
    <2>2. /\ stream \in [Streams -> Stream] /\ client \in [Streams -> Client]
          /\ author \in [Runs -> Sessions \cup {Absent}]
        BY <1>1, <1>3, <1>4
    <2>3. QED
        BY <1>2, <2>1, <2>2 DEF TypeOK
<1>6. Valid(sandbox) /\ ReadsValid /\ RunsFit
    BY <1>1, <1>2, <1>3 DEF Valid, ReadsValid, RunsFit
<1>7. SoleExecutor
    BY <1>1, <1>3 DEF SoleExecutor
<1>8. AttemptsFit
    <2>1. ASSUME NEW s \in Sessions
          PROVE  {i \in Runs : i > old /\ author[i] = s} = {} /\ Attempts(s) = {}
        BY <1>1, AbsentAssumption DEF Attempts
    <2>2. Cardinality({}) = 0 /\ RateLimit \in Nat
        BY FS_EmptySet, SandboxAssumption
    <2>3. ASSUME NEW s \in Sessions
          PROVE  /\ {i \in Runs : i > old /\ author[i] = s} = Attempts(s)
                 /\ Cardinality(Attempts(s)) <= RateLimit
        BY <2>1, <2>2
    <2>4. \A i \in Runs : i > created => author[i] = Absent
        BY <1>1
    <2>5. QED
        BY <2>3, <2>4 DEF AttemptsFit
<1>9. ASSUME NEW d \in Streams PROVE StreamFits(d) /\ ClientFits(d)
    <2>1. CountFrom(0, 0) = <<>> /\ Len(<<>>) = 0 /\ NumEvents \in Nat
        BY CountFromSeq, SandboxAssumption
    <2>2. stream[d] = Closed /\ client[d] = NothingSent
        BY <1>1
    <2>3. Seen(d) = 0 /\ client[d].events = CountFrom(client[d].after, Len(client[d].events))
        BY <1>4, <2>1, <2>2 DEF Seen
    <2>4. QED
        BY <1>2, <1>3, <1>4, <2>1, <2>2, <2>3 DEF StreamFits, ClientFits
<1>10. QED
    BY <1>5, <1>6, <1>7, <1>8, <1>9 DEF SandboxInvariant, Fits

LEMMA NextFits ==
    ASSUME SandboxInvariant, [Next]_vars
    PROVE  SandboxInvariant' /\ NoReturn
<1>1. CASE UNCHANGED vars
    <2>1. UNCHANGED <<sandbox, created, stale, old, stream, client, author, overwritten, faults>>
        BY <1>1 DEF vars
    <2>2. TypeOK' /\ Valid(sandbox') /\ ReadsValid' /\ NoReturn
        BY <2>1 DEF SandboxInvariant, TypeOK, ReadsValid, NoReturn
    <2>3. ASSUME Fits PROVE Fits'
        <3>1. RunsFit' /\ SoleExecutor'
            BY <2>1, <2>3 DEF Fits, RunsFit, SoleExecutor
        <3>2. AttemptsFit'
            BY <2>1, <2>3, AttemptsStay DEF Fits
        <3>3. \A d \in Streams : StreamFits(d)' /\ ClientFits(d)'
            <4>1. TypeOK /\ created \in Nat /\ created <= created
                BY DEF SandboxInvariant, TypeOK
            <4>2. QED
                BY <2>1, <2>3, <4>1, AllStreamsStay
        <3>4. QED
            BY <3>1, <3>2, <3>3 DEF Fits
    <2>4. QED
        BY <2>1, <2>2, <2>3 DEF SandboxInvariant
<1>2. CASE Next
    <2>1. /\ ~overwritten
          /\ \/ \E s \in Sessions : \E k \in Keys : Create(s, k)
             \/ \E s \in Sessions : \E i \in Runs : Reset(s, i)
             \/ \E c \in Streams :
                   \/ \E i \in Runs : Connect(c, i)
                   \/ Emit(c) \/ AwaitDigest(c) \/ Complete(c) \/ Poll(c)
                   \/ StreamError(c) \/ Drop(c)
             \/ Tick
        BY <1>2 DEF Next
    <2>2. CASE \E s \in Sessions : \E k \in Keys : Create(s, k)
        BY <2>1, <2>2, CreateStep
    <2>3. CASE \E s \in Sessions : \E i \in Runs : Reset(s, i)
        BY <2>1, <2>3, ResetStep
    <2>4. CASE Tick
        BY <2>1, <2>4, TickStep
    <2>5. ASSUME NEW c \in Streams,
                 \/ \E i \in Runs : Connect(c, i)
                 \/ Emit(c) \/ AwaitDigest(c) \/ Complete(c) \/ Poll(c)
                 \/ StreamError(c) \/ Drop(c)
          PROVE  SandboxInvariant' /\ NoReturn
        <3>1. CASE \E i \in Runs : Connect(c, i)
            BY <2>1, <3>1, ConnectStep
        <3>2. CASE Emit(c)
            BY <2>1, <3>2, EmitStep
        <3>3. CASE AwaitDigest(c)
            BY <2>1, <3>3, AwaitDigestStep
        <3>4. CASE Complete(c)
            BY <2>1, <3>4, CompleteStep
        <3>5. CASE Poll(c)
            BY <2>1, <3>5, PollStep
        <3>6. CASE StreamError(c)
            BY <2>1, <3>6, StreamErrorStep
        <3>7. CASE Drop(c)
            BY <2>1, <3>7, DropStep
        <3>8. QED
            BY <2>5, <3>1, <3>2, <3>3, <3>4, <3>5, <3>6, <3>7
    <2>6. QED
        BY <2>1, <2>2, <2>3, <2>4, <2>5
<1>3. QED
    BY <1>1, <1>2

\* The invariant of the sandbox: what is stored, what each stream is about to do with it
\* and what each client was sent fit together.
THEOREM SandboxSafe == Spec => []SandboxInvariant
<1>1. SandboxInvariant /\ [Next]_vars => SandboxInvariant'
    BY NextFits
<1>2. QED
    BY InitFits, <1>1, PTL DEF Spec

\* The types of the sandbox's state hold in every behaviour.
THEOREM SandboxTypeCorrect == Spec => []TypeOK
<1>1. SandboxInvariant => TypeOK
    BY DEF SandboxInvariant
<1>2. QED
    BY SandboxSafe, <1>1, PTL

\* handleCreate's "already executing": at most one stored run is RUNNING, even after the
\* end of a run overwrote what others stored meanwhile.
THEOREM OneRunExecutes == Spec => []OneRunning
<1>1. SandboxInvariant => OneRunning
    <2> SUFFICES ASSUME SandboxInvariant PROVE Cardinality(Running(sandbox)) <= 1
        BY DEF OneRunning
    <2>1. \A i, j \in Running(sandbox) : i = j
        BY DEF SandboxInvariant, Valid
    <2>2. CASE Running(sandbox) = {}
        <3>1. Cardinality(Running(sandbox)) = 0
            BY <2>2, FS_EmptySet
        <3>2. QED
            BY <3>1
    <2>3. CASE Running(sandbox) # {}
        <3>1. PICK i \in Running(sandbox) : TRUE
            BY <2>3
        <3>2. Running(sandbox) = {i}
            BY <2>1, <3>1
        <3>3. Cardinality({i}) = 1
            BY FS_Singleton
        <3>4. QED
            BY <3>2, <3>3
    <2>4. QED
        BY <2>2, <2>3
<1>2. QED
    BY SandboxSafe, <1>1, PTL

\* streamRun and sendAvailable: a run has its events once each and in order, and so has
\* every client, from its cursor on, whatever streams end or fail.
THEOREM EventsAreOnce == Spec => []EachEventOnce
<1>1. SandboxInvariant => EachEventOnce
    <2> SUFFICES ASSUME SandboxInvariant, ~overwritten
                 PROVE  /\ \A i \in Stored(sandbox) :
                              LET events == sandbox.runs[i].events IN events = Counting(Len(events))
                        /\ \A c \in Streams : client[c].events =
                              [k \in DOMAIN client[c].events |-> client[c].after + k]
        BY DEF EachEventOnce
    <2>1. TypeOK /\ Fits
        BY DEF SandboxInvariant
    <2>2. ASSUME NEW i \in Stored(sandbox)
          PROVE  sandbox.runs[i].events = Counting(Len(sandbox.runs[i].events))
        <3>1. sandbox.runs[i].events = CountFrom(0, Len(sandbox.runs[i].events))
            BY <2>1 DEF Fits, RunsFit, RunFits
        <3>2. ASSUME NEW n \in Nat PROVE CountFrom(0, n) = Counting(n)
            BY DEF CountFrom, Counting
        <3>3. Len(sandbox.runs[i].events) \in Nat
            BY <2>1, StoredEvents
        <3>4. QED
            BY <3>1, <3>2, <3>3
    <2>3. ASSUME NEW c \in Streams
          PROVE  client[c].events = [k \in DOMAIN client[c].events |-> client[c].after + k]
        <3> DEFINE n == Len(client[c].events)
        <3>1. client[c].events = CountFrom(client[c].after, n)
            BY <2>1 DEF Fits, ClientFits
        <3>2. n \in Nat /\ client[c].after \in Nat
            BY <2>1, StreamTypes
        <3>3. DOMAIN client[c].events = 1..n
            BY <3>1, <3>2, CountFromSeq
        <3> HIDE DEF n
        <3>4. client[c].events = [k \in 1..n |-> client[c].after + k]
            BY <3>1 DEF CountFrom
        <3>5. QED
            BY <3>3, <3>4
    <2>4. QED
        BY <2>2, <2>3
<1>2. QED
    BY SandboxSafe, <1>1, PTL

\* A client that is told COMPLETED has every event behind its cursor.
THEOREM CompletedStreamsAreWhole == Spec => []CompletedIsWhole
<1>1. SandboxInvariant => CompletedIsWhole
    BY DEF SandboxInvariant, CompletedIsWhole, Fits, ClientFits, Seen
<1>2. QED
    BY SandboxSafe, <1>1, PTL

\* The limit of handleCreate holds for the runs a session created inside the window,
\* those it reset since included.
THEOREM SessionsAreLimited == Spec => []RateLimited
<1>1. SandboxInvariant => RateLimited
    BY DEF SandboxInvariant, RateLimited, Fits, AttemptsFit
<1>2. QED
    BY SandboxSafe, <1>1, PTL

\* Idempotency: two stored runs are never those of one session under one key.
THEOREM KeysNameOneRun == Spec => []OneRunPerKey
<1>1. SandboxInvariant => OneRunPerKey
    <2> SUFFICES ASSUME SandboxInvariant, NEW i \in Stored(sandbox), NEW j \in Stored(sandbox),
                        sandbox.runs[i].session = sandbox.runs[j].session,
                        sandbox.runs[i].key = sandbox.runs[j].key
                 PROVE  i = j
        BY DEF OneRunPerKey
    <2>1. /\ sandbox.idempotency[<<sandbox.runs[i].session, sandbox.runs[i].key>>] = i
          /\ sandbox.idempotency[<<sandbox.runs[j].session, sandbox.runs[j].key>>] = j
        BY DEF SandboxInvariant, Valid
    <2>2. QED
        BY <2>1
<1>2. QED
    BY SandboxSafe, <1>1, PTL

\* A run that handleReset or trimState removed does not return, although its executor may
\* still write.
THEOREM RemovedRunsStayGone == Spec => GoneStaysGone
<1>1. SandboxInvariant /\ [Next]_vars =>
          [\A i \in 1..created : i \notin Stored(sandbox) /\ ~overwritten' =>
               i \notin Stored(sandbox')]_vars
    BY NextFits DEF NoReturn
<1>2. QED
    BY SandboxSafe, <1>1, PTL DEF Spec, GoneStaysGone

==============================================================================
