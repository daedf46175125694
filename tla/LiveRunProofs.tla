--------------------------- MODULE LiveRunProofs ---------------------------
(***************************************************************************)
(* Proofs about LiveRun, for every catalog, any set of assets, fields and  *)
(* rows, any evidence and any call that raises; and about the function     *)
(* Replay of IncidentState, which LiveRun applies to its stream.           *)
(***************************************************************************)
EXTENDS LiveRun, FiniteSetTheorems, WellFoundedInduction, TLAPS

-----------------------------------------------------------------------------
(* What Replay computes.  Replay is a recursive function over the stream,  *)
(* so each fact about it is an induction over the length: the set of the   *)
(* lengths for which the fact holds contains 0 and is closed under         *)
(* successor (NatInd, from the well-founded order of the naturals).        *)

\* A nonempty set of naturals has a least element.
LEMMA Least ==
    ASSUME NEW S \in SUBSET Nat, S # {}
    PROVE  \E n \in S : \A m \in S : n <= m
<1> DEFINE R == OpToRel(<, Nat)
<1>1. \A m, n \in Nat : <<m, n>> \in R <=> m < n
    BY DEF OpToRel
<1>2. IsWellFoundedOn(R, Nat)
    BY NatLessThanWellFounded
<1> HIDE DEF R
<1>3. PICK x \in S : \A y \in S : ~ (<<y, x>> \in R)
    BY <1>2, WFMin
<1>4. ASSUME NEW y \in S PROVE x <= y
    <2>1. x \in Nat /\ y \in Nat
        OBVIOUS
    <2>2. ~(<<y, x>> \in R)
        BY <1>3
    <2>3. ~(y < x)
        BY <1>1, <2>1, <2>2
    <2>4. QED
        BY <2>1, <2>3
<1>5. QED
    BY <1>4

\* Induction over the naturals, for a set in place of a predicate.
LEMMA NatInd ==
    ASSUME NEW S, 0 \in S, \A n \in Nat : n \in S => n + 1 \in S
    PROVE  Nat \subseteq S
<1>1. SUFFICES ASSUME Nat \ S # {} PROVE FALSE
    OBVIOUS
<1>2. PICK n \in Nat \ S : \A m \in Nat \ S : n <= m
    BY <1>1, Least
<1>3. n # 0 /\ n - 1 \in Nat
    BY <1>2
<1>4. n - 1 \in S
    BY <1>2, <1>3
<1>5. QED
    BY <1>2, <1>3, <1>4

-----------------------------------------------------------------------------
\* f is the recursive function that Replay(s) chooses: the states that replay_state
\* passes through.
IsRun(s, f) == f = [n \in 0 .. Len(s) |->
                       IF n = 0 THEN HEALTHY ELSE ReplayEvent(f[n - 1], s[n])]

\* The recursive function is the choice of one that satisfies its equation.
LEMMA ReplayIsChosen ==
    ASSUME NEW s
    PROVE  Replay(s) = (CHOOSE f : IsRun(s, f))[Len(s)]
BY DEF Replay, IsRun

\* There is one, by induction over the events that are replayed.
LEMMA RunExists ==
    ASSUME NEW T, NEW s \in Seq(T)
    PROVE  \E f : IsRun(s, f)
<1> DEFINE G(f, n) == f = [k \in 0 .. n |-> IF k = 0 THEN HEALTHY ELSE ReplayEvent(f[k - 1], s[k])]
           S == {n \in Nat : \E f : G(f, n)}
<1>1. 0 \in S
    <2>1. G([k \in 0 .. 0 |-> HEALTHY], 0)
        OBVIOUS
    <2>2. QED
        BY <2>1
<1>2. ASSUME NEW n \in Nat, n \in S PROVE n + 1 \in S
    <2>1. PICK f : G(f, n)
        BY <1>2
    <2> DEFINE g == [k \in 0 .. n + 1 |-> IF k = n + 1 THEN ReplayEvent(f[n], s[n + 1]) ELSE f[k]]
    <2>2. \A k \in 0 .. n + 1 : g[k] = IF k = 0 THEN HEALTHY ELSE ReplayEvent(g[k - 1], s[k])
        <3>1. ASSUME NEW k \in 0 .. n + 1, k # n + 1
              PROVE  g[k] = IF k = 0 THEN HEALTHY ELSE ReplayEvent(g[k - 1], s[k])
            <4>1. k \in 0 .. n /\ (k # 0 => k - 1 \in 0 .. n + 1 /\ k - 1 # n + 1)
                BY <3>1
            <4>2. f[k] = IF k = 0 THEN HEALTHY ELSE ReplayEvent(f[k - 1], s[k])
                BY <2>1, <4>1
            <4>3. g[k] = f[k] /\ (k # 0 => g[k - 1] = f[k - 1])
                BY <3>1, <4>1
            <4>4. QED
                BY <4>2, <4>3
        <3>2. n + 1 # 0 /\ n + 1 - 1 = n /\ g[n] = f[n] /\ g[n + 1] = ReplayEvent(f[n], s[n + 1])
            OBVIOUS
        <3>3. QED
            BY <3>1, <3>2
    <2>3. G(g, n + 1)
        BY <2>2
    <2> HIDE DEF g, G
    <2>4. QED
        BY <2>3
<1>3. Len(s) \in S
    <2> HIDE DEF S
    <2>1. Len(s) \in Nat
        OBVIOUS
    <2>2. QED
        BY <1>1, <1>2, <2>1, NatInd
<1>4. QED
    BY <1>3 DEF IsRun

\* So Replay(s) is the last state of a run over s.
LEMMA ReplayIsRun ==
    ASSUME NEW T, NEW s \in Seq(T)
    PROVE  \E f : IsRun(s, f) /\ Replay(s) = f[Len(s)]
<1> DEFINE f == CHOOSE g : IsRun(s, g)
<1>1. IsRun(s, f)
    BY RunExists
<1>2. Replay(s) = f[Len(s)]
    BY ReplayIsChosen
<1> HIDE DEF f
<1>3. QED
    BY <1>1, <1>2

\* replay_state takes one event after the other: the replay of a longer stream is one
\* more iteration on the replay of the shorter.
LEMMA ReplayAppend ==
    ASSUME NEW T, NEW s \in Seq(T), NEW e \in T
    PROVE  /\ Replay(<<>>) = HEALTHY
           /\ Replay(Append(s, e)) = ReplayEvent(Replay(s), e)
<1> DEFINE t == Append(s, e)
<1>1. /\ t \in Seq(T) /\ Len(t) = Len(s) + 1 /\ Len(s) \in Nat
      /\ \A k \in 1 .. Len(s) : t[k] = s[k]
      /\ t[Len(s) + 1] = e
    OBVIOUS
<1>2. PICK f : IsRun(s, f) /\ Replay(s) = f[Len(s)]
    BY ReplayIsRun
<1> HIDE DEF t
<1>3. PICK g : IsRun(t, g) /\ Replay(t) = g[Len(t)]
    BY <1>1, ReplayIsRun
<1>4. \A k \in 0 .. Len(s) : f[k] = IF k = 0 THEN HEALTHY ELSE ReplayEvent(f[k - 1], s[k])
    BY <1>2 DEF IsRun
<1>5. \A k \in 0 .. Len(s) + 1 : g[k] = IF k = 0 THEN HEALTHY ELSE ReplayEvent(g[k - 1], t[k])
    BY <1>1, <1>3 DEF IsRun
<1> DEFINE S == {n \in Nat : n <= Len(s) => f[n] = g[n]}
<1>6. 0 \in S
    BY <1>1, <1>4, <1>5
<1>7. ASSUME NEW n \in Nat, n \in S PROVE n + 1 \in S
    <2>1. CASE n + 1 <= Len(s)
        <3>1. n + 1 \in 0 .. Len(s) /\ n + 1 \in 0 .. Len(s) + 1 /\ n + 1 # 0 /\ n + 1 - 1 = n
            BY <1>1, <2>1
        <3>2. f[n + 1] = ReplayEvent(f[n], s[n + 1]) /\ g[n + 1] = ReplayEvent(g[n], t[n + 1])
            BY <1>4, <1>5, <3>1
        <3>3. t[n + 1] = s[n + 1] /\ f[n] = g[n]
            BY <1>1, <1>7, <2>1
        <3>4. QED
            BY <3>2, <3>3
    <2>2. CASE ~(n + 1 <= Len(s))
        BY <2>2
    <2>3. QED
        BY <2>1, <2>2
<1>8. Len(s) \in S
    <2> HIDE DEF S
    <2>1. QED
        BY <1>1, <1>6, <1>7, NatInd
<1>9. f[Len(s)] = g[Len(s)]
    BY <1>1, <1>8
<1>10. g[Len(t)] = ReplayEvent(g[Len(s)], e)
    <2>1. Len(t) \in 0 .. Len(s) + 1 /\ Len(t) # 0 /\ Len(t) - 1 = Len(s) /\ t[Len(t)] = e
        BY <1>1
    <2>2. QED
        BY <1>5, <2>1
<1>11. Replay(<<>>) = HEALTHY
    <2>1. <<>> \in Seq(T) /\ Len(<<>>) = 0
        OBVIOUS
    <2>2. PICK h : IsRun(<<>>, h) /\ Replay(<<>>) = h[Len(<<>>)]
        BY <2>1, ReplayIsRun
    <2>3. QED
        BY <2>1, <2>2 DEF IsRun
<1>12. QED
    BY <1>2, <1>3, <1>9, <1>10, <1>11 DEF t

\* The transitions go between states of the lifecycle, and HEALTHY is one.
LEMMA LegalStates ==
    /\ HEALTHY \in IncidentStates
    /\ \A a, b : <<a, b>> \in ALLOWED_TRANSITIONS =>
          a # Invalid /\ a \in IncidentStates /\ b \in IncidentStates
<1>1. \A a, b : <<a, b>> \in ALLOWED_TRANSITIONS => a # Invalid
    BY DEF ALLOWED_TRANSITIONS, HEALTHY, Invalid
<1>2. \A a, b : <<a, b>> \in ALLOWED_TRANSITIONS => a \in IncidentStates /\ b \in IncidentStates
    BY DEF IncidentStates
<1>3. <<HEALTHY, "DETECTED">> \in ALLOWED_TRANSITIONS
    BY DEF ALLOWED_TRANSITIONS
<1>4. QED
    BY <1>1, <1>2, <1>3

\* What replay_state returns is a state of the lifecycle, or it raised; and once it raises
\* on a stream it raises on every longer one: no event mends a stream that was rejected.
THEOREM ReplayRejectsForGood ==
    ASSUME NEW T, NEW s \in Seq(T), NEW e \in T
    PROVE  /\ Replay(s) \in IncidentStates \cup {Invalid}
           /\ Replay(s) = Invalid => Replay(Append(s, e)) = Invalid
<1>1. \A a, b : <<a, b>> \in ALLOWED_TRANSITIONS =>
          a # Invalid /\ a \in IncidentStates /\ b \in IncidentStates
    BY LegalStates
<1>2. HEALTHY \in IncidentStates
    BY LegalStates
<1>3. PICK f : IsRun(s, f) /\ Replay(s) = f[Len(s)]
    BY ReplayIsRun
<1>4. Len(s) \in Nat /\ \A k \in 0 .. Len(s) : f[k] = IF k = 0 THEN HEALTHY ELSE ReplayEvent(f[k - 1], s[k])
    <2>1. Len(s) \in Nat
        OBVIOUS
    <2>2. \A k \in 0 .. Len(s) : f[k] = IF k = 0 THEN HEALTHY ELSE ReplayEvent(f[k - 1], s[k])
        BY <1>3 DEF IsRun
    <2>3. QED
        BY <2>1, <2>2
<1> DEFINE S == {n \in Nat : n <= Len(s) => f[n] \in IncidentStates \cup {Invalid}}
<1>5. 0 \in S
    BY <1>2, <1>4
<1>6. ASSUME NEW n \in Nat, n \in S PROVE n + 1 \in S
    <2>1. SUFFICES ASSUME n + 1 <= Len(s) PROVE f[n + 1] \in IncidentStates \cup {Invalid}
        OBVIOUS
    <2>2. n + 1 \in 0 .. Len(s) /\ n + 1 # 0 /\ n + 1 - 1 = n /\ n <= Len(s)
        BY <1>4, <2>1
    <2>3. f[n] \in IncidentStates \cup {Invalid} /\ f[n + 1] = ReplayEvent(f[n], s[n + 1])
        BY <1>4, <1>6, <2>2
    <2>4. QED
        BY <1>1, <2>3 DEF ReplayEvent
<1>7. Replay(s) \in IncidentStates \cup {Invalid}
    <2> HIDE DEF S
    <2>1. Len(s) \in S
        BY <1>4, <1>5, <1>6, NatInd
    <2>2. QED
        BY <1>3, <1>4, <2>1 DEF S
<1>8. Replay(s) = Invalid => Replay(Append(s, e)) = Invalid
    BY <1>1, ReplayAppend DEF ReplayEvent
<1>9. QED
    BY <1>7, <1>8

-----------------------------------------------------------------------------
(* Sequences and the loops over them                                       *)

\* A sequence after an append: its length, its elements and its range
LEMMA AppendProperties ==
    ASSUME NEW s, s \in Seq(Range(s)), NEW e, NEW t, t = Append(s, e)
    PROVE  /\ t \in Seq(Range(t))
           /\ Range(t) = Range(s) \cup {e}
           /\ DOMAIN t = 1 .. Len(s) + 1 /\ Len(s) \in Nat
           /\ \A n \in 1 .. Len(s) : t[n] = s[n]
           /\ t[Len(s) + 1] = e
           /\ Replay(t) = ReplayEvent(Replay(s), e)
<1> DEFINE T == Range(s) \cup {e}
<1>1. s \in Seq(T) /\ e \in T
    OBVIOUS
<1> HIDE DEF T
<1>2. t \in Seq(T) /\ Len(t) = Len(s) + 1 /\ DOMAIN t = 1 .. Len(s) + 1 /\ Len(s) \in Nat
    BY <1>1
<1>3. /\ \A n \in 1 .. Len(s) : t[n] = s[n]
      /\ t[Len(s) + 1] = e
    BY <1>1
<1>4. Range(t) = Range(s) \cup {e}
    <2>1. DOMAIN s = 1 .. Len(s)
        BY <1>1
    <2>2. \A x : x \in Range(s) => x \in Range(t)
        BY <1>2, <1>3, <2>1 DEF Range
    <2>3. e \in Range(t)
        BY <1>2, <1>3 DEF Range
    <2>4. \A x \in Range(t) : x \in Range(s) \cup {e}
        <3>1. TAKE x \in Range(t)
        <3>2. PICK n \in 1 .. Len(s) + 1 : x = t[n]
            BY <1>2 DEF Range
        <3>3. QED
            BY <1>2, <1>3, <2>1, <3>2 DEF Range
    <2>5. QED
        BY <2>2, <2>3, <2>4
<1>5. t \in Seq(Range(t))
    BY <1>2, <1>4 DEF T
<1>6. Replay(t) = ReplayEvent(Replay(s), e)
    BY <1>1, ReplayAppend
<1>7. QED
    BY <1>2, <1>3, <1>4, <1>5, <1>6

\* The head and the rest of a loop's sequence
LEMMA LoopProperties ==
    ASSUME NEW T, NEW s \in Seq(T), s # <<>>
    PROVE  /\ Head(s) \in T /\ Tail(s) \in Seq(T)
           /\ Range(s) = {Head(s)} \cup Range(Tail(s))
<1>1. Head(s) \in T /\ Tail(s) \in Seq(T) /\ Head(s) = s[1]
    OBVIOUS
<1>2. Len(s) \in Nat /\ Len(s) >= 1 /\ DOMAIN s = 1 .. Len(s) /\ DOMAIN Tail(s) = 1 .. Len(s) - 1
    OBVIOUS
<1>3. \A n \in 1 .. Len(s) - 1 : Tail(s)[n] = s[n + 1]
    OBVIOUS
<1>4. \A x \in Range(s) : x = Head(s) \/ x \in Range(Tail(s))
    <2>1. TAKE x \in Range(s)
    <2>2. PICK n \in 1 .. Len(s) : x = s[n]
        BY <1>2 DEF Range
    <2>3. CASE n = 1
        BY <1>1, <2>2, <2>3
    <2>4. CASE n # 1
        <3>1. n - 1 \in 1 .. Len(s) - 1 /\ n - 1 + 1 = n
            BY <1>2, <2>4
        <3>2. QED
            BY <1>2, <1>3, <2>2, <3>1 DEF Range
    <2>5. QED
        BY <2>3, <2>4
<1>5. Head(s) \in Range(s) /\ \A x \in Range(Tail(s)) : x \in Range(s)
    <2>1. Head(s) \in Range(s)
        BY <1>1, <1>2 DEF Range
    <2>2. ASSUME NEW x \in Range(Tail(s)) PROVE x \in Range(s)
        <3>1. PICK n \in 1 .. Len(s) - 1 : x = Tail(s)[n]
            BY <1>2 DEF Range
        <3>2. n + 1 \in 1 .. Len(s) /\ x = s[n + 1]
            BY <1>2, <1>3, <3>1
        <3>3. QED
            BY <1>2, <3>2 DEF Range
    <2>3. QED
        BY <2>1, <2>2
<1>6. QED
    BY <1>1, <1>4, <1>5

-----------------------------------------------------------------------------
(* The types, and what the loops go over.                                  *)

AssetLoop == pc \in {"decide", "tag", "control", "applied"} => left \in Seq(Assets)
HypothesisLoop == pc \in {"propose", "resolve"} => left \in Seq(Range(Hypotheses))
HitsApart == pc = "trace" => pending \cap (Range(affected) \cup Range(unaffected)) = {}
StreamIsSeq == stream \in Seq(Range(stream))

TypeInv ==
    /\ TypeOK
    /\ catalog \in Catalogs
    /\ AssetLoop /\ HypothesisLoop /\ HitsApart /\ StreamIsSeq

\* What a step does to the impact: three actions change it, and no other step changes
\* the catalog, or enters or leaves the trace of the lineage but for MapImpact and the
\* end of the run.
LEMMA ImpactFrame ==
    ASSUME [Next]_vars
    PROVE  \/ ReadDownstream
           \/ TraceHit
           \/ \E d \in Assets : Ingest(d)
           \/ /\ UNCHANGED <<catalog, lineage, pending, tainted, affected, unaffected>>
              /\ pc' = "trace" => pc = "trace"
<1>1. CASE UNCHANGED vars
    BY <1>1 DEF vars
<1>2. CASE Raise
    BY <1>2 DEF Raise, input, impact, work, datahub
<1>3. CASE Detect \/ Escalate \/ Create \/ IncidentWritten \/ CreateBundle \/ LogWritten
           \/ RequestApproval \/ BlockReport \/ AllowSafe
    BY <1>3 DEF Detect, Escalate, Create, IncidentWritten, CreateBundle, LogWritten,
                RequestApproval, BlockReport, AllowSafe, Announce, Emit, input, impact
<1>4. CASE Open \/ Close \/ Finish \/ Investigate
    BY <1>4 DEF Open, Close, Finish, Investigate, Advance, Move, Emit, input, impact
<1>5. CASE Propose \/ AskCatalog \/ CheckRows \/ Resolve \/ MapImpact \/ DecideAsset \/ Notify
    BY <1>5 DEF Propose, AskCatalog, CheckRows, Resolve, MapImpact, DecideAsset, Notify,
                EmitNext, Emit, input, impact
<1>6. CASE RaiseIncident \/ WriteLog \/ PassOver \/ TagAsset \/ ControlAsset \/ ControlApplied
    BY <1>6 DEF RaiseIncident, WriteLog, PassOver, TagAsset, ControlAsset, ControlApplied,
                WriteNative, WriteControl, EmitNext, Emit, input, impact
<1>7. QED
    BY <1>1, <1>2, <1>3, <1>4, <1>5, <1>6 DEF Next

\* What a step does to the stream and to the state: nothing; or one event that is not a
\* transition is appended; or a legal transition is, and the state follows unless the
\* append raised.
LEMMA StreamFrame ==
    ASSUME [Next]_vars
    PROVE  \/ UNCHANGED vars
           \/ /\ pc \notin Ended /\ UNCHANGED state
              /\ \/ stream' = stream
                 \/ \E e : e.type # "STATE_TRANSITIONED" /\ stream' = Append(stream, e)
           \/ /\ pc \notin Ended
              /\ \E target : /\ <<state, target>> \in ALLOWED_TRANSITIONS
                             /\ stream' = Append(stream, TransitionEvent(target))
                             /\ state' = IF pc' = "FAILED" THEN state ELSE target
<1>1. CASE UNCHANGED vars
    BY <1>1
<1>2. CASE Raise \/ ReadDownstream \/ TraceHit \/ (\E d \in Assets : Ingest(d))
    BY <1>2 DEF Raise, ReadDownstream, TraceHit, Ingest, Ended
<1>3. CASE Detect \/ Escalate \/ Create \/ IncidentWritten \/ CreateBundle \/ LogWritten
           \/ RequestApproval \/ BlockReport \/ AllowSafe
    <2>1. ASSUME NEW from, NEW type, NEW about, NEW value, NEW next,
                 type # "STATE_TRANSITIONED", from \notin Ended,
                 Announce(from, Event(type, about, value), next)
          PROVE  /\ pc \notin Ended /\ UNCHANGED state
                 /\ \E e : e.type # "STATE_TRANSITIONED" /\ stream' = Append(stream, e)
        <3>1. Event(type, about, value).type = type
            BY DEF Event
        <3>2. QED
            BY <2>1, <3>1 DEF Announce, Emit
    <2>2. QED
        BY <1>3, <2>1 DEF Detect, Escalate, Create, IncidentWritten, CreateBundle, LogWritten,
                RequestApproval, BlockReport, AllowSafe, Ended
<1>4. CASE Open \/ Close \/ Finish \/ Investigate
    BY <1>4 DEF Open, Close, Finish, Investigate, Advance, Move, Emit, Ended
<1>5. CASE Propose \/ AskCatalog \/ CheckRows \/ Resolve \/ MapImpact \/ DecideAsset \/ Notify
           \/ ControlApplied
    <2>1. /\ pc \notin Ended /\ UNCHANGED state
          /\ \E type, about, value, next : /\ type # "STATE_TRANSITIONED"
                                          /\ Emit(Event(type, about, value), next)
        BY <1>5 DEF Propose, AskCatalog, CheckRows, Resolve, MapImpact, DecideAsset, Notify,
                    ControlApplied, EmitNext, Ended
    <2>2. \A type, about, value : Event(type, about, value).type = type
        BY DEF Event
    <2>3. QED
        BY <2>1, <2>2 DEF Emit
<1>6. CASE RaiseIncident \/ WriteLog \/ PassOver \/ TagAsset \/ ControlAsset
    BY <1>6 DEF RaiseIncident, WriteLog, PassOver, TagAsset, ControlAsset,
                WriteNative, WriteControl, datahub, Ended
<1>7. QED
    BY <1>1, <1>2, <1>3, <1>4, <1>5, <1>6 DEF Next

LEMMA TypeInit == ASSUME Init PROVE TypeInv
<1>1. catalog \in Catalogs /\ lineage \subseteq Edges
    BY LiveRunAssumption DEF Init
<1>2. <<>> \in Seq(Assets \cup Range(Hypotheses)) /\ <<>> \in Seq(Assets) /\ Range(<<>>) = {}
    BY DEF Range
<1>3. StreamIsSeq
    BY <1>2 DEF Init, StreamIsSeq
<1>4. evidence \in [catalog: CatalogEvidence \cup {Unavailable}, rows: RowEvidence \cup {Unavailable}]
    BY DEF Init
<1>5. TypeOK
    <2>1. state \in IncidentStates
        BY LegalStates DEF Init
    <2>2. plan \in [Assets -> Rules \cup {NoRule}] /\ control \in [Assets -> Controls]
        BY DEF Init, Controls
    <2>3. pc \in Ended \cup Points /\ native \subseteq {"incident", "log"}
        BY DEF Init, Points
    <2>4. /\ left \in Seq(Assets \cup Range(Hypotheses))
          /\ pending \subseteq Assets /\ tainted \subseteq Fields
          /\ affected \in Seq(Assets) /\ unaffected \in Seq(Assets)
          /\ Range(affected) \cap Range(unaffected) = {}
        BY <1>2 DEF Init
    <2>5. QED
        BY <1>1, <1>4, <2>1, <2>2, <2>3, <2>4 DEF TypeOK
<1>6. QED
    BY <1>1, <1>3, <1>5 DEF Init, TypeInv, AssetLoop, HypothesisLoop, HitsApart

\* The evidence, the lineage and the impact keep their types.
LEMMA ImpactTypes ==
    ASSUME TypeInv, [Next]_vars
    PROVE  /\ catalog' \in Catalogs /\ lineage' \subseteq Edges
           /\ pending' \subseteq Assets /\ tainted' \subseteq Fields
           /\ affected' \in Seq(Assets) /\ unaffected' \in Seq(Assets)
           /\ Range(affected') \cap Range(unaffected') = {}
           /\ HitsApart'
<1> USE DEF TypeInv, TypeOK
<1>1. CASE ReadDownstream
    <2>1. /\ catalog' = catalog /\ lineage' = lineage
          /\ pending' = Downstream /\ tainted' = {DriftedField}
          /\ affected' = <<Source>> /\ unaffected' = <<>>
        BY <1>1 DEF ReadDownstream, input
    <2>2. Source \in Assets /\ DriftedField \in Fields
        BY LiveRunAssumption DEF DriftedField, Fields
    <2>3. Range(<<Source>>) = {Source} /\ Range(<<>>) = {}
        BY DEF Range
    <2>4. Source \notin Downstream
        BY LiveRunAssumption DEF Downstream
    <2>5. <<Source>> \in Seq(Assets) /\ <<>> \in Seq(Assets)
        BY <2>2
    <2>6. Range(affected') = {Source} /\ Range(unaffected') = {}
        BY <2>1, <2>3
    <2>7. HitsApart'
        BY <2>1, <2>4, <2>6 DEF HitsApart
    <2>8. Downstream \subseteq Assets
        BY DEF Downstream
    <2>9. catalog' \in Catalogs /\ lineage' \subseteq Edges /\ pending' \subseteq Assets
        BY <2>1, <2>8
    <2>10. /\ tainted' \subseteq Fields
           /\ affected' \in Seq(Assets) /\ unaffected' \in Seq(Assets)
           /\ Range(affected') \cap Range(unaffected') = {}
        BY <2>1, <2>2, <2>5, <2>6
    <2> HIDE DEF TypeInv, TypeOK
    <2>11. QED
        BY <2>7, <2>9, <2>10
<1>2. CASE TraceHit
    <2>1. PICK hit \in pending :
              /\ pending' = pending \ {hit}
              /\ tainted' = tainted \cup Propagated(hit)
              /\ \/ affected' = Append(affected, hit) /\ unaffected' = unaffected
                 \/ unaffected' = Append(unaffected, hit) /\ affected' = affected
        BY <1>2 DEF TraceHit
    <2>2. pc = "trace" /\ catalog' = catalog /\ lineage' = lineage
        BY <1>2 DEF TraceHit, input
    <2>3. hit \in Assets /\ hit \notin Range(affected) /\ hit \notin Range(unaffected)
        BY <2>2 DEF HitsApart
    <2>4. Propagated(hit) \subseteq Fields
        BY LiveRunAssumption DEF Propagated
    <2>5. /\ Append(affected, hit) \in Seq(Assets) /\ Append(unaffected, hit) \in Seq(Assets)
          /\ affected \in Seq(Range(affected)) /\ unaffected \in Seq(Range(unaffected))
        <3>1. ASSUME NEW s \in Seq(Assets) PROVE s \in Seq(Range(s))
            BY DEF Range
        <3>2. QED
            BY <2>3, <3>1
    <2>6. /\ Range(Append(affected, hit)) = Range(affected) \cup {hit}
          /\ Range(Append(unaffected, hit)) = Range(unaffected) \cup {hit}
        BY <2>5, AppendProperties
    <2>7. /\ pending' \subseteq Assets /\ tainted' \subseteq Fields
          /\ affected' \in Seq(Assets) /\ unaffected' \in Seq(Assets)
        BY <2>1, <2>3, <2>4, <2>5
    <2>8. /\ Range(affected) \cap Range(unaffected) = {}
          /\ pending \cap (Range(affected) \cup Range(unaffected)) = {}
        BY <2>2 DEF HitsApart
    <2>9. \/ /\ Range(affected') = Range(affected) \cup {hit}
             /\ Range(unaffected') = Range(unaffected)
          \/ /\ Range(unaffected') = Range(unaffected) \cup {hit}
             /\ Range(affected') = Range(affected)
        BY <2>1, <2>6
    <2> HIDE DEF TypeInv, TypeOK
    <2>10. Range(affected') \cap Range(unaffected') = {}
        BY <2>3, <2>8, <2>9
    <2>11. HitsApart'
        <3>1. pending' \cap (Range(affected') \cup Range(unaffected')) = {}
            BY <2>1, <2>8, <2>9
        <3>2. QED
            BY <3>1 DEF HitsApart
    <2>12. catalog' \in Catalogs /\ lineage' \subseteq Edges
        BY <2>2 DEF TypeInv, TypeOK
    <2>13. QED
        BY <2>7, <2>10, <2>11, <2>12
<1>3. CASE \E d \in Assets : Ingest(d)
    <2>1. lineage' \subseteq Edges
        BY <1>3 DEF Ingest
    <2>2. UNCHANGED <<catalog, pc, pending, tainted, affected, unaffected>>
        BY <1>3 DEF Ingest, impact
    <2>3. QED
        BY <2>1, <2>2 DEF HitsApart
<1>4. CASE /\ UNCHANGED <<catalog, lineage, pending, tainted, affected, unaffected>>
           /\ pc' = "trace" => pc = "trace"
    BY <1>4 DEF HitsApart
<1>5. QED
    BY <1>1, <1>2, <1>3, <1>4, ImpactFrame

\* The assets that build_policy_contexts names
LEMMA ContextsProperties ==
    ASSUME TypeInv
    PROVE  /\ Contexts \in Seq(Assets)
           /\ Range(Contexts) = Range(affected) \cup Range(unaffected) \cup {Batch}
<1> DEFINE hits == affected \o unaffected
<1>1. /\ affected \in Seq(Assets) /\ unaffected \in Seq(Assets) /\ Batch \in Assets
    BY LiveRunAssumption DEF TypeInv, TypeOK
<1>2. hits \in Seq(Assets)
    BY <1>1
<1>3. Range(hits) = Range(affected) \cup Range(unaffected)
    <2>1. /\ Len(affected) \in Nat /\ Len(unaffected) \in Nat
          /\ DOMAIN affected = 1 .. Len(affected) /\ DOMAIN unaffected = 1 .. Len(unaffected)
          /\ DOMAIN hits = 1 .. Len(affected) + Len(unaffected)
          /\ \A n \in 1 .. Len(affected) : hits[n] = affected[n]
          /\ \A n \in 1 .. Len(unaffected) : hits[Len(affected) + n] = unaffected[n]
        BY <1>1
    <2> HIDE DEF hits
    <2>2. ASSUME NEW x \in Range(hits) PROVE x \in Range(affected) \cup Range(unaffected)
        <3>1. PICK n \in 1 .. Len(affected) + Len(unaffected) : x = hits[n]
            BY <2>1 DEF Range
        <3>2. CASE n <= Len(affected)
            BY <2>1, <3>1, <3>2 DEF Range
        <3>3. CASE ~(n <= Len(affected))
            <4>1. n - Len(affected) \in 1 .. Len(unaffected) /\ Len(affected) + (n - Len(affected)) = n
                BY <2>1, <3>3
            <4>2. QED
                BY <2>1, <3>1, <4>1 DEF Range
        <3>4. QED
            BY <3>2, <3>3
    <2>3. ASSUME NEW x \in Range(affected) PROVE x \in Range(hits)
        BY <2>1 DEF Range
    <2>4. ASSUME NEW x \in Range(unaffected) PROVE x \in Range(hits)
        <3>1. PICK n \in 1 .. Len(unaffected) : x = unaffected[n]
            BY <2>1 DEF Range
        <3>2. Len(affected) + n \in 1 .. Len(affected) + Len(unaffected) /\ x = hits[Len(affected) + n]
            BY <2>1, <3>1
        <3>3. QED
            BY <2>1, <3>2 DEF Range
    <2>5. QED
        BY <2>2, <2>3, <2>4
<1>4. Contexts = IF Batch \in Range(hits) THEN hits ELSE Append(hits, Batch)
    BY DEF Contexts
<1> HIDE DEF hits
<1>5. Append(hits, Batch) \in Seq(Assets) /\ hits \in Seq(Range(hits))
    BY <1>1, <1>2 DEF Range
<1>6. Range(Append(hits, Batch)) = Range(hits) \cup {Batch}
    BY <1>5, AppendProperties
<1>7. QED
    BY <1>2, <1>3, <1>4, <1>5, <1>6


LEMMA HypothesesAre == Range(Hypotheses) = {"H1", "H2", "H3"}
<1>1. Hypotheses = <<"H1", "H2", "H3">>
    BY DEF Hypotheses
<1>2. DOMAIN Hypotheses = {1, 2, 3}
    BY <1>1
<1>3. Hypotheses[1] = "H1" /\ Hypotheses[2] = "H2" /\ Hypotheses[3] = "H3"
    BY <1>1
<1>4. QED
    BY <1>2, <1>3 DEF Range

\* The loops keep going over what they started with.
LEMMA LoopTypes ==
    ASSUME TypeInv, [Next]_vars
    PROVE  /\ left' \in Seq(Assets \cup Range(Hypotheses))
           /\ AssetLoop' /\ HypothesisLoop'
<1> DEFINE T == Assets \cup Range(Hypotheses)
<1>1. left \in Seq(T)
    BY DEF TypeInv, TypeOK
<1>2. Hypotheses \in Seq(Range(Hypotheses)) /\ Hypotheses \in Seq(T)
    <2>1. Range(Hypotheses) = {"H1", "H2", "H3"}
        BY HypothesesAre
    <2>2. \A S : {"H1", "H2", "H3"} \subseteq S => <<"H1", "H2", "H3">> \in Seq(S)
        OBVIOUS
    <2>3. QED
        BY <2>1, <2>2 DEF Hypotheses
<1>3. Contexts \in Seq(Assets) /\ Contexts \in Seq(T)
    BY ContextsProperties
<1>4. left # <<>> => /\ Tail(left) \in Seq(T)
                     /\ left \in Seq(Assets) => Tail(left) \in Seq(Assets)
                     /\ left \in Seq(Range(Hypotheses)) => Tail(left) \in Seq(Range(Hypotheses))
    BY <1>1, LoopProperties
<1>5. AssetLoop /\ HypothesisLoop
    BY DEF TypeInv
<1> HIDE DEF T
<1>6. CASE UNCHANGED vars
    BY <1>1, <1>5, <1>6 DEF vars, AssetLoop, HypothesisLoop, T
<1>7. CASE Raise \/ ReadDownstream \/ TraceHit \/ \E d \in Assets : Ingest(d)
    BY <1>1, <1>5, <1>7 DEF Raise, ReadDownstream, TraceHit, Ingest, work, AssetLoop, HypothesisLoop, T
<1>8. CASE Detect \/ Escalate \/ Create \/ IncidentWritten \/ CreateBundle \/ LogWritten
           \/ RequestApproval \/ BlockReport \/ AllowSafe
    BY <1>1, <1>8 DEF Detect, Escalate, Create, IncidentWritten, CreateBundle, LogWritten,
                RequestApproval, BlockReport, AllowSafe, Announce, Emit, work, AssetLoop, HypothesisLoop, T
<1>9. CASE Open \/ Close \/ Finish \/ AskCatalog \/ RaiseIncident \/ WriteLog
    BY <1>1, <1>9 DEF Open, Close, Finish, AskCatalog, RaiseIncident, WriteLog, Advance, Move,
                WriteNative, Emit, work, AssetLoop, HypothesisLoop, T
<1>10. CASE Investigate \/ CheckRows
    <2>1. left' = Hypotheses /\ pc' \in {"propose", "resolve", "FAILED"}
        BY <1>10 DEF Investigate, CheckRows, Move, Emit
    <2>2. QED
        BY <1>2, <2>1 DEF AssetLoop, HypothesisLoop, T
<1>11. CASE MapImpact \/ Notify
    <2>1. left' = Contexts /\ pc' \in {"decide", "tag", "FAILED"}
        BY <1>11 DEF MapImpact, Notify, Emit
    <2>2. QED
        BY <1>3, <2>1 DEF AssetLoop, HypothesisLoop, T
<1>12. CASE Propose \/ Resolve
    <2>1. left # <<>> /\ left' = Tail(left) /\ pc \in {"propose", "resolve"}
          /\ pc' \in {"propose", "resolve", "investigate", "lineage", "FAILED"}
        BY <1>12 DEF Propose, Resolve, EmitNext, Emit
    <2>2. QED
        BY <1>4, <1>5, <2>1 DEF AssetLoop, HypothesisLoop, T
<1>13. CASE DecideAsset \/ ControlApplied \/ PassOver
    <2>1. left # <<>> /\ left' = Tail(left) /\ pc \in {"decide", "tag", "applied"}
          /\ pc' \in {"decide", "tag", "raise", "FAILED"}
        BY <1>13 DEF DecideAsset, ControlApplied, PassOver, EmitNext, Emit
    <2>2. QED
        BY <1>4, <1>5, <2>1 DEF AssetLoop, HypothesisLoop, T
<1>14. CASE TagAsset \/ ControlAsset
    <2>1. left' = left /\ pc \in {"tag", "control"} /\ pc' \in {"control", "applied"}
        BY <1>14 DEF TagAsset, ControlAsset, WriteControl, work
    <2>2. QED
        BY <1>1, <1>5, <2>1 DEF AssetLoop, HypothesisLoop, T
<1>15. QED
    BY <1>6, <1>7, <1>8, <1>9, <1>10, <1>11, <1>12, <1>13, <1>14 DEF Next

\* The evidence, the plan, what is in DataHub and the state keep their types.
LEMMA RecordTypes ==
    ASSUME TypeInv, [Next]_vars
    PROVE  /\ evidence' \in [catalog: CatalogEvidence \cup {Unavailable},
                             rows: RowEvidence \cup {Unavailable}]
           /\ plan' \in [Assets -> Rules \cup {NoRule}]
           /\ native' \subseteq {"incident", "log"}
           /\ control' \in [Assets -> Controls]
           /\ state' \in IncidentStates
           /\ pc' \in Ended \cup Points
<1>1. TypeOK
    BY DEF TypeInv
<1>2. ASSUME NEW target, NEW next, Move(target, next) PROVE state' \in IncidentStates
    BY <1>1, <1>2, LegalStates DEF Move, TypeOK
<1>3. CASE UNCHANGED vars
    BY <1>1, <1>3 DEF vars, TypeOK
<1>4. CASE Raise \/ ReadDownstream \/ TraceHit \/ \E d \in Assets : Ingest(d)
    BY <1>1, <1>4 DEF Raise, ReadDownstream, TraceHit, Ingest, work, datahub, TypeOK, Points, Ended
<1>5. CASE Detect \/ Escalate \/ Create \/ IncidentWritten \/ CreateBundle \/ LogWritten
           \/ RequestApproval \/ BlockReport \/ AllowSafe
    BY <1>1, <1>5 DEF Detect, Escalate, Create, IncidentWritten, CreateBundle, LogWritten,
                RequestApproval, BlockReport, AllowSafe, Announce, Emit, work, datahub, TypeOK,
                Points, Ended
<1>6. CASE Open \/ Close \/ Finish \/ Investigate
    <2>1. state' \in IncidentStates
        BY <1>2, <1>6 DEF Open, Close, Finish, Investigate, Advance
    <2>2. QED
        BY <1>1, <1>6, <2>1 DEF Open, Close, Finish, Investigate, Advance, Move, Emit, work,
                datahub, TypeOK, Points, Ended
<1>7. CASE Propose \/ Resolve \/ MapImpact \/ Notify \/ ControlApplied \/ PassOver
    BY <1>1, <1>7 DEF Propose, Resolve, MapImpact, Notify, ControlApplied, PassOver, EmitNext,
                Emit, datahub, TypeOK, Points, Ended
<1>8. CASE AskCatalog
    <2>1. PICK found \in CatalogEvidence \cup {Unavailable} :
              evidence' = [evidence EXCEPT !.catalog = found]
        BY <1>8 DEF AskCatalog
    <2>2. UNCHANGED <<plan, native, control, state>> /\ pc' \in {"check", "FAILED"}
        BY <1>8 DEF AskCatalog, Emit, datahub
    <2>3. QED
        BY <1>1, <2>1, <2>2 DEF TypeOK, Points, Ended
<1>9. CASE CheckRows
    <2>1. PICK found \in RowEvidence \cup {Unavailable} :
              evidence' = [evidence EXCEPT !.rows = found]
        BY <1>9 DEF CheckRows
    <2>2. UNCHANGED <<plan, native, control, state>> /\ pc' \in {"resolve", "FAILED"}
        BY <1>9 DEF CheckRows, Emit, datahub
    <2>3. QED
        BY <1>1, <2>1, <2>2 DEF TypeOK, Points, Ended
<1>10. CASE DecideAsset
    <2>1. PICK rule \in Rules : plan' = [plan EXCEPT ![Head(left)] = rule]
        <3>1. IsAffected(Head(left)) => AffectedRoles[catalog.role[Head(left)]] \in Rules
            <4>1. IsAffected(Head(left)) => catalog.role[Head(left)] \in DOMAIN AffectedRoles
                BY <1>10 DEF DecideAsset
            <4>2. QED
                BY <4>1 DEF Rules, Range
        <3>2. UnaffectedRule \in Rules
            BY DEF Rules
        <3>3. QED
            BY <1>10, <3>1, <3>2 DEF DecideAsset
    <2>2. UNCHANGED <<evidence, native, control, state>> /\ pc' \in {"decide", "raise", "FAILED"}
        BY <1>10 DEF DecideAsset, EmitNext, Emit, datahub
    <2>3. QED
        BY <1>1, <2>1, <2>2 DEF TypeOK, Points, Ended
<1>11. CASE RaiseIncident \/ WriteLog \/ TagAsset \/ ControlAsset
    BY <1>1, <1>11 DEF RaiseIncident, WriteLog, TagAsset, ControlAsset, WriteNative, WriteControl,
                work, TypeOK, Controls, Points, Ended
<1>12. QED
    BY <1>3, <1>4, <1>5, <1>6, <1>7, <1>8, <1>9, <1>10, <1>11 DEF Next

LEMMA TypeNext == ASSUME TypeInv, [Next]_vars PROVE TypeInv'
<1>1. StreamIsSeq'
    <2>1. stream \in Seq(Range(stream))
        BY DEF TypeInv, StreamIsSeq
    <2>2. CASE stream' = stream
        BY <2>1, <2>2 DEF StreamIsSeq
    <2>3. ASSUME NEW e, stream' = Append(stream, e) PROVE StreamIsSeq'
        BY <2>1, <2>3, AppendProperties DEF StreamIsSeq
    <2>4. QED
        BY <2>2, <2>3, StreamFrame DEF vars
<1>2. TypeOK'
    BY ImpactTypes, LoopTypes, RecordTypes DEF TypeOK
<1>3. QED
    BY <1>1, <1>2, ImpactTypes, LoopTypes DEF TypeInv

LEMMA TypeInvariant == Spec => []TypeInv
BY TypeInit, TypeNext, PTL DEF Spec

\* A run keeps its types; in particular no dataset is at once affected and unaffected.
THEOREM LiveRunTypeCorrect == Spec => []TypeOK
<1>1. TypeInv => TypeOK
    BY DEF TypeInv
<1>2. QED
    BY <1>1, TypeInvariant, PTL

-----------------------------------------------------------------------------
(* The stream and the state.                                               *)

\* One step of the replayed state: it stays, or moves along the lifecycle.
LEMMA ReplayStep ==
    ASSUME TypeInv, StreamReplays, [Next]_vars
    PROVE  /\ StreamReplays'
           /\ \/ Replay(stream') = Replay(stream)
              \/ \E target \in IncidentStates :
                    /\ <<Replay(stream), target>> \in ALLOWED_TRANSITIONS
                    /\ Replay(stream') = target
<1>1. stream \in Seq(Range(stream))
    BY DEF TypeInv, StreamIsSeq
<1>2. (StreamReplays)' <=>
          \/ Replay(stream') = state'
          \/ pc' = "FAILED" /\ <<state', Replay(stream')>> \in ALLOWED_TRANSITIONS
    BY DEF StreamReplays, Replay
<1>3. CASE UNCHANGED vars
    <2>1. UNCHANGED <<pc, state, stream>>
        BY <1>3 DEF vars
    <2>2. QED
        BY <1>2, <2>1 DEF StreamReplays
<1>4. CASE /\ pc \notin Ended /\ UNCHANGED state
           /\ \/ stream' = stream
              \/ \E e : e.type # "STATE_TRANSITIONED" /\ stream' = Append(stream, e)
    <2>1. Replay(stream) = state
        BY <1>4 DEF StreamReplays, Ended
    <2>2. ASSUME NEW e, e.type # "STATE_TRANSITIONED", stream' = Append(stream, e)
          PROVE  Replay(stream') = Replay(stream)
        <3>1. Replay(stream') = ReplayEvent(Replay(stream), e)
            BY <1>1, <2>2, AppendProperties
        <3>2. QED
            BY <2>2, <3>1 DEF ReplayEvent
    <2>3. Replay(stream') = Replay(stream)
        BY <1>4, <2>2
    <2>4. QED
        BY <1>2, <1>4, <2>1, <2>3
<1>5. ASSUME NEW target, pc \notin Ended, <<state, target>> \in ALLOWED_TRANSITIONS,
             stream' = Append(stream, TransitionEvent(target)),
             state' = IF pc' = "FAILED" THEN state ELSE target
      PROVE  /\ StreamReplays'
             /\ target \in IncidentStates
             /\ <<Replay(stream), target>> \in ALLOWED_TRANSITIONS
             /\ Replay(stream') = target
    <2>1. Replay(stream) = state
        BY <1>5 DEF StreamReplays, Ended
    <2>2. Replay(stream') = ReplayEvent(Replay(stream), TransitionEvent(target))
        BY <1>1, <1>5, AppendProperties
    <2>3. Replay(stream') = target
        BY <1>5, <2>1, <2>2 DEF ReplayEvent, TransitionEvent
    <2>4. target \in IncidentStates
        BY <1>5, LegalStates
    <2>5. QED
        BY <1>2, <1>5, <2>1, <2>3, <2>4
<1>6. QED
    BY <1>3, <1>4, <1>5, StreamFrame

LEMMA ReplayInit == ASSUME Init PROVE StreamReplays /\ Replay(stream) = HEALTHY
<1>1. <<>> \in Seq({0}) /\ 0 \in {0}
    OBVIOUS
<1>2. Replay(<<>>) = HEALTHY
    BY <1>1, ReplayAppend
<1>3. QED
    BY <1>2 DEF Init, StreamReplays

\* The stream replays to the state that the run's machine has, or after an append that
\* raised to the state it was about to enter.
THEOREM StreamReplaysTheRun == Spec => []StreamReplays
<1>1. Init => StreamReplays
    BY ReplayInit
<1>2. TypeInv /\ StreamReplays /\ [Next]_vars => StreamReplays'
    BY ReplayStep
<1>3. QED
    BY <1>1, <1>2, TypeInvariant, PTL DEF Spec

\* The replayed state starts HEALTHY and every append of the run moves it along the
\* lifecycle of incident_state.py or leaves it, so replay_state never raises on a stream
\* of this run, at whatever point it is read.
THEOREM LiveRunImplementsIncidentState == Spec => ImplementsIncidentState
<1>1. /\ Lifecycle!HEALTHY = HEALTHY
      /\ Lifecycle!ALLOWED_TRANSITIONS = ALLOWED_TRANSITIONS
      /\ Lifecycle!IncidentStates = IncidentStates
    BY DEF Lifecycle!HEALTHY, HEALTHY, Lifecycle!ALLOWED_TRANSITIONS, ALLOWED_TRANSITIONS,
           Lifecycle!IncidentStates, IncidentStates
<1>2. Init => Replay(stream) = Lifecycle!HEALTHY
    BY <1>1, ReplayInit
<1>3. TypeInv /\ StreamReplays /\ [Next]_vars =>
          [\E target \in Lifecycle!IncidentStates : Lifecycle!Transition(target)]_(Replay(stream))
    <2>1. Replay(stream)' = Replay(stream')
        BY DEF Replay
    <2>2. SUFFICES ASSUME TypeInv, StreamReplays, [Next]_vars
                   PROVE  \/ Replay(stream)' = Replay(stream)
                          \/ \E target \in Lifecycle!IncidentStates : Lifecycle!Transition(target)
        OBVIOUS
    <2>3. \/ Replay(stream)' = Replay(stream)
          \/ \E target \in IncidentStates :
                /\ <<Replay(stream), target>> \in ALLOWED_TRANSITIONS
                /\ Replay(stream)' = target
        BY <2>1, <2>2, ReplayStep
    <2>4. QED
        BY <1>1, <2>3 DEF Lifecycle!Transition
<1>4. QED
    BY <1>2, <1>3, TypeInvariant, StreamReplaysTheRun, PTL
       DEF Spec, ImplementsIncidentState, Lifecycle!LifecycleSpec

-----------------------------------------------------------------------------
(* What is in DataHub and what the stream says of it.                      *)

ReportTypes == {"DATAHUB_INCIDENT_WRITTEN", "DECISION_LOG_WRITTEN", "ENFORCEMENT_APPLIED"}

\* Between a write and its event, and only there, one effect is not reported.
Unreported == Effects \ Reports
ReportInv ==
    /\ Reports \subseteq Effects
    /\ pc \notin {"raised", "logged", "control", "applied", "FAILED"} => Unreported = {}
    /\ pc = "raised" => "incident" \in native /\ Unreported \subseteq {"incident"}
    /\ pc = "logged" => "log" \in native /\ Unreported \subseteq {"log"}
    /\ pc \in {"control", "applied"} =>
          control[Head(left)] # "CLEAN" /\ Unreported \subseteq {Head(left)}
    /\ \A x, y \in Unreported : x = y

LEMMA ReportsAre ==
    ASSUME NEW s
    PROVE  {s[k].about : k \in {n \in DOMAIN s : s[n].type \in ReportTypes}}
               = {e.about : e \in {x \in Range(s) : x.type \in ReportTypes}}
BY DEF Range

\* An append adds to the reports what the event is about, if it is a report.
LEMMA ReportsAppend ==
    ASSUME StreamIsSeq, NEW e, stream' = Append(stream, e)
    PROVE  /\ (e.type \notin ReportTypes \/ e.about = "PUBLISH") => Reports' = Reports
           /\ (e.type \in ReportTypes /\ e.about # "PUBLISH") => Reports' = Reports \cup {e.about}
<1>1. Range(stream') = Range(stream) \cup {e}
    BY AppendProperties DEF StreamIsSeq
<1>2. Reports = {x.about : x \in {y \in Range(stream) : y.type \in ReportTypes}} \ {"PUBLISH"}
    BY ReportsAre DEF Reports, ReportTypes
<1>3. Reports' = {x.about : x \in {y \in Range(stream') : y.type \in ReportTypes}} \ {"PUBLISH"}
    BY ReportsAre DEF Reports, ReportTypes
<1>4. QED
    BY <1>1, <1>2, <1>3

LEMMA ReportsOfEvent ==
    ASSUME StreamIsSeq, NEW type, NEW about, NEW value,
           stream' = Append(stream, Event(type, about, value))
    PROVE  /\ (type \notin ReportTypes \/ about = "PUBLISH") => Reports' = Reports
           /\ (type \in ReportTypes /\ about # "PUBLISH") => Reports' = Reports \cup {about}
<1>1. Event(type, about, value).type = type /\ Event(type, about, value).about = about
    BY DEF Event
<1>2. QED
    BY <1>1, ReportsAppend

LEMMA ReportInit == ASSUME Init PROVE ReportInv
<1>1. Effects = {} /\ Reports = {}
    BY DEF Init, Effects, Reports
<1>2. QED
    BY <1>1 DEF Init, ReportInv, Unreported

LEMMA ReportNext == ASSUME TypeInv, ReportInv, [Next]_vars PROVE ReportInv'
<1>1. StreamIsSeq /\ TypeOK /\ AssetLoop
    BY DEF TypeInv
<1>2. /\ stream' = stream => Reports' = Reports
      /\ native' = native /\ control' = control => Effects' = Effects
    BY DEF Reports, Effects
<1>3. ASSUME Reports' = Reports, Effects' = Effects,
             pc \notin {"raised", "logged", "control", "applied", "FAILED"},
             pc' \notin {"raised", "logged", "control", "applied"}
      PROVE  ReportInv'
    BY <1>3 DEF ReportInv, Unreported
<1>4. CASE UNCHANGED vars
    BY <1>2, <1>4 DEF vars, ReportInv, Unreported
<1>5. CASE Raise
    <2>1. pc' = "FAILED" /\ Reports' = Reports /\ Effects' = Effects
        BY <1>2, <1>5 DEF Raise, datahub
    <2>2. QED
        BY <2>1 DEF ReportInv, Unreported
<1>6. CASE ReadDownstream \/ TraceHit \/ PassOver \/ \E d \in Assets : Ingest(d)
    BY <1>2, <1>3, <1>6 DEF ReadDownstream, TraceHit, PassOver, Ingest, datahub
<1>7. CASE Detect \/ Escalate \/ Create \/ CreateBundle \/ RequestApproval \/ BlockReport \/ AllowSafe
    <2>1. \E type, about, value : /\ type \notin ReportTypes \/ about = "PUBLISH"
                                  /\ stream' = Append(stream, Event(type, about, value))
        BY <1>7 DEF Detect, Escalate, Create, CreateBundle, RequestApproval, BlockReport, AllowSafe,
                    Announce, Emit, ReportTypes
    <2>2. Reports' = Reports
        BY <1>1, <2>1, ReportsOfEvent
    <2>3. QED
        BY <1>2, <1>3, <1>7, <2>2
           DEF Detect, Escalate, Create, CreateBundle, RequestApproval, BlockReport, AllowSafe,
               Announce, Emit, datahub
<1>8. CASE Open \/ Close \/ Finish \/ Investigate
    <2>1. \E target : stream' = Append(stream, TransitionEvent(target))
        BY <1>8 DEF Open, Close, Finish, Investigate, Advance, Move, Emit
    <2>2. \A target : TransitionEvent(target).type \notin ReportTypes
        BY DEF TransitionEvent, ReportTypes
    <2>3. Reports' = Reports
        BY <1>1, <2>1, <2>2, ReportsAppend
    <2>4. QED
        BY <1>2, <1>3, <1>8, <2>3 DEF Open, Close, Finish, Investigate, Advance, Move, Emit, datahub
<1>9. CASE Propose \/ AskCatalog \/ CheckRows \/ Resolve \/ MapImpact \/ DecideAsset \/ Notify
    <2>1. \E type, about, value : /\ type \notin ReportTypes
                                  /\ stream' = Append(stream, Event(type, about, value))
        BY <1>9 DEF Propose, AskCatalog, CheckRows, Resolve, MapImpact, DecideAsset, Notify,
                    EmitNext, Emit, ReportTypes
    <2>2. Reports' = Reports
        BY <1>1, <2>1, ReportsOfEvent
    <2>3. QED
        BY <1>2, <1>3, <1>9, <2>2
           DEF Propose, AskCatalog, CheckRows, Resolve, MapImpact, DecideAsset, Notify,
               EmitNext, Emit, datahub
<1>10. CASE RaiseIncident \/ WriteLog
    <2>1. PICK artifact \in {"incident", "log"} :
              /\ native' = native \cup {artifact} /\ UNCHANGED <<stream, control>>
              /\ \/ artifact = "incident" /\ pc' = "raised"
                 \/ artifact = "log" /\ pc' = "logged"
        BY <1>10 DEF RaiseIncident, WriteLog, WriteNative
    <2>2. Reports' = Reports /\ Effects' = Effects \cup {artifact}
        BY <1>2, <2>1 DEF Effects
    <2>3. Unreported = {}
        BY <1>10 DEF RaiseIncident, WriteLog, WriteNative, ReportInv
    <2>4. QED
        BY <2>1, <2>2, <2>3 DEF ReportInv, Unreported
<1>11. CASE TagAsset \/ ControlAsset
    <2>1. /\ pc \in {"tag", "control"} /\ pc' \in {"control", "applied"}
          /\ UNCHANGED <<stream, native, left>> /\ left # <<>>
          /\ \E value \in {"TAGGED", "CONTROLLED"} : control' = [control EXCEPT ![Head(left)] = value]
        BY <1>11 DEF TagAsset, ControlAsset, WriteControl, work
    <2>2. Head(left) \in Assets
        BY <1>1, <2>1, LoopProperties DEF AssetLoop
    <2>3. control'[Head(left)] # "CLEAN" /\ \A a \in Assets : a # Head(left) => control'[a] = control[a]
        BY <1>1, <2>1, <2>2 DEF TypeOK
    <2>4. Reports' = Reports /\ Effects' = Effects \cup {Head(left)}
        BY <1>2, <2>1, <2>2, <2>3 DEF Effects
    <2>5. Unreported \subseteq {Head(left)}
        BY <2>1 DEF ReportInv
    <2>6. QED
        BY <2>1, <2>3, <2>4, <2>5 DEF ReportInv, Unreported
<1>12. CASE IncidentWritten \/ LogWritten
    <2>1. PICK artifact \in {"incident", "log"} :
              /\ artifact \in native /\ Unreported \subseteq {artifact}
              /\ \E type \in ReportTypes : stream' = Append(stream, Event(type, artifact, None))
              /\ pc' \in {"bundle", "approval", "FAILED"} /\ UNCHANGED <<native, control>>
        BY <1>12 DEF IncidentWritten, LogWritten, Announce, Emit, ReportTypes, datahub, ReportInv
    <2>2. Reports' = Reports \cup {artifact} /\ Effects' = Effects
        BY <1>1, <1>2, <2>1, ReportsOfEvent
    <2>3. artifact \in Effects
        BY <2>1 DEF Effects
    <2>4. QED
        BY <2>1, <2>2, <2>3 DEF ReportInv, Unreported
<1>13. CASE ControlApplied
    <2>1. /\ left # <<>> /\ pc = "applied" /\ pc' \in {"tag", "FAILED"}
          /\ stream' = Append(stream, Event("ENFORCEMENT_APPLIED", Head(left), plan[Head(left)].decision))
          /\ UNCHANGED <<native, control>>
        BY <1>13 DEF ControlApplied, EmitNext, Emit, datahub
    <2>2. Head(left) \in Assets
        BY <1>1, <2>1, LoopProperties DEF AssetLoop
    <2>3. Head(left) # "PUBLISH" /\ Head(left) \in Effects
        BY <2>1, <2>2, LiveRunAssumption DEF ReportInv, Effects
    <2>4. Reports' = Reports \cup {Head(left)} /\ Effects' = Effects
        BY <1>1, <1>2, <2>1, <2>3, ReportsOfEvent DEF ReportTypes
    <2>5. QED
        BY <2>1, <2>3, <2>4 DEF ReportInv, Unreported
<1>14. QED
    BY <1>4, <1>5, <1>6, <1>7, <1>8, <1>9, <1>10, <1>11, <1>12, <1>13 DEF Next

\* Wherever the run stops, the stream reports no write to DataHub that was not made and
\* misses at most one, the last.
THEOREM LiveRunEffectsAreReported == Spec => []EffectsAreReported
<1>1. Init => ReportInv
    BY ReportInit
<1>2. TypeInv /\ ReportInv /\ [Next]_vars => ReportInv'
    BY ReportNext
<1>3. ReportInv => EffectsAreReported
    BY DEF ReportInv, Unreported, EffectsAreReported
<1>4. QED
    BY <1>1, <1>2, <1>3, TypeInvariant, PTL DEF Spec

-----------------------------------------------------------------------------
(* The impact and the controls.                                            *)

Before == {"detect", "escalate", "create", "open", "assess", "propose", "investigate",
           "check", "resolve", "lineage", "trace"}

\* The trace so far: the hits that were handled are no farther than the pending ones, no
\* field of a pending hit is tainted yet, and the cone is closed under the growing edges
\* into the hits that were handled.
TraceInv ==
    /\ DriftedField \in tainted /\ Source \in Range(affected)
    /\ pending \subseteq Downstream
    /\ \A f \in tainted : f[1] \notin pending
    /\ \A d \in Downstream \ pending, p \in pending : catalog.degree[d] <= catalog.degree[p]
    /\ \A e \in catalog.edges \cap lineage :
          /\ e[1] \in tainted
          /\ catalog.degree[e[1][1]] < catalog.degree[e[2][1]]
          /\ e[2][1] \notin pending
          => e[2] \in tainted /\ e[2][1] \in Range(affected)
ConeInv ==
    /\ pc = "trace" \/ Mapped => TraceInv
    /\ Mapped => pending = {} /\ pc \notin Before

\* Only MapImpact reports the impact; the other steps stay before it or after it.
LEMMA MappedFrame ==
    ASSUME StreamIsSeq, [Next]_vars, ~MapImpact
    PROVE  /\ Mapped' => Mapped
           /\ pc \notin Before => pc' \notin Before
<1>1. /\ Mapped <=> \E e \in Range(stream) : e.type = "IMPACT_MAPPED"
      /\ Mapped' <=> \E e \in Range(stream') : e.type = "IMPACT_MAPPED"
    BY DEF Mapped, Range
<1>2. ASSUME NEW e, e.type # "IMPACT_MAPPED", stream' = Append(stream, e) PROVE Mapped' => Mapped
    <2>1. Range(stream') = Range(stream) \cup {e}
        <3>1. Range(Append(stream, e)) = Range(stream) \cup {e}
            BY AppendProperties DEF StreamIsSeq
        <3>2. QED
            BY <1>2, <3>1
    <2>2. \A x \in Range(stream') : x \in Range(stream) \/ x.type # "IMPACT_MAPPED"
        BY <1>2, <2>1
    <2>3. QED
        BY <1>1, <2>2
<1>3. ASSUME stream' = stream PROVE Mapped' => Mapped
    BY <1>3 DEF Mapped
<1>4. ASSUME NEW type, NEW about, NEW value, type # "IMPACT_MAPPED",
             stream' = Append(stream, Event(type, about, value))
      PROVE  Mapped' => Mapped
    <2>1. Event(type, about, value).type = type
        BY DEF Event
    <2>2. QED
        BY <1>2, <1>4, <2>1
<1>5. CASE UNCHANGED vars
    BY <1>3, <1>5 DEF vars
<1>6. CASE Raise \/ ReadDownstream \/ TraceHit \/ (\E d \in Assets : Ingest(d))
    BY <1>3, <1>6 DEF Raise, ReadDownstream, TraceHit, Ingest, Before
<1>7. CASE Detect \/ Escalate \/ Create \/ IncidentWritten \/ CreateBundle \/ LogWritten
           \/ RequestApproval \/ BlockReport \/ AllowSafe
    <2>1. \E type, about, value : /\ type # "IMPACT_MAPPED"
                                  /\ stream' = Append(stream, Event(type, about, value))
        BY <1>7 DEF Detect, Escalate, Create, IncidentWritten, CreateBundle, LogWritten,
                RequestApproval, BlockReport, AllowSafe, Announce, Emit
    <2>2. Mapped' => Mapped
        BY <1>4, <2>1
    <2>3. QED
        BY <1>7, <2>2 DEF Detect, Escalate, Create, IncidentWritten, CreateBundle, LogWritten,
                RequestApproval, BlockReport, AllowSafe, Announce, Emit, Before
<1>8. CASE Open \/ Close \/ Finish \/ Investigate
    <2>1. \E target : stream' = Append(stream, TransitionEvent(target))
        BY <1>8 DEF Open, Close, Finish, Investigate, Advance, Move, Emit
    <2>2. \A target : TransitionEvent(target).type # "IMPACT_MAPPED"
        BY DEF TransitionEvent
    <2>3. Mapped' => Mapped
        BY <1>2, <2>1, <2>2
    <2>4. QED
        BY <1>8, <2>3 DEF Open, Close, Finish, Investigate, Advance, Move, Emit, Before
<1>9. CASE Propose \/ AskCatalog \/ CheckRows \/ Resolve \/ DecideAsset \/ Notify \/ ControlApplied
    <2>1. \E type, about, value : /\ type # "IMPACT_MAPPED"
                                  /\ stream' = Append(stream, Event(type, about, value))
        BY <1>9 DEF Propose, AskCatalog, CheckRows, Resolve, DecideAsset, Notify, ControlApplied,
                EmitNext, Emit
    <2>2. Mapped' => Mapped
        BY <1>4, <2>1
    <2>3. QED
        BY <1>9, <2>2 DEF Propose, AskCatalog, CheckRows, Resolve, DecideAsset, Notify,
                ControlApplied, EmitNext, Emit, Before
<1>10. CASE RaiseIncident \/ WriteLog \/ PassOver \/ TagAsset \/ ControlAsset
    BY <1>3, <1>10 DEF RaiseIncident, WriteLog, PassOver, TagAsset, ControlAsset, WriteNative,
                WriteControl, Before
<1>11. QED
    BY <1>5, <1>6, <1>7, <1>8, <1>9, <1>10 DEF Next

LEMMA ReadDownstreamTraces == ASSUME TypeInv, ReadDownstream PROVE TraceInv'
<1>1. /\ catalog' = catalog /\ lineage' = lineage /\ pending' = Downstream
      /\ tainted' = {DriftedField} /\ affected' = <<Source>>
    BY DEF ReadDownstream, input
<1>2. Downstream' = Downstream
    BY <1>1 DEF Downstream
<1>3. DriftedField[1] = Source /\ Source \notin Downstream
    BY LiveRunAssumption DEF DriftedField, Downstream, TypeInv
<1>4. Range(<<Source>>) = {Source}
    BY DEF Range
<1>5. ASSUME NEW e \in catalog.edges \cap lineage, e[1] = DriftedField,
             catalog.degree[e[1][1]] < catalog.degree[e[2][1]]
      PROVE  e[2][1] \in Downstream
    <2>1. e[2][1] \in Assets /\ catalog.degree[e[2][1]] \in Nat
        BY LiveRunAssumption DEF TypeInv, TypeOK, Fields
    <2>2. catalog.degree[e[1][1]] = 0
        BY <1>3, <1>5, LiveRunAssumption DEF TypeInv
    <2>3. QED
        BY <1>5, <2>1, <2>2 DEF Downstream
<1>6. QED
    BY <1>1, <1>2, <1>3, <1>4, <1>5 DEF TraceInv

LEMMA TraceHitTraces == ASSUME TypeInv, TraceInv, TraceHit PROVE TraceInv'
<1>1. PICK hit \in pending :
          /\ Nearest(hit)
          /\ pending' = pending \ {hit}
          /\ tainted' = tainted \cup Propagated(hit)
          /\ \/ affected' = Append(affected, hit) /\ Propagated(hit) # {}
             \/ affected' = affected /\ Propagated(hit) = {}
    BY DEF TraceHit
<1>2. catalog' = catalog /\ lineage' = lineage /\ Downstream' = Downstream
    BY DEF TraceHit, input, Downstream
<1>3. /\ Range(affected) \subseteq Range(affected')
      /\ Propagated(hit) # {} => hit \in Range(affected')
    <2>1. affected \in Seq(Range(affected))
        BY DEF TypeInv, TypeOK, Range
    <2>2. Range(Append(affected, hit)) = Range(affected) \cup {hit}
        BY <2>1, AppendProperties
    <2>3. QED
        BY <1>1, <2>2
<1>4. \A f \in Propagated(hit) : f[1] = hit
    BY DEF Propagated
<1>5. \A d \in Assets : catalog.degree[d] \in Nat
    BY LiveRunAssumption DEF TypeInv
<1>6. pending \subseteq Assets
    BY DEF TypeInv, TypeOK
<1>7. ASSUME NEW d \in Downstream \ pending', NEW p \in pending'
      PROVE  catalog.degree[d] <= catalog.degree[p]
    BY <1>1, <1>7 DEF TraceInv, Nearest
<1>8. ASSUME NEW e \in catalog.edges \cap lineage, e[1] \in tainted',
             catalog.degree[e[1][1]] < catalog.degree[e[2][1]], e[2][1] \notin pending'
      PROVE  e[2] \in tainted' /\ e[2][1] \in Range(affected')
    <2>1. /\ e[1][1] \in Assets /\ e[2][1] \in Assets
          /\ catalog.degree[e[1][1]] \in Nat /\ catalog.degree[e[2][1]] \in Nat
        <3>1. e[1] \in Fields /\ e[2] \in Fields
            BY LiveRunAssumption DEF TypeInv, TypeOK
        <3>2. e[1][1] \in Assets /\ e[2][1] \in Assets
            BY <3>1 DEF Fields
        <3>3. QED
            BY <1>5, <3>2
    <2>2. CASE e[2][1] = hit
        <3>1. e[1][1] # hit
            BY <1>8, <2>1, <2>2
        <3>2. e[1] \in tainted
            BY <1>1, <1>4, <1>8, <3>1
        <3>3. e[2] \in Propagated(hit)
            BY <2>2, <3>2 DEF Propagated
        <3>4. QED
            BY <1>1, <1>3, <2>2, <3>3
    <2>3. CASE e[2][1] # hit /\ e[1] \in tainted
        BY <1>1, <1>3, <1>8, <2>3 DEF TraceInv
    <2>4. CASE e[2][1] # hit /\ e[1] \notin tainted
        <3>1. e[1][1] = hit
            BY <1>1, <1>4, <1>8, <2>4
        <3>2. e[2][1] \in Downstream \ pending
            BY <1>1, <1>8, <2>1, <2>4 DEF Downstream
        <3>3. catalog.degree[e[2][1]] <= catalog.degree[hit]
            BY <1>1, <3>2 DEF TraceInv
        <3>4. QED
            BY <1>8, <2>1, <3>1, <3>3
    <2>5. QED
        BY <2>2, <2>3, <2>4
<1>9. /\ DriftedField \in tainted' /\ Source \in Range(affected')
      /\ pending' \subseteq Downstream
      /\ \A f \in tainted' : f[1] \notin pending'
    BY <1>1, <1>3, <1>4 DEF TraceInv
<1>10. QED
    BY <1>2, <1>7, <1>8, <1>9 DEF TraceInv

LEMMA ConeInit == ASSUME Init PROVE ConeInv
BY DEF Init, ConeInv, Mapped

LEMMA ConeNext == ASSUME TypeInv, ConeInv, [Next]_vars PROVE ConeInv'
<1>1. CASE MapImpact
    <2>1. /\ pc = "trace" /\ pending = {} /\ pc' \in {"decide", "FAILED"}
          /\ UNCHANGED <<catalog, lineage, pending, tainted, affected>>
        BY <1>1 DEF MapImpact, Emit, input, impact
    <2>2. TraceInv'
        BY <2>1 DEF ConeInv, TraceInv, Downstream
    <2>3. QED
        BY <2>1, <2>2 DEF ConeInv, Before
<1>2. CASE ~MapImpact
    <2>1. /\ Mapped' => Mapped
          /\ pc \notin Before => pc' \notin Before
        BY <1>2, MappedFrame DEF TypeInv
    <2>2. CASE ReadDownstream
        <3>1. pc \in Before
            BY <2>2 DEF ReadDownstream, Before
        <3>2. QED
            BY <2>1, <2>2, <3>1, ReadDownstreamTraces DEF ConeInv
    <2>3. CASE TraceHit
        <3>1. pc = "trace" /\ pc \in Before
            BY <2>3 DEF TraceHit, Before
        <3>2. QED
            BY <2>1, <2>3, <3>1, TraceHitTraces DEF ConeInv
    <2>4. CASE \E d \in Assets : Ingest(d)
        <3>1. /\ pc = "trace" /\ pc \in Before /\ lineage = catalog.edges
              /\ UNCHANGED <<catalog, pending, tainted, affected>>
            BY <2>4 DEF Ingest, Before, impact
        <3>2. TraceInv
            BY <3>1 DEF ConeInv
        <3>3. catalog.edges \cap lineage' \subseteq catalog.edges \cap lineage
            BY <3>1
        <3>4. TraceInv'
            BY <3>1, <3>2, <3>3 DEF TraceInv, Downstream
        <3>5. QED
            BY <2>1, <3>1, <3>4 DEF ConeInv
    <2>5. CASE /\ UNCHANGED <<catalog, lineage, pending, tainted, affected, unaffected>>
               /\ pc' = "trace" => pc = "trace"
        <3>1. TraceInv => TraceInv'
            BY <2>5 DEF TraceInv, Downstream
        <3>2. QED
            BY <2>1, <2>5, <3>1 DEF ConeInv
    <2>6. QED
        BY <2>2, <2>3, <2>4, <2>5, ImpactFrame
<1>3. QED
    BY <1>1, <1>2

LEMMA ConeInvariant == Spec => []ConeInv
BY ConeInit, ConeNext, TypeInvariant, PTL DEF Spec

-----------------------------------------------------------------------------
(* The loops of decide and enforce.                                        *)

Cover == Range(affected) \cup {Batch}
AffectedRules == Range(AffectedRoles)
Enforcing == {"tag", "control", "applied"}
Written == {"raise", "raised", "bundle", "log", "logged", "approval", "notify"} \cup Enforcing

\* What the loops have handled so far: the assets of the cover that are not left are
\* decided, and after that controlled; the run says so only at its end.
ControlInv ==
    /\ pc = "decide" => \A a \in Cover : a \in Range(left) \/ plan[a] \in AffectedRules
    /\ pc \in Written => \A a \in Cover : plan[a] \in AffectedRules
    /\ pc \in Enforcing => \A a \in Cover : a \in Range(left) \/ control[a] = "CONTROLLED"
    /\ pc = "applied" => control[Head(left)] = "CONTROLLED"
    /\ pc \in {"allow", "finish"} \/ Contained => \A a \in Cover : control[a] = "CONTROLLED"
    /\ Contained => pc \in Ended

LEMMA AffectedRulesWrite ==
    /\ \A rule \in AffectedRules : rule.writes /\ rule.decision \in {"HALT", "WARN"}
    /\ \A role \in DOMAIN AffectedRoles : AffectedRoles[role] \in AffectedRules
    /\ UnaffectedRule \notin AffectedRules /\ NoRule \notin AffectedRules
    /\ ~UnaffectedRule.writes
    /\ Rules = {UnaffectedRule} \cup AffectedRules /\ NoRule \notin Rules
<1>1. DOMAIN AffectedRoles = HaltRoles \cup WarnRoles
    BY DEF AffectedRoles
<1>2. \A role \in DOMAIN AffectedRoles :
          AffectedRoles[role].writes /\ AffectedRoles[role].decision \in {"HALT", "WARN"}
    BY DEF AffectedRoles, Rule
<1>3. \A rule \in AffectedRules : rule.writes /\ rule.decision \in {"HALT", "WARN"}
    BY <1>2 DEF AffectedRules, Range
<1>4. \A role \in DOMAIN AffectedRoles : AffectedRoles[role] \in AffectedRules
    BY DEF AffectedRules, Range
<1>5. UnaffectedRule.decision = "ALLOW" /\ ~UnaffectedRule.writes /\ NoRule.decision = "NONE"
    BY DEF UnaffectedRule, Rule, NoRule
<1>6. UnaffectedRule \notin AffectedRules /\ NoRule \notin AffectedRules /\ NoRule # UnaffectedRule
    BY <1>3, <1>5
<1>7. QED
    BY <1>3, <1>4, <1>5, <1>6 DEF Rules, AffectedRules

\* Only the last transition of a run says that the controls are applied.
LEMMA ContainedFrame ==
    ASSUME StreamIsSeq, [Next]_vars, ~Finish
    PROVE  Contained' => Contained
<1>1. /\ Contained <=> \E e \in Range(stream) : e.type = "STATE_TRANSITIONED" /\ e.to \in {"QUARANTINED", "AT_RISK"}
      /\ Contained' <=> \E e \in Range(stream') : e.type = "STATE_TRANSITIONED" /\ e.to \in {"QUARANTINED", "AT_RISK"}
    BY DEF Contained, Range
<1>2. ASSUME NEW e, stream' = Append(stream, e),
             ~(e.type = "STATE_TRANSITIONED" /\ e.to \in {"QUARANTINED", "AT_RISK"})
      PROVE  Contained' => Contained
    <2>1. stream' = Append(stream, e) /\ stream \in Seq(Range(stream))
        BY <1>2 DEF StreamIsSeq
    <2>2. Range(stream') = Range(stream) \cup {e}
        BY <2>1, AppendProperties
    <2>3. QED
        BY <1>1, <1>2, <2>2
<1>3. ASSUME stream' = stream PROVE Contained' => Contained
    BY <1>3 DEF Contained
<1>4. ASSUME NEW type, NEW about, NEW value, type # "STATE_TRANSITIONED",
             stream' = Append(stream, Event(type, about, value))
      PROVE  Contained' => Contained
    <2>1. Event(type, about, value).type = type
        BY DEF Event
    <2>2. QED
        BY <1>2, <1>4, <2>1
<1>5. CASE UNCHANGED vars \/ Raise \/ ReadDownstream \/ TraceHit \/ (\E d \in Assets : Ingest(d))
    BY <1>3, <1>5 DEF vars, Raise, ReadDownstream, TraceHit, Ingest
<1>6. CASE Detect \/ Escalate \/ Create \/ IncidentWritten \/ CreateBundle \/ LogWritten
           \/ RequestApproval \/ BlockReport \/ AllowSafe
    <2>1. \E type, about, value : /\ type # "STATE_TRANSITIONED"
                                  /\ stream' = Append(stream, Event(type, about, value))
        BY <1>6 DEF Detect, Escalate, Create, IncidentWritten, CreateBundle, LogWritten,
                RequestApproval, BlockReport, AllowSafe, Announce, Emit
    <2>2. QED
        BY <1>4, <2>1
<1>7. CASE Open \/ Close \/ Investigate
    <2>1. \E target : /\ target \notin {"QUARANTINED", "AT_RISK"}
                      /\ stream' = Append(stream, TransitionEvent(target))
        BY <1>7 DEF Open, Close, Investigate, Advance, Move, Emit
    <2>2. \A target : TransitionEvent(target).to = target
        BY DEF TransitionEvent
    <2>3. QED
        BY <1>2, <2>1, <2>2
<1>8. CASE Propose \/ AskCatalog \/ CheckRows \/ Resolve \/ MapImpact \/ DecideAsset \/ Notify
           \/ ControlApplied
    <2>1. \E type, about, value : /\ type # "STATE_TRANSITIONED"
                                  /\ stream' = Append(stream, Event(type, about, value))
        BY <1>8 DEF Propose, AskCatalog, CheckRows, Resolve, MapImpact, DecideAsset, Notify,
                ControlApplied, EmitNext, Emit
    <2>2. QED
        BY <1>4, <2>1
<1>9. CASE RaiseIncident \/ WriteLog \/ PassOver \/ TagAsset \/ ControlAsset
    BY <1>3, <1>9 DEF RaiseIncident, WriteLog, PassOver, TagAsset, ControlAsset, WriteNative,
                WriteControl
<1>10. QED
    BY <1>5, <1>6, <1>7, <1>8, <1>9 DEF Next

LEMMA ControlInit == ASSUME Init PROVE ControlInv
BY DEF Init, ControlInv, Contained, Written, Enforcing

LEMMA ControlNext == ASSUME TypeInv, ControlInv, [Next]_vars PROVE ControlInv'
<1> USE DEF Written, Enforcing, Ended
<1>1. TypeOK /\ AssetLoop /\ StreamIsSeq
    BY DEF TypeInv
<1>2. Cover \subseteq Assets
    <2>1. Range(affected) \subseteq Assets
        BY <1>1 DEF TypeOK, Range
    <2>2. QED
        BY <2>1, LiveRunAssumption DEF Cover
<1>3. left # <<>> => Range(left) = {Head(left)} \cup Range(Tail(left))
    BY <1>1, LoopProperties DEF TypeOK
<1>4. affected' = affected => Cover' = Cover
    BY DEF Cover
<1>5. ASSUME Contained' => Contained, pc' = "FAILED", UNCHANGED <<affected, control>>
      PROVE  ControlInv'
    BY <1>4, <1>5 DEF ControlInv
<1>6. ASSUME Contained' => Contained, pc \notin Ended,
             pc' \notin Written \cup {"decide", "allow", "finish"}
      PROVE  ControlInv'
    BY <1>6 DEF ControlInv
<1>7. CASE UNCHANGED vars
    <2>1. Contained' => Contained
        BY <1>1, <1>7, ContainedFrame DEF Finish, Advance, Move, Emit, vars, Contained
    <2>2. QED
        BY <1>4, <1>7, <2>1 DEF vars, ControlInv
<1>8. CASE Finish
    <2>1. pc = "finish" /\ UNCHANGED <<affected, control>> /\ pc' \in Ended
        BY <1>8 DEF Finish, Advance, Move, Emit, impact, datahub
    <2>2. QED
        BY <1>4, <2>1 DEF ControlInv
<1>9. SUFFICES ASSUME ~Finish, Next, Contained' => Contained PROVE ControlInv'
    BY <1>1, <1>7, <1>8, ContainedFrame
<1>10. CASE Raise \/ Detect \/ Escalate \/ Create \/ Open \/ Close \/ Investigate \/ Propose
            \/ AskCatalog \/ CheckRows \/ Resolve \/ ReadDownstream \/ TraceHit
            \/ \E d \in Assets : Ingest(d)
    BY <1>6, <1>9, <1>10 DEF Raise, Detect, Escalate, Create, Open, Close, Investigate, Propose,
            AskCatalog, CheckRows, Resolve, ReadDownstream, TraceHit, Ingest, Announce, Advance,
            Move, EmitNext, Emit
<1>11. CASE MapImpact
    <2>1. pc = "trace" /\ left' = Contexts /\ pc' \in {"decide", "FAILED"} /\ UNCHANGED affected
        BY <1>11 DEF MapImpact, Emit, impact
    <2>2. Cover \subseteq Range(left')
        BY <2>1, ContextsProperties DEF Cover
    <2>3. QED
        BY <1>4, <1>9, <2>1, <2>2 DEF ControlInv
<1>12. CASE DecideAsset
    <2>1. /\ pc = "decide" /\ left # <<>> /\ left' = Tail(left)
          /\ pc' \in {"decide", "raise", "FAILED"} /\ UNCHANGED <<affected, control>>
          /\ pc' = "raise" => left' = <<>>
        BY <1>12 DEF DecideAsset, EmitNext, Emit, impact, datahub
    <2>2. Head(left) \in Assets
        BY <1>1, <2>1, LoopProperties DEF AssetLoop
    <2>3. /\ \A a \in Assets : a # Head(left) => plan'[a] = plan[a]
          /\ Head(left) \in Cover => plan'[Head(left)] \in AffectedRules
        <3>1. plan' = [plan EXCEPT ![Head(left)] =
                          IF IsAffected(Head(left)) THEN AffectedRoles[catalog.role[Head(left)]]
                          ELSE UnaffectedRule]
            BY <1>12 DEF DecideAsset
        <3>2. IsAffected(Head(left)) => catalog.role[Head(left)] \in DOMAIN AffectedRoles
            BY <1>12 DEF DecideAsset
        <3>3. Head(left) \in Cover <=> IsAffected(Head(left))
            BY DEF Cover, IsAffected
        <3>4. plan \in [Assets -> Rules \cup {NoRule}]
            BY <1>1 DEF TypeOK
        <3>5. QED
            BY <2>2, <3>1, <3>2, <3>3, <3>4, AffectedRulesWrite
    <2>4. \A a \in Cover : a \in Range(left') \/ plan'[a] \in AffectedRules
        BY <1>2, <1>3, <2>1, <2>3 DEF ControlInv
    <2>5. left' = <<>> => Range(left') = {}
        BY DEF Range
    <2>6. QED
        BY <1>4, <1>9, <2>1, <2>4, <2>5 DEF ControlInv
<1>13. CASE RaiseIncident \/ IncidentWritten \/ CreateBundle \/ WriteLog \/ LogWritten
            \/ RequestApproval
    <2>1. /\ pc \in {"raise", "raised", "bundle", "log", "logged", "approval"}
          /\ pc' \in {"raised", "bundle", "log", "logged", "approval", "notify", "FAILED"}
          /\ UNCHANGED <<affected, plan, control>>
        BY <1>13 DEF RaiseIncident, IncidentWritten, CreateBundle, WriteLog, LogWritten,
                     RequestApproval, WriteNative, Announce, Emit, impact, datahub
    <2>2. QED
        BY <1>4, <1>9, <2>1 DEF ControlInv
<1>14. CASE Notify
    <2>1. /\ pc = "notify" /\ left' = Contexts /\ pc' \in {"tag", "FAILED"}
          /\ UNCHANGED <<affected, plan, control>>
        BY <1>14 DEF Notify, Emit, impact, datahub
    <2>2. Cover \subseteq Range(left')
        BY <2>1, ContextsProperties DEF Cover
    <2>3. QED
        BY <1>4, <1>9, <2>1, <2>2 DEF ControlInv
<1>15. CASE PassOver
    <2>1. /\ pc = "tag" /\ pc' = "tag" /\ left # <<>> /\ left' = Tail(left)
          /\ ~plan[Head(left)].writes /\ UNCHANGED <<affected, plan, control>>
        BY <1>15 DEF PassOver, impact, datahub
    <2>2. Head(left) \notin Cover
        BY <2>1, AffectedRulesWrite DEF ControlInv
    <2>3. QED
        BY <1>3, <1>4, <1>9, <2>1, <2>2 DEF ControlInv
<1>16. CASE TagAsset \/ ControlAsset
    <2>1. /\ left # <<>> /\ UNCHANGED <<affected, plan, left>>
          /\ \/ /\ pc = "tag" /\ pc' = "control"
                /\ control' = [control EXCEPT ![Head(left)] = "TAGGED"]
             \/ /\ pc = "control" /\ pc' = "applied"
                /\ control' = [control EXCEPT ![Head(left)] = "CONTROLLED"]
        BY <1>16 DEF TagAsset, ControlAsset, WriteControl, work, impact
    <2>2. Head(left) \in Assets /\ Head(left) \in Range(left)
        BY <1>1, <1>3, <2>1, LoopProperties DEF AssetLoop
    <2>3. /\ \A a \in Assets : a # Head(left) => control'[a] = control[a]
          /\ pc' = "applied" => control'[Head(left)] = "CONTROLLED"
        BY <1>1, <2>1, <2>2 DEF TypeOK
    <2>4. QED
        BY <1>2, <1>4, <1>9, <2>1, <2>2, <2>3 DEF ControlInv
<1>17. CASE ControlApplied
    <2>1. /\ pc = "applied" /\ pc' \in {"tag", "FAILED"} /\ left # <<>> /\ left' = Tail(left)
          /\ UNCHANGED <<affected, plan, control>>
        BY <1>17 DEF ControlApplied, EmitNext, Emit, impact, datahub
    <2>2. QED
        BY <1>3, <1>4, <1>9, <2>1 DEF ControlInv
<1>18. CASE BlockReport \/ AllowSafe
    <2>1. /\ \/ pc = "tag" /\ left = <<>>
             \/ pc = "allow"
          /\ pc' \in {"allow", "finish", "FAILED"} /\ UNCHANGED <<affected, control>>
        BY <1>18 DEF BlockReport, AllowSafe, Announce, Emit, impact, datahub
    <2>2. Range(<<>>) = {}
        BY DEF Range
    <2>3. QED
        BY <1>4, <1>9, <2>1, <2>2 DEF ControlInv
<1>19. QED
    BY <1>9, <1>10, <1>11, <1>12, <1>13, <1>14, <1>15, <1>16, <1>17, <1>18 DEF Next

LEMMA ControlInvariant == Spec => []ControlInv
BY ControlInit, ControlNext, TypeInvariant, PTL DEF Spec

\* A stream that reports the impact reports the cone under growing edges, and a stream
\* that says the controls are applied has them on every affected dataset and the batch.
THEOREM LiveRunConeIsControlled == Spec => []ConeIsControlled
<1>1. ConeInv /\ ControlInv => ConeIsControlled
    BY DEF ConeInv, TraceInv, ControlInv, Cover, ConeIsControlled
<1>2. QED
    BY <1>1, ConeInvariant, ControlInvariant, PTL

-----------------------------------------------------------------------------
(* What the drifted field feeds.                                           *)

\* f is the recursive function that Reached(edges) chooses.
IsReach(edges, f) ==
    f = [n \in 0 .. Cardinality(Assets) |->
            IF n = 0 THEN {DriftedField} ELSE Fed(edges, f[n - 1])]

LEMMA AssetsAreCounted == Cardinality(Assets) \in Nat
BY LiveRunAssumption, FS_CardinalityType

LEMMA ReachExists == ASSUME NEW edges PROVE \E f : IsReach(edges, f)
<1> DEFINE G(f, n) == f = [k \in 0 .. n |-> IF k = 0 THEN {DriftedField} ELSE Fed(edges, f[k - 1])]
           S == {n \in Nat : \E f : G(f, n)}
<1>1. 0 \in S
    <2>1. G([k \in 0 .. 0 |-> {DriftedField}], 0)
        OBVIOUS
    <2>2. QED
        BY <2>1
<1>2. ASSUME NEW n \in Nat, n \in S PROVE n + 1 \in S
    <2>1. PICK f : G(f, n)
        BY <1>2
    <2> DEFINE g == [k \in 0 .. n + 1 |-> IF k = n + 1 THEN Fed(edges, f[n]) ELSE f[k]]
    <2>2. \A k \in 0 .. n + 1 : g[k] = IF k = 0 THEN {DriftedField} ELSE Fed(edges, g[k - 1])
        <3>1. ASSUME NEW k \in 0 .. n + 1, k # n + 1
              PROVE  g[k] = IF k = 0 THEN {DriftedField} ELSE Fed(edges, g[k - 1])
            <4>1. k \in 0 .. n /\ (k # 0 => k - 1 \in 0 .. n + 1 /\ k - 1 # n + 1)
                BY <3>1
            <4>2. f[k] = IF k = 0 THEN {DriftedField} ELSE Fed(edges, f[k - 1])
                BY <2>1, <4>1
            <4>3. g[k] = f[k] /\ (k # 0 => g[k - 1] = f[k - 1])
                BY <3>1, <4>1
            <4>4. QED
                BY <4>2, <4>3
        <3>2. n + 1 # 0 /\ n + 1 - 1 = n /\ g[n] = f[n] /\ g[n + 1] = Fed(edges, f[n])
            OBVIOUS
        <3>3. g[n + 1] = IF n + 1 = 0 THEN {DriftedField} ELSE Fed(edges, g[n + 1 - 1])
            BY <3>2
        <3> HIDE DEF g
        <3>4. QED
            BY <3>1, <3>3
    <2>3. G(g, n + 1)
        BY <2>2
    <2> HIDE DEF g, G
    <2>4. QED
        BY <2>3
<1>3. Cardinality(Assets) \in S
    <2> HIDE DEF S
    <2>1. QED
        BY <1>1, <1>2, AssetsAreCounted, NatInd
<1>4. QED
    BY <1>3 DEF IsReach

\* Each step of Reached follows the edges once.
LEMMA ReachedSteps ==
    ASSUME NEW edges
    PROVE  /\ Reached(edges)[0] = {DriftedField}
           /\ \A n \in Nat : n < Cardinality(Assets) =>
                 Reached(edges)[n + 1] = Fed(edges, Reached(edges)[n])
<1> DEFINE f == CHOOSE g : IsReach(edges, g)
<1>1. IsReach(edges, f)
    BY ReachExists
<1>2. Reached(edges) = f
    BY DEF Reached, IsReach
<1> HIDE DEF f
<1>3. \A n \in 0 .. Cardinality(Assets) : f[n] = IF n = 0 THEN {DriftedField} ELSE Fed(edges, f[n - 1])
    BY <1>1 DEF IsReach
<1>4. f[0] = {DriftedField}
    BY <1>3, AssetsAreCounted
<1>5. ASSUME NEW n \in Nat, n < Cardinality(Assets) PROVE f[n + 1] = Fed(edges, f[n])
    <2>1. n + 1 \in 0 .. Cardinality(Assets) /\ n + 1 # 0 /\ n + 1 - 1 = n
        BY <1>5, AssetsAreCounted
    <2>2. QED
        BY <1>3, <2>1
<1>6. QED
    BY <1>2, <1>4, <1>5

\* Reached grows with the steps and with the edges.
LEMMA ReachedGrows ==
    ASSUME NEW edges, NEW more, edges \subseteq more,
           NEW n \in Nat, n <= Cardinality(Assets)
    PROVE  /\ Reached(edges)[n] \subseteq Reached(edges)[Cardinality(Assets)]
           /\ Reached(edges)[n] \subseteq Reached(more)[n]
<1> DEFINE N == Cardinality(Assets)
<1>1. N \in Nat
    BY AssetsAreCounted
<1> HIDE DEF N
<1>2. \A k \in Nat : k < N => /\ Reached(edges)[k + 1] = Fed(edges, Reached(edges)[k])
                              /\ Reached(more)[k + 1] = Fed(more, Reached(more)[k])
    BY ReachedSteps DEF N
<1>3. Reached(edges)[n] \subseteq Reached(edges)[N]
    <2> DEFINE S == {k \in Nat : n + k <= N => Reached(edges)[n] \subseteq Reached(edges)[n + k]}
    <2>1. 0 \in S
        OBVIOUS
    <2>2. ASSUME NEW k \in Nat, k \in S PROVE k + 1 \in S
        <3>1. SUFFICES ASSUME n + (k + 1) <= N PROVE Reached(edges)[n] \subseteq Reached(edges)[n + (k + 1)]
            OBVIOUS
        <3>2. n + k \in Nat /\ n + k < N /\ n + (k + 1) = (n + k) + 1 /\ n + k <= N
            BY <1>1, <3>1
        <3>3. Reached(edges)[n] \subseteq Reached(edges)[n + k]
            BY <2>2, <3>2
        <3>4. Reached(edges)[n + (k + 1)] = Fed(edges, Reached(edges)[n + k])
            BY <1>2, <3>2
        <3>5. QED
            BY <3>3, <3>4 DEF Fed
    <2> HIDE DEF S
    <2>3. N - n \in Nat /\ n + (N - n) = N /\ N <= N
        BY <1>1 DEF N
    <2>4. N - n \in S
        BY <2>1, <2>2, <2>3, NatInd
    <2>5. QED
        BY <2>3, <2>4 DEF S
<1>4. Reached(edges)[n] \subseteq Reached(more)[n]
    <2> DEFINE S == {k \in Nat : k <= N => Reached(edges)[k] \subseteq Reached(more)[k]}
    <2>1. 0 \in S
        BY ReachedSteps
    <2>2. ASSUME NEW k \in Nat, k \in S PROVE k + 1 \in S
        <3>1. SUFFICES ASSUME k + 1 <= N PROVE Reached(edges)[k + 1] \subseteq Reached(more)[k + 1]
            OBVIOUS
        <3>2. k < N /\ k <= N
            BY <1>1, <3>1
        <3>3. Reached(edges)[k] \subseteq Reached(more)[k]
            BY <2>2, <3>2
        <3>4. QED
            BY <1>2, <3>2, <3>3 DEF Fed
    <2> HIDE DEF S
    <2>3. n \in S
        BY <2>1, <2>2, NatInd
    <2>4. QED
        BY <2>3 DEF S, N
<1>5. QED
    BY <1>3, <1>4 DEF N


\* After k hits the tainted fields are within k steps of the drifted field, and every
\* affected dataset has one.
Ways == catalog.edges \cup lineage
Handled == Cardinality(Downstream \ pending)
ReachInv ==
    /\ pc = "trace" => pending \subseteq Downstream /\ tainted \subseteq Reached(Ways)[Handled]
    /\ tainted \subseteq Reached(Ways)[Cardinality(Assets)]
    /\ \A a \in Range(affected) : \E f \in tainted : f[1] = a

LEMMA ReachInit == ASSUME Init PROVE ReachInv
<1>1. tainted = {} /\ Range(affected) = {} /\ pc # "trace"
    BY DEF Init, Range
<1>2. QED
    BY <1>1 DEF ReachInv

LEMMA HandledIsSmall ==
    Handled \in Nat /\ Handled <= Cardinality(Assets)
<1>1. IsFiniteSet(Assets) /\ Downstream \ pending \subseteq Assets
    BY LiveRunAssumption DEF Downstream
<1>2. QED
    BY <1>1, FS_Subset, FS_CardinalityType DEF Handled

LEMMA ReachNext == ASSUME TypeInv, ReachInv, [Next]_vars PROVE ReachInv'
<1>1. ReachInv' <=>
          /\ pc' = "trace" => pending' \subseteq Downstream' /\ tainted' \subseteq Reached(Ways')[Handled']
          /\ tainted' \subseteq Reached(Ways')[Cardinality(Assets)]
          /\ \A a \in Range(affected') : \E f \in tainted' : f[1] = a
    BY DEF ReachInv, Reached, Fed
<1>2. CASE ReadDownstream
    <2>1. /\ Ways' = Ways /\ pending' = Downstream /\ tainted' = {DriftedField}
          /\ affected' = <<Source>> /\ Downstream' = Downstream
        BY <1>2 DEF ReadDownstream, input, Ways, Downstream
    <2>2. Handled' = 0
        BY <2>1, FS_EmptySet DEF Handled
    <2>3. /\ Reached(Ways)[0] = {DriftedField}
          /\ Reached(Ways)[0] \subseteq Reached(Ways)[Cardinality(Assets)]
        BY ReachedSteps, ReachedGrows, AssetsAreCounted
    <2>4. Range(affected') = {Source}
        BY <2>1 DEF Range
    <2>5. DriftedField[1] = Source
        BY DEF DriftedField
    <2>6. QED
        BY <1>1, <2>1, <2>2, <2>3, <2>4, <2>5
<1>3. CASE TraceHit
    <2>1. PICK hit \in pending :
              /\ pending' = pending \ {hit}
              /\ tainted' = tainted \cup Propagated(hit)
              /\ \/ affected' = Append(affected, hit) /\ Propagated(hit) # {}
                 \/ affected' = affected
        BY <1>3 DEF TraceHit
    <2>2. pc = "trace" /\ Ways' = Ways /\ Downstream' = Downstream
        BY <1>3 DEF TraceHit, input, Ways, Downstream
    <2>3. pending \subseteq Downstream /\ tainted \subseteq Reached(Ways)[Handled]
        BY <2>2 DEF ReachInv
    <2>4. Handled' = Handled + 1
        <3>1. Downstream' \ pending' = (Downstream \ pending) \cup {hit} /\ hit \notin Downstream \ pending
            BY <2>1, <2>2, <2>3
        <3>2. IsFiniteSet(Downstream \ pending)
            <4>1. IsFiniteSet(Assets) /\ Downstream \ pending \subseteq Assets
                BY LiveRunAssumption DEF Downstream
            <4>2. QED
                BY <4>1, FS_Subset
        <3>3. Cardinality(Downstream' \ pending') = Cardinality(Downstream \ pending) + 1
            BY <3>1, <3>2, FS_AddElement
        <3>4. QED
            BY <3>3 DEF Handled
    <2>5. Handled' \in Nat /\ Handled' <= Cardinality(Assets) /\ Handled \in Nat
        <3>1. IsFiniteSet(Assets) /\ Downstream' \ pending' \subseteq Assets
            BY <2>2, LiveRunAssumption DEF Downstream
        <3>2. QED
            BY <3>1, HandledIsSmall, FS_Subset, FS_CardinalityType DEF Handled
    <2>6. tainted' \subseteq Reached(Ways)[Handled']
        <3>1. Reached(Ways)[Handled + 1] = Fed(Ways, Reached(Ways)[Handled])
            BY <2>4, <2>5, ReachedSteps, AssetsAreCounted
        <3>2. Propagated(hit) \subseteq Fed(Ways, Reached(Ways)[Handled])
            BY <2>3 DEF Propagated, Fed, Ways
        <3>3. tainted \subseteq Fed(Ways, Reached(Ways)[Handled])
            BY <2>3 DEF Fed
        <3>4. QED
            BY <2>1, <2>4, <3>1, <3>2, <3>3
    <2>7. tainted' \subseteq Reached(Ways)[Cardinality(Assets)]
        BY <2>5, <2>6, ReachedGrows
    <2>8. ASSUME NEW a \in Range(affected') PROVE \E f \in tainted' : f[1] = a
        <3>1. affected \in Seq(Range(affected))
            BY DEF TypeInv, TypeOK, Range
        <3>2. Range(Append(affected, hit)) = Range(affected) \cup {hit}
            BY <3>1, AppendProperties
        <3>3. CASE a \in Range(affected)
            BY <2>1, <3>3 DEF ReachInv
        <3>4. CASE a = hit /\ Propagated(hit) # {}
            BY <2>1, <3>4 DEF Propagated
        <3>5. QED
            BY <2>1, <2>8, <3>2, <3>3, <3>4
    <2>9. QED
        BY <1>1, <2>1, <2>2, <2>3, <2>6, <2>7, <2>8
<1>4. CASE \E d \in Assets : Ingest(d)
    <2>1. /\ pc = "trace" /\ lineage = catalog.edges
          /\ UNCHANGED <<pc, catalog, pending, tainted, affected>>
        BY <1>4 DEF Ingest, impact
    <2>2. Ways \subseteq Ways' /\ Downstream' = Downstream /\ Handled' = Handled
        BY <2>1 DEF Ways, Downstream, Handled
    <2>3. /\ Reached(Ways)[Handled] \subseteq Reached(Ways')[Handled]
          /\ Reached(Ways)[Cardinality(Assets)] \subseteq Reached(Ways')[Cardinality(Assets)]
        BY <2>2, HandledIsSmall, AssetsAreCounted, ReachedGrows
    <2>4. QED
        BY <1>1, <2>1, <2>2, <2>3 DEF ReachInv
<1>5. CASE /\ UNCHANGED <<catalog, lineage, pending, tainted, affected, unaffected>>
           /\ pc' = "trace" => pc = "trace"
    <2>1. Ways' = Ways /\ Downstream' = Downstream /\ Handled' = Handled
        BY <1>5 DEF Ways, Downstream, Handled
    <2>2. QED
        BY <1>1, <1>5, <2>1 DEF ReachInv
<1>6. QED
    BY <1>2, <1>3, <1>4, <1>5, ImpactFrame

-----------------------------------------------------------------------------
(* The decisions and the resolutions behind a control.                     *)

Seen(s, type, about, value) ==
    \E e \in Range(s) : e.type = type /\ e.about = about /\ e.value = value

LEMMA ObservedIsSeen ==
    /\ \A type, about, value : Observed(type, about, value) <=> Seen(stream, type, about, value)
    /\ (\A type, about, value : Observed(type, about, value) <=> Seen(stream, type, about, value))'
BY DEF Observed, Seen, Range

\* What was observed stays observed, and an event that is appended is.
LEMMA SeenGrows ==
    ASSUME StreamIsSeq, [Next]_vars
    PROVE  /\ \A type, about, value :
                 Seen(stream, type, about, value) => Seen(stream', type, about, value)
           /\ \A type, about, value :
                 stream' = Append(stream, Event(type, about, value)) => Seen(stream', type, about, value)
<1>1. ASSUME NEW e, stream' = Append(stream, e) PROVE Range(stream') = Range(stream) \cup {e}
    BY <1>1, AppendProperties DEF StreamIsSeq
<1>2. Range(stream) \subseteq Range(stream')
    <2>1. stream' = stream \/ \E e : stream' = Append(stream, e)
        BY StreamFrame DEF vars
    <2>2. QED
        BY <1>1, <2>1
<1>3. ASSUME NEW type, NEW about, NEW value, stream' = Append(stream, Event(type, about, value))
      PROVE  Seen(stream', type, about, value)
    <2>1. Event(type, about, value) \in Range(stream')
        BY <1>1, <1>3
    <2>2. QED
        BY <2>1 DEF Seen, Event
<1>4. QED
    BY <1>2, <1>3 DEF Seen

AllResolved(s) ==
    /\ Seen(s, "HYPOTHESIS_RESOLVED", "H1", "REJECTED")
    /\ Seen(s, "HYPOTHESIS_RESOLVED", "H2", "CONFIRMED")
    /\ Seen(s, "HYPOTHESIS_RESOLVED", "H3", "REJECTED")
RootCauseConfirmed == {"lineage", "trace", "decide", "allow", "finish"} \cup Written

\* The hypotheses that are not left are resolved in the stream, and after the last one
\* the root cause is confirmed.
ResolveInv ==
    /\ pc = "resolve" => \A h \in {"H1", "H2", "H3"} :
          h \in Range(left) \/ Seen(stream, "HYPOTHESIS_RESOLVED", h, Status(h))
    /\ pc \in RootCauseConfirmed => AllResolved(stream)
    /\ \A a \in Assets : plan[a] # NoRule => AllResolved(stream)

LEMMA ResolveInit == ASSUME Init PROVE ResolveInv
BY DEF Init, ResolveInv, RootCauseConfirmed, Written, Enforcing

LEMMA ResolveNext == ASSUME TypeInv, ResolveInv, [Next]_vars PROVE ResolveInv'
<1> USE DEF Written, Enforcing
<1>1. TypeOK /\ StreamIsSeq
    BY DEF TypeInv
<1>2. AllResolved(stream) => AllResolved(stream')
    BY <1>1, SeenGrows DEF AllResolved
<1>3. ResolveInv' <=>
          /\ pc' = "resolve" => \A h \in {"H1", "H2", "H3"} :
                h \in Range(left') \/ Seen(stream', "HYPOTHESIS_RESOLVED", h, Status(h)')
          /\ pc' \in RootCauseConfirmed => AllResolved(stream')
          /\ \A a \in Assets : plan'[a] # NoRule => AllResolved(stream')
    BY DEF ResolveInv, AllResolved, Seen, Status, Degraded, Holds, NoImprovementSoFar, Range
<1>4. ASSUME plan' = plan, pc' # "resolve",
             pc' \in RootCauseConfirmed => pc \in RootCauseConfirmed
      PROVE  ResolveInv'
    BY <1>2, <1>3, <1>4 DEF ResolveInv
<1>5. CASE UNCHANGED vars
    <2>1. UNCHANGED <<pc, left, stream, evidence, plan>>
        BY <1>5 DEF vars
    <2>2. \A h : Status(h)' = Status(h)
        BY <2>1 DEF Status, Degraded, Holds, NoImprovementSoFar
    <2>3. QED
        BY <1>3, <2>1, <2>2 DEF ResolveInv
<1>6. CASE Raise \/ ReadDownstream \/ TraceHit \/ \E d \in Assets : Ingest(d)
    BY <1>4, <1>6 DEF Raise, ReadDownstream, TraceHit, Ingest, RootCauseConfirmed
<1>7. CASE Detect \/ Escalate \/ Create \/ IncidentWritten \/ CreateBundle \/ LogWritten
           \/ RequestApproval \/ BlockReport \/ AllowSafe
    BY <1>4, <1>7 DEF Detect, Escalate, Create, IncidentWritten, CreateBundle, LogWritten,
                RequestApproval, BlockReport, AllowSafe, Announce, Emit, RootCauseConfirmed
<1>8. CASE Open \/ Close \/ Finish \/ Investigate
    BY <1>4, <1>8 DEF Open, Close, Finish, Investigate, Advance, Move, Emit, RootCauseConfirmed
<1>9. CASE Propose \/ AskCatalog \/ MapImpact \/ Notify \/ ControlApplied
    BY <1>4, <1>9 DEF Propose, AskCatalog, MapImpact, Notify, ControlApplied, EmitNext, Emit,
                RootCauseConfirmed
<1>10. CASE RaiseIncident \/ WriteLog \/ PassOver \/ TagAsset \/ ControlAsset
    BY <1>4, <1>10 DEF RaiseIncident, WriteLog, PassOver, TagAsset, ControlAsset, WriteNative,
                WriteControl, RootCauseConfirmed
<1>11. CASE CheckRows
    <2>1. left' = Hypotheses /\ plan' = plan /\ pc' \in {"resolve", "FAILED"}
        BY <1>11 DEF CheckRows, Emit
    <2>2. \A h \in {"H1", "H2", "H3"} : h \in Range(left')
        BY <2>1, HypothesesAre
    <2>3. QED
        BY <1>2, <1>3, <2>1, <2>2 DEF ResolveInv, RootCauseConfirmed
<1>12. CASE Resolve
    <2>1. /\ pc = "resolve" /\ left # <<>> /\ left' = Tail(left)
          /\ stream' = Append(stream, Event("HYPOTHESIS_RESOLVED", Head(left), Status(Head(left))))
          /\ pc' \in {IF left' = <<>> THEN (IF Confirmed THEN "lineage" ELSE "FAILED")
                      ELSE "resolve", "FAILED"}
          /\ UNCHANGED <<evidence, plan>>
        BY <1>12 DEF Resolve, EmitNext, Emit
    <2>2. \A h : Status(h)' = Status(h)
        BY <2>1 DEF Status, Degraded, Holds, NoImprovementSoFar
    <2>3. Range(left) = {Head(left)} \cup Range(left')
        BY <1>1, <2>1, LoopProperties DEF TypeOK
    <2>4. \A h \in {"H1", "H2", "H3"} :
              h \in Range(left') \/ Seen(stream', "HYPOTHESIS_RESOLVED", h, Status(h))
        <3>1. TAKE h \in {"H1", "H2", "H3"}
        <3>2. CASE h = Head(left)
            BY <1>1, <2>1, <3>2, SeenGrows
        <3>3. CASE h # Head(left)
            BY <1>1, <2>1, <2>3, <3>3, SeenGrows DEF ResolveInv
        <3>4. QED
            BY <3>2, <3>3
    <2>5. CASE pc' = "lineage"
        <3>1. left' = <<>> /\ Confirmed
            BY <2>1, <2>5
        <3>2. Range(left') = {}
            BY <3>1 DEF Range
        <3>3. AllResolved(stream')
            BY <2>4, <3>1, <3>2 DEF Confirmed, AllResolved
        <3>4. QED
            BY <1>3, <2>5, <3>3
    <2>6. CASE pc' # "lineage"
        <3>1. pc' \in {"resolve", "FAILED"}
            BY <2>1, <2>6
        <3>2. QED
            BY <1>2, <1>3, <2>1, <2>2, <2>4, <3>1 DEF ResolveInv, RootCauseConfirmed
    <2>7. QED
        BY <2>5, <2>6
<1>13. CASE DecideAsset
    <2>1. pc = "decide" /\ pc' \in {"decide", "raise", "FAILED"}
        BY <1>13 DEF DecideAsset, EmitNext, Emit
    <2>2. AllResolved(stream')
        BY <1>2, <2>1 DEF ResolveInv, RootCauseConfirmed
    <2>3. QED
        BY <1>3, <2>1, <2>2
<1>14. QED
    BY <1>5, <1>6, <1>7, <1>8, <1>9, <1>10, <1>11, <1>12, <1>13 DEF Next


Deciding == {"decide", "raise", "raised", "bundle", "log", "logged", "approval", "notify"}

\* No asset is decided before the impact is mapped nor controlled before the plan is
\* complete; an affected rule is on the cover and its decision in the stream; a control is
\* on an asset with an affected rule.
PlanInv ==
    /\ pc \in Before => \A a \in Assets : plan[a] = NoRule
    /\ pc \in Before \cup Deciding => \A a \in Assets : control[a] = "CLEAN"
    /\ pc = "decide" => \A a \in Range(Contexts) : a \in Range(left) \/ plan[a] # NoRule
    /\ pc \in Deciding \ {"decide"} => \A a \in Range(Contexts) : plan[a] # NoRule
    /\ pc \in Enforcing => \A a \in Range(left) : plan[a] # NoRule
    /\ \A a \in Assets : plan[a] \in AffectedRules =>
          a \in Cover /\ Seen(stream, "POLICY_DECIDED", a, plan[a].decision)
    /\ \A a \in Assets : control[a] # "CLEAN" => plan[a] \in AffectedRules

LEMMA PlanInit == ASSUME Init PROVE PlanInv
<1>1. \A a \in Assets : plan[a] = NoRule /\ control[a] = "CLEAN"
    BY DEF Init
<1>2. pc = "detect"
    BY DEF Init
<1>3. QED
    BY <1>1, <1>2, AffectedRulesWrite DEF PlanInv, Deciding, Enforcing

LEMMA PlanNext == ASSUME TypeInv, PlanInv, [Next]_vars PROVE PlanInv'
<1> USE DEF Enforcing, Deciding, Before, Ended
<1>1. TypeOK /\ AssetLoop /\ StreamIsSeq
    BY DEF TypeInv
<1>2. PlanInv' <=>
    /\ pc' \in Before => \A a \in Assets : plan'[a] = NoRule
    /\ pc' \in Before \cup Deciding => \A a \in Assets : control'[a] = "CLEAN"
    /\ pc' = "decide" => \A a \in Range(Contexts') : a \in Range(left') \/ plan'[a] # NoRule
    /\ pc' \in Deciding \ {"decide"} => \A a \in Range(Contexts') : plan'[a] # NoRule
    /\ pc' \in Enforcing => \A a \in Range(left') : plan'[a] # NoRule
    /\ \A a \in Assets : plan'[a] \in AffectedRules =>
          a \in Cover' /\ Seen(stream', "POLICY_DECIDED", a, plan'[a].decision)
    /\ \A a \in Assets : control'[a] # "CLEAN" => plan'[a] \in AffectedRules
    BY DEF PlanInv, Range, Seen, AffectedRules, AffectedRoles, Rule
<1>3. UNCHANGED <<affected, unaffected>> => Contexts' = Contexts /\ Cover' = Cover
    BY DEF Contexts, Cover
<1>4. \A a, d : Seen(stream, "POLICY_DECIDED", a, d) => Seen(stream', "POLICY_DECIDED", a, d)
    BY <1>1, SeenGrows
<1>5. left # <<>> => Range(left) = {Head(left)} \cup Range(Tail(left))
    BY <1>1, LoopProperties DEF TypeOK
<1>6. ASSUME pc \in Before, UNCHANGED <<plan, control>>,
             pc' \in (Before \cup Ended)
      PROVE  PlanInv'
    BY <1>2, <1>6, AffectedRulesWrite DEF PlanInv
<1>7. ASSUME UNCHANGED <<affected, unaffected, plan, control>>, pc' \in Ended \cup {"allow", "finish"}
      PROVE  PlanInv'
    BY <1>2, <1>3, <1>4, <1>7 DEF PlanInv
<1>8. CASE UNCHANGED vars
    <2>1. UNCHANGED <<pc, left, affected, unaffected, plan, control, stream>>
        BY <1>8 DEF vars
    <2>2. QED
        BY <1>2, <1>3, <2>1 DEF PlanInv
<1>9. CASE Raise
    BY <1>7, <1>9 DEF Raise, impact, datahub
<1>10. CASE Detect \/ Escalate \/ Create \/ Open \/ Close \/ Investigate \/ Propose
            \/ AskCatalog \/ CheckRows \/ Resolve \/ ReadDownstream \/ TraceHit
            \/ \E d \in Assets : Ingest(d)
    <2>1. /\ pc \in Before /\ UNCHANGED <<plan, control>>
          /\ pc' \in (Before \cup Ended)
        BY <1>10 DEF Detect, Escalate, Create, Open, Close, Investigate, Propose,
            AskCatalog, CheckRows, Resolve, ReadDownstream, TraceHit, Ingest, Announce, Advance,
            Move, EmitNext, Emit, datahub
    <2>2. QED
        BY <1>6, <2>1
<1>11. CASE MapImpact
    <2>1. /\ pc = "trace" /\ left' = Contexts /\ pc' \in {"decide", "FAILED"}
          /\ UNCHANGED <<affected, unaffected, plan, control>>
        BY <1>11 DEF MapImpact, Emit, impact, datahub
    <2>2. QED
        BY <1>2, <1>3, <1>4, <2>1 DEF PlanInv
<1>12. CASE DecideAsset
    <2> DEFINE a == Head(left)
               rule == IF IsAffected(a) THEN AffectedRoles[catalog.role[a]] ELSE UnaffectedRule
    <2>1. /\ pc = "decide" /\ left # <<>> /\ left' = Tail(left)
          /\ pc' \in {"decide", "raise", "FAILED"}
          /\ pc' = "raise" => left' = <<>>
          /\ UNCHANGED <<affected, unaffected, control>>
          /\ stream' = Append(stream, Event("POLICY_DECIDED", a, rule.decision))
          /\ plan' = [plan EXCEPT ![a] = rule]
          /\ IsAffected(a) => catalog.role[a] \in DOMAIN AffectedRoles
        BY <1>12 DEF DecideAsset, EmitNext, Emit, impact, datahub
    <2> HIDE DEF rule
    <2>2. a \in Assets
        BY <1>1, <2>1, LoopProperties DEF AssetLoop
    <2>3. plan'[a] = rule /\ \A b \in Assets : b # a => plan'[b] = plan[b]
        BY <1>1, <2>1, <2>2 DEF TypeOK
    <2>4. rule # NoRule /\ (rule \in AffectedRules => a \in Cover)
        BY <2>1, AffectedRulesWrite DEF rule, IsAffected, Cover
    <2>5. Seen(stream', "POLICY_DECIDED", a, rule.decision)
        BY <1>1, <2>1, SeenGrows
    <2>6. Range(Contexts) \subseteq Assets
        BY ContextsProperties DEF Range
    <2>7. \A b \in Range(Contexts) : b \in Range(left') \/ plan'[b] # NoRule
        BY <1>5, <2>1, <2>3, <2>4, <2>6 DEF PlanInv
    <2>8. left' = <<>> => Range(left') = {}
        BY DEF Range
    <2> HIDE DEF a
    <2>9. \A b \in Assets : plan'[b] \in AffectedRules =>
              b \in Cover /\ Seen(stream', "POLICY_DECIDED", b, plan'[b].decision)
        BY <1>4, <2>3, <2>4, <2>5 DEF PlanInv
    <2>10. \A b \in Assets : control'[b] = "CLEAN"
        BY <2>1 DEF PlanInv
    <2>11. QED
        BY <1>2, <1>3, <2>1, <2>7, <2>8, <2>9, <2>10
<1>13. CASE RaiseIncident \/ IncidentWritten \/ CreateBundle \/ WriteLog \/ LogWritten
            \/ RequestApproval
    <2>1. /\ pc \in Deciding \ {"decide"} /\ pc' \in (Deciding \ {"decide"}) \cup {"FAILED"}
          /\ UNCHANGED <<affected, unaffected, plan, control>>
        BY <1>13 DEF RaiseIncident, IncidentWritten, CreateBundle, WriteLog, LogWritten,
                     RequestApproval, WriteNative, Announce, Emit, impact, datahub
    <2>2. QED
        BY <1>2, <1>3, <1>4, <2>1 DEF PlanInv
<1>14. CASE Notify
    <2>1. /\ pc = "notify" /\ left' = Contexts /\ pc' \in {"tag", "FAILED"}
          /\ UNCHANGED <<affected, unaffected, plan, control>>
        BY <1>14 DEF Notify, Emit, impact, datahub
    <2>2. QED
        BY <1>2, <1>3, <1>4, <2>1 DEF PlanInv
<1>15. CASE PassOver \/ ControlApplied
    <2>1. /\ pc \in Enforcing /\ pc' \in {"tag", "FAILED"} /\ left # <<>> /\ left' = Tail(left)
          /\ UNCHANGED <<affected, unaffected, plan, control>>
        BY <1>15 DEF PassOver, ControlApplied, EmitNext, Emit, impact, datahub
    <2>2. QED
        BY <1>2, <1>3, <1>4, <1>5, <2>1 DEF PlanInv
<1>16. CASE TagAsset \/ ControlAsset
    <2>1. /\ pc \in Enforcing /\ pc' \in Enforcing /\ left # <<>> /\ plan[Head(left)].writes
          /\ UNCHANGED <<affected, unaffected, plan, left>>
          /\ \E value : control' = [control EXCEPT ![Head(left)] = value]
        BY <1>16 DEF TagAsset, ControlAsset, WriteControl, work, impact
    <2>2. Head(left) \in Assets /\ Head(left) \in Range(left)
        BY <1>1, <1>5, <2>1, LoopProperties DEF AssetLoop
    <2>3. plan[Head(left)] \in AffectedRules
        <3>1. plan[Head(left)] \in Rules
            BY <1>1, <2>1, <2>2 DEF TypeOK, PlanInv
        <3>2. QED
            BY <2>1, <3>1, AffectedRulesWrite
    <2>4. \A b \in Assets : b # Head(left) => control'[b] = control[b]
        BY <1>1, <2>1, <2>2 DEF TypeOK
    <2>5. QED
        BY <1>2, <1>3, <1>4, <2>1, <2>3, <2>4 DEF PlanInv
<1>17. CASE BlockReport \/ AllowSafe \/ Finish
    <2>1. UNCHANGED <<affected, unaffected, plan, control>> /\ pc' \in Ended \cup {"allow", "finish"}
        BY <1>17 DEF BlockReport, AllowSafe, Finish, Advance, Announce, Move, Emit, impact, datahub
    <2>2. QED
        BY <1>7, <2>1
<1>18. QED
    BY <1>8, <1>9, <1>10, <1>11, <1>12, <1>13, <1>14, <1>15, <1>16, <1>17 DEF Next

\* Wherever a run stops, a control that it left in DataHub is on the batch or on a dataset
\* that the drifted field feeds, and the stream holds the decision and the three
\* resolutions that asked for it.
THEOREM LiveRunControlsAreExplained == Spec => []ControlsAreExplained
<1>1. TypeInv /\ ReachInv /\ ResolveInv /\ PlanInv => ControlsAreExplained
    <2>1. SUFFICES ASSUME TypeInv, ReachInv, ResolveInv, PlanInv,
                          NEW a \in Assets, control[a] # "CLEAN"
                   PROVE  /\ a = Batch \/ a \in {field[1] : field \in Cone}
                          /\ \E d \in {"HALT", "WARN"} : Observed("POLICY_DECIDED", a, d)
                          /\ Observed("HYPOTHESIS_RESOLVED", "H1", "REJECTED")
                          /\ Observed("HYPOTHESIS_RESOLVED", "H2", "CONFIRMED")
                          /\ Observed("HYPOTHESIS_RESOLVED", "H3", "REJECTED")
        BY DEF ControlsAreExplained
    <2>2. plan[a] \in AffectedRules
        BY <2>1 DEF PlanInv
    <2>3. a \in Cover /\ Seen(stream, "POLICY_DECIDED", a, plan[a].decision)
        BY <2>1, <2>2 DEF PlanInv
    <2>4. AllResolved(stream)
        BY <2>1, <2>2, AffectedRulesWrite DEF ResolveInv
    <2>5. a = Batch \/ \E f \in tainted : f[1] = a
        BY <2>1, <2>3 DEF Cover, ReachInv
    <2>6. tainted \subseteq Cone
        BY <2>1 DEF ReachInv, Cone, Ways
    <2>7. plan[a].decision \in {"HALT", "WARN"}
        BY <2>2, AffectedRulesWrite
    <2>8. QED
        BY <2>3, <2>4, <2>5, <2>6, <2>7, ObservedIsSeen DEF AllResolved
<1>2. Spec => []ReachInv
    BY ReachInit, ReachNext, TypeInvariant, PTL DEF Spec
<1>3. Spec => []ResolveInv
    BY ResolveInit, ResolveNext, TypeInvariant, PTL DEF Spec
<1>4. Spec => []PlanInv
    BY PlanInit, PlanNext, TypeInvariant, PTL DEF Spec
<1>5. QED
    BY <1>1, <1>2, <1>3, <1>4, TypeInvariant, PTL

==============================================================================
