------------------------ MODULE CatalogControlProofs ------------------------
(***************************************************************************)
(* Proofs about CatalogControl, for any incidents, datasets, plans, native *)
(* entities and recovery policy: what the catalog holds of an incident,    *)
(* whatever write an operation stops at, when one operation runs at a      *)
(* time.  (CrossIncidentStaysLocked shows what two at a time may do.)      *)
(***************************************************************************)
EXTENDS CatalogControl, SequenceTheorems, TLAPS

-----------------------------------------------------------------------------
(* The invariants                                                          *)

\* The writes that request q has still to do on the entity it is at, and those of
\* properties
Pending(q) == Range(q.todo)
Puts(q) == {w \in Pending(q) : w.kind = "props"}

\* An entity that names an incident has a history and targets; so has whatever is
\* written with an owner, and no write sets or removes these keys apart.
Whole(p) == p.owner # None => p.history \in Seq(Evaluation) /\ p.targets \in SUBSET Datasets
WholeUpdate(u) ==
    /\ "owner" \in u.keys \/ "targets" \in u.keys => u.keys = Keys
    /\ u.keys = Keys => Whole(u.to)
    /\ "history" \in u.keys /\ u.keys # Keys => u.to.history \in Seq(Evaluation)

\* A request that is served is about an incident.
WholeRequest(q) ==
    /\ q.op # "idle" => q.inc \in Incidents
    /\ WholeUpdate(q.update)
    /\ \A w \in Puts(q) : WholeUpdate(w.update)

TypeInv ==
    /\ TypeOK
    /\ \A e \in Entities : Whole(props[e])
    /\ \A x \in Executors : WholeRequest(request[x])

\* The properties of entity e, when they name an incident, are what the run of that
\* incident wrote there, and the history is made of its own evaluations.
Belongs(e, p) == p.owner # None =>
    /\ p.targets = Plan[p.owner]
    /\ \A k \in DOMAIN p.history : p.history[k].inc = p.owner
    /\ e \in Datasets => e \in Plan[p.owner]

\* Update u makes entity e one of incident i, with its operations halted.
Claims(i, e, u) ==
    /\ u.keys = Keys /\ u.to.owner = i /\ u.to.policy = "HALT"
    /\ Belongs(e, u.to)

\* What a live run of the incident of x has written and has still to write
Running(q) ==
    LET i == q.inc IN
    /\ i \in Incidents /\ run[i] = "live" /\ q.left \subseteq Plan[i]
    /\ \A w \in Pending(q) : w.kind # "delete"
    /\ \A w \in Pending(q) : w.kind = "publish" => w.on = i
    /\ \A w \in Puts(q) : Claims(i, w.on, w.update)
    /\ \A n \in q.natives : Claims(i, n, q.update)
    /\ \/ Control \in q.left \/ props[Control].owner = i
       \/ \E w \in Puts(q) : w.on = Control
    /\ ~shared =>
          /\ \A w \in Puts(q) : props[w.on].owner \in {i, None}
          /\ \A n \in q.natives : props[n].owner \in {i, None}
    /\ \A n \in q.natives : \E d \in Datasets :
          n \in Mirrors[d] /\ (props[d].owner = i \/ \E w \in Puts(q) : w.on = d)
    /\ \A w \in Puts(q) : w.on \in Natives =>
          \E d \in Datasets : w.on \in Mirrors[d] /\ props[d].owner = i

\* What a recovery decided and has still to write
Evaluating(q, w) ==
    LET i == q.inc IN
    /\ q.todo = <<w>> /\ q.natives = {} /\ w.kind = "props" /\ w.on = Control
    /\ "owner" \notin w.update.keys
    /\ \E clean \in BOOLEAN : w.update.to.history
           = Append(props[Control].history, [inc |-> i, clean |-> clean])
    /\ "history" \in w.update.keys
    /\ "policy" \in w.update.keys \/ q.left # {} => OwnEvidence(w.update.to.history, i)
Recovering(q) ==
    LET i == q.inc IN
    /\ i \in Incidents /\ run[i] = "completed" /\ props[Control].owner = i
    /\ \A w \in Pending(q) : w.kind \notin {"publish", "delete"}
    /\ \/ \E w \in Pending(q) : Evaluating(q, w)
       \/ /\ \A w \in Puts(q) : w.update = Released
          /\ q.natives # {} => q.update = Released
          /\ q.left # {} \/ q.natives # {} \/ Puts(q) # {} =>
                OwnEvidence(props[Control].history, i)

\* What a reset has cleaned and has still to clean
Resetting(q) ==
    LET i == q.inc IN
    /\ i \in Incidents /\ run[i] \in {"completed", "failed"}
    /\ \A w \in Pending(q) : w.kind # "publish"
    /\ \A w \in Pending(q) : w.kind = "delete" => w.on = i
    /\ \A w \in Puts(q) : /\ w.update = [keys |-> Keys, to |-> Absent]
                          /\ props[w.on].owner = i
    /\ \A k \in DOMAIN q.todo : k > 1 => q.todo[k].kind # "props"
    /\ \A d \in q.left : props[d].owner = i
    /\ \A d \in Datasets : props[d].owner = i => d \in q.left \/ \E w \in Puts(q) : w.on = d
    /\ ~shared => \A n \in Natives : props[n].owner = i =>
                      n \in q.natives \/ \E w \in Puts(q) : w.on = n
    /\ \A a \in artifacts[i] : a \in q.artifacts \/
           \E w \in Pending(q) : w.kind = "delete" /\ a \in w.artifacts
    /\ \A w \in Puts(q) : w.on \in Datasets =>
          /\ q.natives = {} /\ q.artifacts = {} /\ w.on \notin q.left
          /\ \A v \in Pending(q) : v.kind # "delete" /\ (v.kind = "props" => v.on = w.on)
          /\ w.on = Control => q.left = {}

\* A step of the repair has at most the Decision Log of its incident to write.
Repairing(q) ==
    /\ q.inc \in Incidents /\ run[q.inc] = "completed"
    /\ \A w \in Pending(q) : w.kind = "publish" /\ w.on = q.inc /\ w.artifacts = {"log"}

\* Whatever operation x is in has come this far.
Progress(q) ==
    /\ q.op = "idle" => q.todo = <<>>
    /\ q.op = "run" => Running(q)
    /\ q.op = "recover" => Recovering(q)
    /\ q.op = "repair" => Repairing(q)
    /\ q.op = "reset" => Resetting(q)

LiveIsRun ==
    \A i \in Incidents : run[i] = "live" =>
        \E x \in Executors : request[x].op = "run" /\ request[x].inc = i

\* A dataset of an incident that is allowed was not enforced by a run that is live, and
\* there is evidence whenever the control asset names the same incident.
AllowedIsOwn ==
    \A d \in Datasets :
        /\ props[d].owner # None /\ props[d].policy = "ALLOW"
        => /\ run[props[d].owner] # "live"
           /\ props[Control].owner = props[d].owner =>
                 OwnEvidence(props[Control].history, props[d].owner)

\* A native entity names an incident only together with a dataset that names it.
Anchored ==
    ~shared => \A n \in Natives : props[n].owner # None =>
        \E d \in Datasets : n \in Mirrors[d] /\ props[d].owner = props[n].owner

\* What is left of an incident whose run is gone
NoOrphanedDataset ==
    \A d \in Datasets : props[d].owner # None => run[props[d].owner] # "none"
NoOrphanedArtifact == \A i \in Incidents : run[i] = "none" => artifacts[i] = {}

CatalogInv ==
    /\ TypeInv
    /\ \A e \in Entities : Belongs(e, props[e])
    /\ \A x \in Executors : Progress(request[x])
    /\ LiveIsRun /\ AllowedIsOwn /\ Anchored
    /\ NoOrphanedDataset /\ NoOrphanedArtifact /\ OwnershipOutlivesReset

\* One request is served at a time.
OneAtATime == \A x, y \in Executors : x = y

-----------------------------------------------------------------------------
(* Facts about the operators                                               *)

LEMMA Rest ==
    ASSUME NEW s \in Seq(Writes), s # <<>>
    PROVE  /\ Head(s) \in Writes /\ Head(s) = s[1] /\ 1 \in DOMAIN s
           /\ Tail(s) \in Seq(Writes)
           /\ Range(s) = {Head(s)} \cup Range(Tail(s))
<1>1. Head(s) \in Writes /\ Head(s) = s[1] /\ 1 \in DOMAIN s /\ Tail(s) \in Seq(Writes)
    OBVIOUS
<1>2. Range(Tail(s)) \subseteq Range(s) /\ Head(s) \in Range(s)
    BY DEF Range
<1>3. ASSUME NEW k \in DOMAIN s PROVE s[k] \in {Head(s)} \cup Range(Tail(s))
    <2>1. CASE k = 1
        BY <2>1, <1>1
    <2>2. CASE k # 1
        <3>1. k - 1 \in DOMAIN Tail(s) /\ Tail(s)[k - 1] = s[k]
            BY <2>2, <1>3
        <3>2. QED
            BY <3>1 DEF Range
    <2>3. QED
        BY <2>1, <2>2
<1>4. Range(s) \subseteq {Head(s)} \cup Range(Tail(s))
    BY <1>3 DEF Range
<1>5. QED
    BY <1>1, <1>2, <1>4

LEMMA TailIndexes ==
    ASSUME NEW s \in Seq(Writes), s # <<>>, NEW k \in DOMAIN Tail(s)
    PROVE  k + 1 \in DOMAIN s /\ k + 1 > 1 /\ Tail(s)[k] = s[k + 1]
OBVIOUS

LEMMA RangeOfNone == Range(<<>>) = {}
BY DEF Range

LEMMA RangeOfOne ==
    ASSUME NEW a
    PROVE  Range(<<a>>) = {a}
BY DEF Range

LEMMA RangeOfTwo ==
    ASSUME NEW a, NEW b
    PROVE  Range(<<a, b>>) = {a, b}
BY DEF Range

LEMMA RangeOfThree ==
    ASSUME NEW a, NEW b, NEW c
    PROVE  Range(<<a, b, c>>) = {a, b, c}
BY DEF Range

LEMMA OneAndTwo ==
    ASSUME NEW a \in Writes, NEW b \in Writes, NEW c \in Writes
    PROVE  << a >> \o << b, c >> = << a, b, c >>
<1> DEFINE s == << a >> \o << b, c >>
           t == << a, b, c >>
<1>1. /\ << a >> \in Seq(Writes) /\ << b, c >> \in Seq(Writes)
      /\ t \in Seq(Writes) /\ Len(t) = 3 /\ t[1] = a /\ t[2] = b /\ t[3] = c
    OBVIOUS
<1>2. s \in Seq(Writes) /\ Len(s) = 3 /\ s[1] = a /\ s[2] = b /\ s[3] = c
    BY <1>1
<1> HIDE DEF s, t
<1>3. \A k \in 1..3 : s[k] = t[k]
    BY <1>1, <1>2
<1>4. s = t
    BY <1>1, <1>2, <1>3, SeqEqual
<1>5. QED
    BY <1>4 DEF s, t

LEMMA PropertiesWritten ==
    ASSUME NEW w \in Writes, w.kind = "props"
    PROVE  w.on \in Entities /\ w.update \in Update
BY DEF Writes

LEMMA TagsWritten ==
    ASSUME NEW w \in Writes, w.kind \in {"tag", "untag"}
    PROVE  w.on \in Entities /\ w.tags \subseteq Tags
BY DEF Writes

LEMMA ArtifactsWritten ==
    ASSUME NEW w \in Writes, w.kind \in {"publish", "delete"}
    PROVE  w.on \in Incidents /\ w.artifacts \subseteq Artifacts
BY DEF Writes

LEMMA SetPropertiesFields ==
    ASSUME NEW e \in Entities, NEW u \in Update
    PROVE  /\ SetProperties(e, u) \in Writes
           /\ SetProperties(e, u).kind = "props" /\ SetProperties(e, u).on = e
           /\ SetProperties(e, u).update = u
BY DEF SetProperties, Writes

LEMMA TagFields ==
    ASSUME NEW e \in Entities, NEW t \in Tags, NEW T \in SUBSET Tags
    PROVE  /\ AddTag(e, t) \in Writes /\ AddTag(e, t).kind = "tag"
           /\ RemoveTags(e, T) \in Writes /\ RemoveTags(e, T).kind = "untag"
BY DEF AddTag, RemoveTags, Writes

LEMMA ArtifactFields ==
    ASSUME NEW i \in Incidents, NEW a \in Artifacts
    PROVE  /\ PublishArtifact(i, a) \in Writes /\ PublishArtifact(i, a).kind = "publish"
           /\ PublishArtifact(i, a).on = i /\ PublishArtifact(i, a).artifacts = {a}
           /\ DeleteArtifact(i, a) \in Writes /\ DeleteArtifact(i, a).kind = "delete"
           /\ DeleteArtifact(i, a).on = i /\ DeleteArtifact(i, a).artifacts = {a}
BY DEF PublishArtifact, DeleteArtifact, Writes

LEMMA UpdatedFields ==
    ASSUME NEW p \in Properties, NEW u \in Update
    PROVE  /\ Updated(p, u) \in Properties
           /\ Updated(p, u).owner = IF "owner" \in u.keys THEN u.to.owner ELSE p.owner
           /\ Updated(p, u).state = IF "state" \in u.keys THEN u.to.state ELSE p.state
           /\ Updated(p, u).policy = IF "policy" \in u.keys THEN u.to.policy ELSE p.policy
           /\ Updated(p, u).targets = IF "targets" \in u.keys THEN u.to.targets ELSE p.targets
           /\ Updated(p, u).history = IF "history" \in u.keys THEN u.to.history ELSE p.history
BY DEF Updated, Properties, Update, Keys

LEMMA UpdatedWhole ==
    ASSUME NEW p \in Properties, NEW u \in Update, Whole(p), WholeUpdate(u)
    PROVE  Whole(Updated(p, u))
<1>1. CASE u.keys = Keys
    BY <1>1, UpdatedFields DEF Whole, WholeUpdate, Keys
<1>2. CASE u.keys # Keys
    BY <1>2, UpdatedFields DEF Whole, WholeUpdate
<1>3. QED
    BY <1>1, <1>2

LEMMA AbsentFields ==
    /\ Absent \in Properties
    /\ Absent.owner = None /\ Absent.state = None /\ Absent.policy = None
    /\ Absent.targets = None /\ Absent.history = None
BY DEF Absent, Properties, Keys

LEMMA CleaningFields ==
    LET u == [keys |-> Keys, to |-> Absent] IN
    u \in Update /\ u.keys = Keys /\ u.to = Absent /\ WholeUpdate(u)
BY AbsentFields DEF Update, WholeUpdate, Whole, Keys

LEMMA ReleasedFields ==
    /\ Released \in Update /\ Released.keys = {"state", "policy"}
    /\ Released.to.state = "RESOLVED" /\ Released.to.policy = "ALLOW"
    /\ WholeUpdate(Released)
<1>1. /\ Released.keys = {"state", "policy"}
      /\ Released.to = [Absent EXCEPT !.state = "RESOLVED", !.policy = "ALLOW"]
    BY DEF Released
<1>2. /\ Released.to \in Properties
      /\ Released.to.state = "RESOLVED" /\ Released.to.policy = "ALLOW"
    BY <1>1, AbsentFields DEF Properties, ControlStates
<1>3. Released \in Update
    BY <1>1, <1>2 DEF Released, Update, Keys
<1>4. "owner" \notin Released.keys /\ Released.keys # Keys
    BY <1>1 DEF Keys
<1>5. QED
    BY <1>1, <1>2, <1>3, <1>4 DEF WholeUpdate

LEMMA NoUpdateFields == NoUpdate \in Update /\ NoUpdate.keys = {} /\ WholeUpdate(NoUpdate)
<1>1. NoUpdate.keys = {} /\ NoUpdate.to = Absent
    BY DEF NoUpdate
<1>2. NoUpdate \in Update
    BY AbsentFields DEF NoUpdate, Update
<1>3. QED
    BY <1>1, <1>2 DEF WholeUpdate, Keys

LEMMA IdleFields ==
    /\ Idle \in Request /\ Idle.op = "idle" /\ Idle.inc = None /\ Idle.left = {}
    /\ Idle.natives = {} /\ Idle.artifacts = {} /\ Idle.update = NoUpdate
    /\ Idle.todo = <<>> /\ Puts(Idle) = {} /\ WholeRequest(Idle)
<1>1. /\ Idle.op = "idle" /\ Idle.inc = None /\ Idle.left = {}
      /\ Idle.natives = {} /\ Idle.artifacts = {} /\ Idle.update = NoUpdate
      /\ Idle.todo = <<>>
    BY DEF Idle
<1>2. Idle \in Request
    BY NoUpdateFields DEF Idle, Request, Tags
<1>3. Puts(Idle) = {}
    BY <1>1, RangeOfNone DEF Puts, Pending
<1>4. QED
    BY <1>1, <1>2, <1>3, NoUpdateFields DEF WholeRequest

-----------------------------------------------------------------------------
(* What each step does to the request it serves                            *)

\* The types of what the request at x holds
LEMMA RequestFields ==
    ASSUME TypeInv, NEW x \in Executors
    PROVE  /\ request[x] \in Request /\ WholeRequest(request[x])
           /\ request[x].op \in {"idle", "run", "recover", "repair", "reset"}
           /\ request[x].inc \in Incidents \cup {None}
           /\ request[x].left \subseteq Datasets /\ request[x].natives \subseteq Natives
           /\ request[x].artifacts \subseteq Artifacts
           /\ request[x].update \in Update /\ request[x].tag \in Tags
           /\ request[x].todo \in Seq(Writes)
BY DEF TypeInv, TypeOK, Request

\* A request that takes the next dataset
Moved(q, left, natives, u, t, todo) ==
    [q EXCEPT !.left = left, !.natives = natives, !.update = u, !.tag = t, !.todo = todo]

LEMMA MovedFields ==
    ASSUME NEW q \in Request, NEW left \in SUBSET Datasets, NEW natives \in SUBSET Natives,
           NEW u \in Update, NEW t \in Tags, NEW todo \in Seq(Writes),
           NEW m, m = Moved(q, left, natives, u, t, todo)
    PROVE  /\ m \in Request /\ m.op = q.op /\ m.inc = q.inc
           /\ m.left = left /\ m.natives = natives /\ m.update = u /\ m.todo = todo
BY DEF Request, Moved

\* The request at x becomes q.
Becomes(x, q) == q \in Request /\ request' = [request EXCEPT ![x] = q]

LEMMA RequestTypes ==
    ASSUME TypeInv, NEW x \in Executors, NEW q, Becomes(x, q), WholeRequest(q),
           props' \in [Entities -> Properties], \A e \in Entities : Whole(props'[e]),
           tags' \in [Entities -> SUBSET Tags],
           artifacts' \in [Incidents -> SUBSET Artifacts],
           run' \in [Incidents -> {"none", "live", "completed", "failed"}],
           shared' \in BOOLEAN
    PROVE  TypeInv'
<1>1. request' \in [Executors -> Request]
    BY DEF TypeInv, TypeOK, Becomes
<1>2. \A y \in Executors : request'[y] = request[y] \/ request'[y] = q
    BY DEF TypeInv, TypeOK, Becomes
<1>3. \A y \in Executors : WholeRequest(request[y])
    BY DEF TypeInv
<1>4. ASSUME NEW y \in Executors PROVE WholeRequest(request[y])'
    <2>1. PICK r : r = request'[y]
        OBVIOUS
    <2>2. WholeRequest(r)
        BY <2>1, <1>2, <1>3
    <2>3. QED
        BY <2>1, <2>2 DEF WholeRequest, Puts, Pending
<1>5. QED
    BY <1>1, <1>4 DEF TypeInv, TypeOK

\* The request stays at a fixed catalog, except for the steps that write.
LEMMA QuietTypes ==
    ASSUME TypeInv, NEW x \in Executors, NEW q, Becomes(x, q), WholeRequest(q),
           UNCHANGED catalog,
           run' \in [Incidents -> {"none", "live", "completed", "failed"}],
           shared' \in BOOLEAN
    PROVE  TypeInv'
<1>1. UNCHANGED <<props, tags, artifacts>>
    BY DEF catalog
<1>2. \A e \in Entities : Whole(props'[e])
    BY <1>1 DEF TypeInv
<1>3. QED
    BY <1>1, <1>2, RequestTypes DEF TypeInv, TypeOK

LEMMA StartRunStep ==
    ASSUME TypeInv, CatalogAssumption,
           NEW x \in Executors, NEW i \in Incidents, StartRun(x, i)
    PROVE  \E q : /\ Becomes(x, q) /\ WholeRequest(q)
                  /\ q.op = "run" /\ q.inc = i /\ q.left = Plan[i] /\ q.natives = {}
                  /\ Puts(q) = {}
                  /\ \A w \in Pending(q) : w.kind = "publish" /\ w.on = i
<1> DEFINE q == [Idle EXCEPT
       !.op = "run", !.inc = i, !.left = Plan[i],
       !.todo = << PublishArtifact(i, "incident"), PublishArtifact(i, "log") >>]
<1>1. /\ PublishArtifact(i, "incident") \in Writes /\ PublishArtifact(i, "log") \in Writes
      /\ PublishArtifact(i, "incident").kind = "publish" /\ PublishArtifact(i, "incident").on = i
      /\ PublishArtifact(i, "log").kind = "publish" /\ PublishArtifact(i, "log").on = i
    BY ArtifactFields DEF Artifacts
<1>2. /\ q.op = "run" /\ q.inc = i /\ q.left = Plan[i] /\ q.natives = {} /\ q.update = NoUpdate
      /\ q.todo = << PublishArtifact(i, "incident"), PublishArtifact(i, "log") >>
    BY DEF Idle
<1>3. q \in Request
    <2>1. Plan[i] \subseteq Datasets
        BY DEF CatalogAssumption
    <2>2. << PublishArtifact(i, "incident"), PublishArtifact(i, "log") >> \in Seq(Writes)
        BY <1>1
    <2>3. QED
        BY <2>1, <2>2, IdleFields DEF Request
<1>4. Pending(q) = {PublishArtifact(i, "incident"), PublishArtifact(i, "log")}
    BY <1>2, RangeOfTwo DEF Pending
<1>5. Puts(q) = {}
    BY <1>1, <1>4 DEF Puts
<1>6. WholeRequest(q)
    BY <1>2, <1>5, NoUpdateFields DEF WholeRequest
<1>7. Becomes(x, q)
    BY <1>3 DEF StartRun, Becomes
<1>8. QED
    BY <1>1, <1>2, <1>4, <1>5, <1>6, <1>7

LEMMA MirrorNativeStep ==
    ASSUME TypeInv, NEW x \in Executors, MirrorNative(x)
    PROVE  \E q, n :
              /\ Becomes(x, q) /\ WholeRequest(q)
              /\ n \in request[x].natives
              /\ q.op = request[x].op /\ q.inc = request[x].inc /\ q.left = request[x].left
              /\ q.natives = request[x].natives \ {n} /\ q.update = request[x].update
              /\ q.todo # <<>> /\ Len(q.todo) = 3
              /\ Puts(q) = {SetProperties(n, q.update)}
              /\ \A w \in Pending(q) : w.kind \in {"tag", "untag", "props"}
<1>1. PICK n \in request[x].natives :
        request' = [request EXCEPT ![x].natives = @ \ {n},
           ![x].todo = << RemoveTags(n, Tags \ {request[x].tag}), AddTag(n, request[x].tag),
                          SetProperties(n, request[x].update) >>]
    BY DEF MirrorNative
<1>2. PICK todo : todo = << RemoveTags(n, Tags \ {request[x].tag}), AddTag(n, request[x].tag),
                          SetProperties(n, request[x].update) >>
    OBVIOUS
<1>3. PICK q : q = [request[x] EXCEPT !.natives = @ \ {n}, !.todo = todo]
    OBVIOUS
<1>4. n \in Entities
    BY RequestFields DEF Entities
<1>5. todo \in Seq(Writes)
    BY <1>2, <1>4, RequestFields, TagFields, SetPropertiesFields
<1>6. /\ q \in Request /\ q.op = request[x].op /\ q.inc = request[x].inc
      /\ q.left = request[x].left /\ q.natives = request[x].natives \ {n}
      /\ q.update = request[x].update /\ q.todo = todo
    BY <1>3, <1>5, RequestFields DEF Request
<1>7. Becomes(x, q)
    <2>1. request' = [request EXCEPT ![x] = q]
        BY <1>1, <1>2, <1>3 DEF TypeInv, TypeOK
    <2>2. QED
        BY <2>1, <1>6 DEF Becomes
<1>8. Pending(q) = {RemoveTags(n, Tags \ {request[x].tag}), AddTag(n, request[x].tag),
                    SetProperties(n, q.update)}
    BY <1>2, <1>6, RangeOfThree DEF Pending
<1>9. /\ RemoveTags(n, Tags \ {request[x].tag}).kind = "untag"
      /\ AddTag(n, request[x].tag).kind = "tag"
      /\ SetProperties(n, q.update).kind = "props"
      /\ SetProperties(n, q.update).update = request[x].update
    BY <1>4, <1>6, RequestFields, TagFields, SetPropertiesFields
<1>10. Puts(q) = {SetProperties(n, q.update)}
    BY <1>8, <1>9 DEF Puts
<1>11. WholeRequest(q)
    BY <1>6, <1>9, <1>10, RequestFields DEF WholeRequest
<1>12. q.todo # <<>> /\ Len(q.todo) = 3
    BY <1>2, <1>6
<1>13. QED
    BY <1>6, <1>7, <1>8, <1>9, <1>10, <1>11, <1>12

\* What enforce writes to asset d and to the native entities of d
Enforced(d, i) ==
    [keys |-> Keys, to |-> [owner |-> i, state |-> Status[d], policy |-> "HALT",
                            targets |-> Plan[i], history |-> History(d, i)]]

LEMMA EnforcedFields ==
    ASSUME TypeInv, CatalogAssumption, NEW d \in Datasets, NEW i \in Incidents
    PROVE  /\ Enforced(d, i) \in Update /\ Enforced(d, i).keys = Keys
           /\ Enforced(d, i).to.owner = i /\ Enforced(d, i).to.policy = "HALT"
           /\ Enforced(d, i).to.targets = Plan[i]
           /\ Enforced(d, i).to.history = History(d, i)
           /\ WholeUpdate(Enforced(d, i))
<1>1. /\ props[d] \in Properties /\ Whole(props[d]) /\ i # None
    BY DEF TypeInv, TypeOK, Entities, CatalogAssumption
<1>2. History(d, i) \in Seq(Evaluation)
    BY <1>1 DEF History, Whole
<1>3. /\ Plan[i] \in SUBSET Datasets /\ Status[d] \in {"AT_RISK", "QUARANTINED"}
    BY DEF CatalogAssumption
<1>4. [owner |-> i, state |-> Status[d], policy |-> "HALT",
       targets |-> Plan[i], history |-> History(d, i)] \in Properties
    BY <1>2, <1>3 DEF Properties, ControlStates
<1>5. Enforced(d, i) \in Update
    BY <1>4 DEF Enforced, Update
<1>6. /\ Enforced(d, i).keys = Keys
      /\ Enforced(d, i).to.owner = i /\ Enforced(d, i).to.policy = "HALT"
      /\ Enforced(d, i).to.targets = Plan[i]
      /\ Enforced(d, i).to.history = History(d, i)
    BY DEF Enforced
<1>7. QED
    BY <1>2, <1>3, <1>5, <1>6 DEF WholeUpdate, Whole

LEMMA EnforceAssetStep ==
    ASSUME TypeInv, CatalogAssumption, NEW x \in Executors, EnforceAsset(x)
    PROVE  \E q, d :
              /\ Becomes(x, q) /\ WholeRequest(q)
              /\ d \in request[x].left /\ d \in Datasets
              /\ q.op = "run" /\ q.inc = request[x].inc /\ q.left = request[x].left \ {d}
              /\ q.natives = Mirrors[d] /\ q.update = Enforced(d, q.inc)
              /\ Puts(q) = {SetProperties(d, q.update)}
              /\ \A w \in Pending(q) : w.kind \in {"tag", "untag", "props"}
              /\ shared' = (shared \/ \E e \in {d} \cup Mirrors[d] :
                                         props[e].owner \notin {q.inc, None})
<1>1. PICK d \in request[x].left :
        /\ request' = [request EXCEPT ![x].left = @ \ {d}, ![x].natives = Mirrors[d],
              ![x].update = Enforced(d, request[x].inc), ![x].tag = Status[d],
              ![x].todo = << RemoveTags(d, Tags \ {Status[d]}), AddTag(d, Status[d]),
                             SetProperties(d, Enforced(d, request[x].inc)) >>]
        /\ shared' = (shared \/ \E e \in {d} \cup Mirrors[d] :
                                   props[e].owner \notin {request[x].inc, None})
    BY DEF EnforceAsset, Enforced
<1>2. PICK i : i = request[x].inc
    OBVIOUS
<1>3. PICK u : u = Enforced(d, i)
    OBVIOUS
<1>4. PICK todo : todo = << RemoveTags(d, Tags \ {Status[d]}), AddTag(d, Status[d]),
                            SetProperties(d, u) >>
    OBVIOUS
<1>5. PICK left, q : /\ left = request[x].left \ {d}
                     /\ q = Moved(request[x], left, Mirrors[d], u, Status[d], todo)
    OBVIOUS
<1>6. /\ d \in Datasets /\ d \in Entities /\ i \in Incidents
      /\ Mirrors[d] \subseteq Natives /\ Status[d] \in Tags
    <2>1. request[x].op = "run"
        BY DEF EnforceAsset, Busy
    <2>2. QED
        BY <2>1, <1>2, RequestFields DEF Entities, CatalogAssumption, Tags, WholeRequest
<1>7. u \in Update /\ WholeUpdate(u)
    BY <1>3, <1>6, EnforcedFields
<1>8. /\ RemoveTags(d, Tags \ {Status[d]}) \in Writes
      /\ RemoveTags(d, Tags \ {Status[d]}).kind = "untag"
      /\ AddTag(d, Status[d]) \in Writes /\ AddTag(d, Status[d]).kind = "tag"
      /\ SetProperties(d, u) \in Writes /\ SetProperties(d, u).kind = "props"
      /\ SetProperties(d, u).update = u
    BY <1>6, <1>7, TagFields, SetPropertiesFields
<1>9. todo \in Seq(Writes)
    BY <1>4, <1>8
<1>10. /\ q \in Request /\ q.op = "run" /\ q.inc = i
       /\ q.left = request[x].left \ {d} /\ q.natives = Mirrors[d]
       /\ q.update = u /\ q.todo = todo
    <2>1. request[x].op = "run"
        BY DEF EnforceAsset, Busy
    <2>2. left \in SUBSET Datasets /\ request[x] \in Request
        BY <1>5, RequestFields
    <2>3. /\ q \in Request /\ q.op = request[x].op /\ q.inc = request[x].inc
          /\ q.left = left /\ q.natives = Mirrors[d] /\ q.update = u /\ q.todo = todo
        BY <2>2, <1>5, <1>6, <1>7, <1>9, MovedFields
    <2>4. QED
        BY <2>1, <2>3, <1>2, <1>5
<1>11. Becomes(x, q)
    <2>1. request' = [request EXCEPT ![x] = q]
        BY <1>1, <1>2, <1>3, <1>4, <1>5 DEF TypeInv, TypeOK, Moved
    <2>2. QED
        BY <2>1, <1>10 DEF Becomes
<1>12. Pending(q) = {RemoveTags(d, Tags \ {Status[d]}), AddTag(d, Status[d]), SetProperties(d, u)}
    <2>1. Pending(q) = Range(todo)
        BY <1>10 DEF Pending
    <2>2. QED
        BY <2>1, <1>4, RangeOfThree
<1>13. Puts(q) = {SetProperties(d, u)}
    BY <1>8, <1>12 DEF Puts
<1>14. WholeRequest(q)
    BY <1>6, <1>7, <1>8, <1>10, <1>13 DEF WholeRequest
<1>15. QED
    BY <1>1, <1>2, <1>3, <1>6, <1>8, <1>10, <1>11, <1>12, <1>13, <1>14

\* A step that ends the operation
LEMMA EndStep ==
    ASSUME TypeInv, NEW x \in Executors, request' = [request EXCEPT ![x] = Idle]
    PROVE  Becomes(x, Idle)
BY IdleFields DEF Becomes

LEMMA ReleasedUpdate == Released \in Update
BY ReleasedFields

LEMMA ReleaseAssetStep ==
    ASSUME TypeInv, CatalogAssumption, NEW x \in Executors, ReleaseAsset(x)
    PROVE  \E q, d :
              /\ Becomes(x, q) /\ WholeRequest(q)
              /\ d \in request[x].left /\ d \in Datasets
              /\ q.op = "recover" /\ q.inc = request[x].inc /\ q.left = request[x].left \ {d}
              /\ q.natives = Mirrors[d] /\ q.update = Released
              /\ \A w \in Puts(q) : w.update = Released
              /\ \A w \in Pending(q) : w.kind \in {"tag", "untag", "props"}
<1>1. PICK d \in request[x].left :
       request' = [request EXCEPT ![x].left = @ \ {d}, ![x].natives = Mirrors[d],
           ![x].update = Released, ![x].tag = "RESOLVED",
           ![x].todo = (IF d = Control THEN <<>> ELSE << SetProperties(d, Released) >>)
                       \o << RemoveTags(d, {"AT_RISK", "QUARANTINED"}), AddTag(d, "RESOLVED") >>]
    BY DEF ReleaseAsset
<1>2. PICK untag : untag = RemoveTags(d, {"AT_RISK", "QUARANTINED"})
    OBVIOUS
<1>3. PICK tag : tag = AddTag(d, "RESOLVED")
    OBVIOUS
<1>4. PICK put : put = SetProperties(d, Released)
    OBVIOUS
<1>5. PICK todo : todo = (IF d = Control THEN <<>> ELSE << put >>) \o << untag, tag >>
    OBVIOUS
<1>6. PICK left, q : /\ left = request[x].left \ {d}
                     /\ q = Moved(request[x], left, Mirrors[d], Released, "RESOLVED", todo)
    OBVIOUS
<1>7. d \in Datasets /\ d \in Entities /\ Mirrors[d] \subseteq Natives
    BY RequestFields DEF Entities, CatalogAssumption
<1>8. /\ untag \in Writes /\ untag.kind = "untag" /\ tag \in Writes /\ tag.kind = "tag"
      /\ put \in Writes /\ put.kind = "props" /\ put.update = Released
    BY <1>2, <1>3, <1>4, <1>7, TagFields, SetPropertiesFields, ReleasedFields DEF Tags
<1>9. todo \in Seq(Writes) /\ Range(todo) \subseteq {put, untag, tag}
    <2>1. CASE d = Control
        <3>1. todo = << untag, tag >>
            BY <2>1, <1>5
        <3>2. Range(todo) = {untag, tag}
            BY <3>1, RangeOfTwo
        <3>3. << untag, tag >> \in Seq(Writes)
            BY <1>8
        <3>4. QED
            BY <3>1, <3>2, <3>3
    <2>2. CASE d # Control
        <3>1. todo = << put, untag, tag >>
            BY <2>2, <1>5, <1>8, OneAndTwo
        <3>2. Range(todo) = {put, untag, tag}
            BY <3>1, RangeOfThree
        <3>3. << put, untag, tag >> \in Seq(Writes)
            BY <1>8
        <3>4. QED
            BY <3>1, <3>2, <3>3
    <2>3. QED
        BY <2>1, <2>2
<1>10. /\ q \in Request /\ q.op = "recover" /\ q.inc = request[x].inc
       /\ q.left = request[x].left \ {d} /\ q.natives = Mirrors[d]
       /\ q.update = Released /\ q.todo = todo
    <2>1. request[x].op = "recover" /\ "RESOLVED" \in Tags
        BY DEF ReleaseAsset, Busy, Tags
    <2>2. /\ left \in SUBSET Datasets /\ Released \in Update
          /\ Mirrors[d] \in SUBSET Natives /\ request[x] \in Request
        BY <1>6, <1>7, RequestFields, ReleasedUpdate
    <2>3. /\ q \in Request /\ q.op = request[x].op /\ q.inc = request[x].inc
          /\ q.left = left /\ q.natives = Mirrors[d] /\ q.update = Released /\ q.todo = todo
        BY <2>1, <2>2, <1>6, <1>9, MovedFields
    <2>4. QED
        BY <2>1, <2>3, <1>6
<1>11. Becomes(x, q)
    <2>1. request' = [request EXCEPT ![x] = q]
        BY <1>1, <1>2, <1>3, <1>4, <1>5, <1>6 DEF TypeInv, TypeOK, Moved
    <2>2. QED
        BY <2>1, <1>10 DEF Becomes
<1>12. \A w \in Pending(q) : w \in {put, untag, tag}
    BY <1>9, <1>10 DEF Pending
<1>13. \A w \in Puts(q) : w.update = Released
    BY <1>8, <1>12 DEF Puts
<1>14. WholeRequest(q)
    <2>1. request[x].inc \in Incidents
        BY RequestFields DEF WholeRequest, ReleaseAsset, Busy
    <2>2. QED
        BY <2>1, <1>10, <1>13, ReleasedFields DEF WholeRequest
<1>15. \A w \in Pending(q) : w.kind \in {"tag", "untag", "props"}
    BY <1>8, <1>12
<1>16. QED
    BY <1>1, <1>7, <1>10, <1>11, <1>13, <1>14, <1>15

\* The flags that RecoveryController.evaluate decides on
Flags(h, clean) == [k \in DOMAIN h |-> IF k = Len(h) THEN clean ELSE h[k].clean]

\* What evaluate writes to the control asset
Decided(h, clean) ==
    LET resume == Resume(Flags(h, clean), clean, FALSE) IN
    [keys |-> {"state", "history"} \cup (IF resume THEN {"policy"} ELSE {}),
     to |-> [Absent EXCEPT !.state = NextState(props[Control].state, clean, resume),
                           !.history = h, !.policy = "ALLOW"]]

\* u is the update that an evaluation with history h decides.
Decision(u, h, clean) ==
    /\ u = Decided(h, clean) /\ u \in Update /\ WholeUpdate(u)
    /\ "owner" \notin u.keys /\ "history" \in u.keys
    /\ u.to.history = h
    /\ "policy" \in u.keys => Resume(Flags(h, clean), clean, FALSE)

LEMMA DecidedFields ==
    ASSUME NEW h \in Seq(Evaluation), NEW clean \in BOOLEAN
    PROVE  \E u : Decision(u, h, clean)
<1>1. PICK resume \in BOOLEAN : resume = Resume(Flags(h, clean), clean, FALSE)
    BY DEF Resume
<1>2. PICK state : state = NextState(props[Control].state, clean, resume)
    OBVIOUS
<1>3. state \in ControlStates
    BY <1>2 DEF NextState, ControlStates
<1>4. PICK keys : keys = {"state", "history"} \cup (IF resume THEN {"policy"} ELSE {})
    OBVIOUS
<1>5. PICK to : to = [Absent EXCEPT !.state = state, !.history = h, !.policy = "ALLOW"]
    OBVIOUS
<1>6. /\ to \in Properties /\ to.history = h /\ to.policy = "ALLOW"
    BY <1>3, <1>5, AbsentFields DEF Properties
<1>7. /\ keys \subseteq Keys /\ "history" \in keys
      /\ "owner" \notin keys /\ "targets" \notin keys
      /\ "policy" \in keys => resume
    BY <1>4 DEF Keys
<1>8. Decided(h, clean) = [keys |-> keys, to |-> to]
    BY <1>1, <1>2, <1>4, <1>5 DEF Decided
<1>9. /\ Decided(h, clean) \in Update
      /\ Decided(h, clean).keys = keys /\ Decided(h, clean).to = to
    BY <1>6, <1>7, <1>8 DEF Update
<1>10. WholeUpdate(Decided(h, clean))
    BY <1>6, <1>7, <1>9 DEF WholeUpdate, Keys
<1>11. Decision(Decided(h, clean), h, clean)
    BY <1>1, <1>6, <1>7, <1>9, <1>10 DEF Decision
<1>12. QED
    BY <1>11

\* The request at x becomes q, with the write w of an evaluation that makes history h.
Deciding(x, q, w, h, clean) ==
    /\ Becomes(x, q) /\ WholeRequest(q)
    /\ q.op = "recover" /\ q.natives = {} /\ q.todo = <<w>>
    /\ w.kind = "props" /\ w.on = Control
    /\ "owner" \notin w.update.keys /\ "history" \in w.update.keys
    /\ w.update.to.history = h
    /\ "policy" \in w.update.keys \/ q.left # {} => Resume(Flags(h, clean), clean, FALSE)

LEMMA BeginRecoverStep ==
    ASSUME TypeInv, CatalogAssumption,
           NEW x \in Executors, NEW i \in Incidents, BeginRecover(x, i)
    PROVE  \E q, w : \E clean \in BOOLEAN :
              Deciding(x, q, w, Evaluated(i, clean), clean) /\ q.inc = i
<1>1. PICK clean \in BOOLEAN :
        request' = [request EXCEPT ![x] = [Idle EXCEPT
              !.op = "recover", !.inc = i,
              !.left = IF Resume(Flags(Evaluated(i, clean), clean), clean, FALSE)
                       THEN props[Control].targets ELSE {},
              !.todo = << SetProperties(Control, Decided(Evaluated(i, clean), clean)) >>]]
    BY DEF BeginRecover, Decided, Flags
<1>2. PICK h : h = Evaluated(i, clean)
    OBVIOUS
<1>3. /\ Control \in Entities /\ props[Control].owner # None
      /\ props[Control].targets \in SUBSET Datasets
      /\ props[Control].history \in Seq(Evaluation)
    BY DEF BeginRecover, TypeInv, Whole, Entities, CatalogAssumption
<1>4. h \in Seq(Evaluation)
    <2>1. [inc |-> i, clean |-> clean] \in Evaluation
        BY DEF Evaluation
    <2>2. h = Append(props[Control].history, [inc |-> i, clean |-> clean])
        BY <1>2 DEF Evaluated
    <2>3. QED
        BY <2>1, <2>2, <1>3, AppendProperties
<1>5. PICK u : Decision(u, h, clean)
    BY <1>4, DecidedFields
<1>6. /\ u = Decided(h, clean) /\ u \in Update /\ WholeUpdate(u)
      /\ "owner" \notin u.keys /\ "history" \in u.keys /\ u.to.history = h
      /\ ("policy" \in u.keys => Resume(Flags(h, clean), clean, FALSE))
    BY <1>5 DEF Decision
<1>7. PICK w : w = SetProperties(Control, u)
    OBVIOUS
<1>8. w \in Writes /\ w.kind = "props" /\ w.on = Control /\ w.update = u
    BY <1>3, <1>6, <1>7, SetPropertiesFields
<1>9. PICK left : left = IF Resume(Flags(h, clean), clean, FALSE)
                         THEN props[Control].targets ELSE {}
    OBVIOUS
<1>10. left \in SUBSET Datasets /\ (left # {} => Resume(Flags(h, clean), clean, FALSE))
    BY <1>3, <1>9
<1>11. PICK q : q = [Idle EXCEPT !.op = "recover", !.inc = i, !.left = left, !.todo = <<w>>]
    OBVIOUS
<1>12. /\ q \in Request /\ q.op = "recover" /\ q.inc = i /\ q.left = left
       /\ q.natives = {} /\ q.update = NoUpdate /\ q.todo = <<w>>
    <2>1. <<w>> \in Seq(Writes)
        BY <1>8
    <2>2. QED
        BY <2>1, <1>10, <1>11, IdleFields DEF Request
<1>13. Becomes(x, q)
    <2>1. request' = [request EXCEPT ![x] = q]
        BY <1>1, <1>2, <1>6, <1>7, <1>9, <1>11
    <2>2. QED
        BY <2>1, <1>12 DEF Becomes
<1>14. Puts(q) = {w}
    BY <1>8, <1>12, RangeOfOne DEF Puts, Pending
<1>15. WholeRequest(q)
    BY <1>6, <1>8, <1>12, <1>14, NoUpdateFields DEF WholeRequest
<1>16. QED
    <2>1. "policy" \in w.update.keys \/ q.left # {} => Resume(Flags(h, clean), clean, FALSE)
        BY <1>6, <1>8, <1>10, <1>12
    <2>2. "owner" \notin w.update.keys /\ "history" \in w.update.keys /\ w.update.to.history = h
        BY <1>6, <1>8
    <2>3. QED
        BY <2>1, <2>2, <1>2, <1>8, <1>12, <1>13, <1>15 DEF Deciding

\* The request at x becomes q, about to write the Decision Log of incident i.
Logging(x, q, i) ==
    /\ Becomes(x, q) /\ WholeRequest(q)
    /\ q.op = "repair" /\ q.inc = i
    /\ \A w \in Pending(q) : w.kind = "publish" /\ w.on = i /\ w.artifacts = {"log"}

LEMMA BeginRepairStep ==
    ASSUME TypeInv, NEW x \in Executors, NEW i \in Incidents, BeginRepair(x, i)
    PROVE  \E q : Logging(x, q, i)
<1>1. PICK w : w = PublishArtifact(i, "log")
    OBVIOUS
<1>2. w \in Writes /\ w.kind = "publish" /\ w.on = i /\ w.artifacts = {"log"}
    BY <1>1, ArtifactFields DEF Artifacts
<1>3. PICK q : q = [Idle EXCEPT !.op = "repair", !.inc = i, !.todo = <<w>>]
    OBVIOUS
<1>4. /\ q \in Request /\ q.op = "repair" /\ q.inc = i
      /\ q.update = NoUpdate /\ q.todo = <<w>>
    <2>1. <<w>> \in Seq(Writes)
        BY <1>2
    <2>2. QED
        BY <2>1, <1>3, IdleFields DEF Request
<1>5. Becomes(x, q)
    <2>1. request' = [request EXCEPT ![x] = q]
        BY <1>1, <1>3 DEF BeginRepair
    <2>2. QED
        BY <2>1, <1>4 DEF Becomes
<1>6. Pending(q) = {w}
    BY <1>4, RangeOfOne DEF Pending
<1>7. Puts(q) = {}
    BY <1>2, <1>6 DEF Puts
<1>8. WholeRequest(q)
    BY <1>4, <1>7, NoUpdateFields DEF WholeRequest
<1>9. Logging(x, q, i)
    BY <1>2, <1>4, <1>5, <1>6, <1>8 DEF Logging
<1>10. QED
    BY <1>9

\* The request at x becomes q, a reset of incident i with its plan made.
Planned(x, q, i) ==
    /\ Becomes(x, q) /\ WholeRequest(q)
    /\ q.op = "reset" /\ q.inc = i
    /\ q.left = {d \in Targets : props[d].owner = i}
    /\ q.natives = UNION {Mirrors[d] : d \in q.left}
    /\ q.artifacts = artifacts[i]
    /\ q.todo = <<>> /\ Pending(q) = {} /\ Puts(q) = {}

LEMMA BeginResetStep ==
    ASSUME TypeInv, CatalogAssumption,
           NEW x \in Executors, NEW i \in Incidents, BeginReset(x, i)
    PROVE  \E q : Planned(x, q, i)
<1>1. PICK D : D = {d \in Targets : props[d].owner = i}
    OBVIOUS
<1>2. Targets \subseteq Datasets
    BY DEF Targets, CatalogAssumption, TypeInv, TypeOK, Properties, Entities
<1>3. PICK natives : natives = UNION {Mirrors[d] : d \in D}
    OBVIOUS
<1>4. natives \subseteq Natives
    BY <1>1, <1>2, <1>3 DEF CatalogAssumption
<1>5. PICK q : q = [Idle EXCEPT !.op = "reset", !.inc = i, !.left = D, !.natives = natives,
                                !.artifacts = artifacts[i]]
    OBVIOUS
<1>6. /\ q \in Request /\ q.op = "reset" /\ q.inc = i /\ q.left = D /\ q.natives = natives
      /\ q.artifacts = artifacts[i] /\ q.update = NoUpdate /\ q.todo = <<>>
    <2>1. D \subseteq Datasets /\ artifacts[i] \subseteq Artifacts
        BY <1>1, <1>2 DEF TypeInv, TypeOK
    <2>2. QED
        BY <2>1, <1>4, <1>5, IdleFields DEF Request
<1>7. Becomes(x, q)
    <2>1. request' = [request EXCEPT ![x] = q]
        BY <1>1, <1>3, <1>5 DEF BeginReset
    <2>2. QED
        BY <2>1, <1>6 DEF Becomes
<1>8. Pending(q) = {} /\ Puts(q) = {}
    BY <1>6, RangeOfNone DEF Puts, Pending
<1>9. WholeRequest(q)
    BY <1>6, <1>8, NoUpdateFields DEF WholeRequest
<1>10. Planned(x, q, i)
    BY <1>1, <1>3, <1>6, <1>7, <1>8, <1>9 DEF Planned
<1>11. QED
    BY <1>10

\* The update of a cleaned entity
Cleaned == [keys |-> Keys, to |-> Absent]

LEMMA CleanedFields ==
    Cleaned \in Update /\ Cleaned.keys = Keys /\ Cleaned.to = Absent /\ WholeUpdate(Cleaned)
BY CleaningFields DEF Cleaned

LEMMA CleanWritesFields ==
    ASSUME NEW e \in Entities
    PROVE  /\ CleanWrites(e) \in Seq(Writes)
           /\ CleanWrites(e)[1] = SetProperties(e, Cleaned)
           /\ \A k \in DOMAIN CleanWrites(e) : k > 1 => CleanWrites(e)[k].kind = "untag"
           /\ \A w \in Range(CleanWrites(e)) : w = SetProperties(e, Cleaned) \/ w.kind = "untag"
           /\ SetProperties(e, Cleaned) \in Range(CleanWrites(e))
<1>1. PICK put : put = SetProperties(e, Cleaned)
    OBVIOUS
<1>2. PICK untag : untag = RemoveTags(e, Tags)
    OBVIOUS
<1>3. CleanWrites(e) = << put, untag >>
    BY <1>1, <1>2 DEF CleanWrites, Cleaned
<1>4. "RESOLVED" \in Tags
    BY DEF Tags
<1>5. put \in Writes /\ untag \in Writes /\ untag.kind = "untag"
    BY <1>1, <1>2, <1>4, SetPropertiesFields, CleanedFields, TagFields
<1>6. /\ << put, untag >> \in Seq(Writes) /\ << put, untag >>[1] = put
      /\ \A k \in DOMAIN << put, untag >> : k > 1 => << put, untag >>[k] = untag
    BY <1>5
<1>7. Range(<< put, untag >>) = {put, untag}
    BY RangeOfTwo
<1>8. QED
    BY <1>1, <1>3, <1>5, <1>6, <1>7

\* What a step of reset makes of the request: it takes a native entity, an artifact or
\* a dataset, and the writes on it.
LEMMA ResetStep ==
    ASSUME TypeInv, NEW x \in Executors, NEW q \in Request,
           \A w \in Range(q.todo) : w.kind = "props" => w.update = Cleaned,
           q.op = request[x].op, q.inc = request[x].inc, q.update = request[x].update,
           request' = [request EXCEPT ![x] = q]
    PROVE  Becomes(x, q) /\ WholeRequest(q)
<1>1. \A w \in Puts(q) : w.update = Cleaned
    BY DEF Puts, Pending
<1>2. WholeRequest(q)
    BY <1>1, RequestFields, CleanedFields DEF WholeRequest
<1>3. QED
    BY <1>2 DEF Becomes

LEMMA ResetNativeStep ==
    ASSUME TypeInv, NEW x \in Executors, ResetNative(x)
    PROVE  \E q, n :
              /\ Becomes(x, q) /\ WholeRequest(q)
              /\ n \in request[x].natives /\ n \in Natives
              /\ q.op = "reset" /\ q.inc = request[x].inc /\ q.left = request[x].left
              /\ q.natives = request[x].natives \ {n} /\ q.artifacts = request[x].artifacts
              /\ q.todo = IF props[n].owner = request[x].inc THEN CleanWrites(n) ELSE <<>>
<1>1. PICK n \in request[x].natives :
       request' = [request EXCEPT ![x].natives = @ \ {n},
           ![x].todo = IF props[n].owner = request[x].inc THEN CleanWrites(n) ELSE <<>>]
    BY DEF ResetNative
<1>2. PICK todo : todo = IF props[n].owner = request[x].inc THEN CleanWrites(n) ELSE <<>>
    OBVIOUS
<1>3. PICK q : q = [request[x] EXCEPT !.natives = @ \ {n}, !.todo = todo]
    OBVIOUS
<1>4. n \in Natives /\ n \in Entities /\ request[x].op = "reset"
    BY RequestFields DEF Entities, ResetNative, Busy
<1>5. /\ todo \in Seq(Writes)
      /\ \A w \in Range(todo) : w.kind = "props" => w.update = Cleaned
    <2>1. SetProperties(n, Cleaned).update = Cleaned
        BY <1>4, SetPropertiesFields, CleanedFields
    <2>2. CASE props[n].owner = request[x].inc
        BY <2>1, <2>2, <1>2, <1>4, CleanWritesFields
    <2>3. CASE props[n].owner # request[x].inc
        BY <2>3, <1>2, RangeOfNone
    <2>4. QED
        BY <2>2, <2>3
<1>6. request' = [request EXCEPT ![x] = q]
    BY <1>1, <1>2, <1>3 DEF TypeInv, TypeOK
<1>7. /\ q \in Request /\ q.op = "reset" /\ q.inc = request[x].inc
      /\ q.left = request[x].left /\ q.natives = request[x].natives \ {n}
      /\ q.artifacts = request[x].artifacts /\ q.update = request[x].update /\ q.todo = todo
    BY <1>3, <1>4, <1>5, RequestFields DEF Request
<1>8. Becomes(x, q) /\ WholeRequest(q)
    BY <1>4, <1>5, <1>6, <1>7, ResetStep
<1>9. QED
    BY <1>2, <1>4, <1>7, <1>8

\* The request at x becomes q, about to delete the artifact a of its incident.
Deleting(x, q, a) ==
    /\ Becomes(x, q) /\ WholeRequest(q)
    /\ a \in request[x].artifacts
    /\ q.op = "reset" /\ q.inc = request[x].inc /\ q.left = request[x].left
    /\ q.natives = {} /\ q.artifacts = request[x].artifacts \ {a}
    /\ q.todo = << DeleteArtifact(q.inc, a) >>
    /\ Pending(q) = {DeleteArtifact(q.inc, a)} /\ Puts(q) = {}
    /\ DeleteArtifact(q.inc, a).kind = "delete" /\ DeleteArtifact(q.inc, a).on = q.inc
    /\ DeleteArtifact(q.inc, a).artifacts = {a}

LEMMA ResetArtifactStep ==
    ASSUME TypeInv, NEW x \in Executors, ResetArtifact(x)
    PROVE  \E q, a : Deleting(x, q, a)
<1>1. PICK a \in request[x].artifacts :
       request' = [request EXCEPT ![x].artifacts = @ \ {a},
           ![x].todo = << DeleteArtifact(request[x].inc, a) >>]
    BY DEF ResetArtifact
<1>2. PICK w : w = DeleteArtifact(request[x].inc, a)
    OBVIOUS
<1>3. /\ w \in Writes /\ w.kind = "delete" /\ w.on = request[x].inc /\ w.artifacts = {a}
    <2>1. request[x].inc \in Incidents
        BY RequestFields DEF WholeRequest, ResetArtifact, Busy
    <2>2. QED
        BY <2>1, <1>2, RequestFields, ArtifactFields
<1>4. PICK todo : todo = <<w>>
    OBVIOUS
<1>5. PICK q : q = [request[x] EXCEPT !.artifacts = @ \ {a}, !.todo = todo]
    OBVIOUS
<1>6. todo \in Seq(Writes) /\ Range(todo) = {w}
    BY <1>3, <1>4, RangeOfOne
<1>7. request' = [request EXCEPT ![x] = q]
    BY <1>1, <1>2, <1>4, <1>5 DEF TypeInv, TypeOK
<1>8. request[x].op = "reset" /\ request[x].natives = {}
    BY DEF ResetArtifact, Busy
<1>9. /\ q \in Request /\ q.op = "reset" /\ q.inc = request[x].inc
      /\ q.left = request[x].left /\ q.natives = {}
      /\ q.artifacts = request[x].artifacts \ {a} /\ q.update = request[x].update
      /\ q.todo = todo
    BY <1>5, <1>6, <1>8, RequestFields DEF Request
<1>10. Pending(q) = {w} /\ Puts(q) = {}
    BY <1>3, <1>6, <1>9 DEF Puts, Pending
<1>11. Becomes(x, q) /\ WholeRequest(q)
    <2>1. \A v \in Range(q.todo) : v.kind = "props" => v.update = Cleaned
        BY <1>3, <1>6, <1>9
    <2>2. QED
        BY <2>1, <1>7, <1>8, <1>9, ResetStep
<1>12. Deleting(x, q, a)
    BY <1>2, <1>3, <1>4, <1>8, <1>9, <1>10, <1>11 DEF Deleting
<1>13. QED
    BY <1>12

LEMMA ResetDatasetStep ==
    ASSUME TypeInv, NEW x \in Executors, ResetDataset(x)
    PROVE  \E q, d :
              /\ Becomes(x, q) /\ WholeRequest(q)
              /\ d \in request[x].left /\ d \in Datasets
              /\ d = Control => request[x].left = {Control}
              /\ q.op = "reset" /\ q.inc = request[x].inc /\ q.left = request[x].left \ {d}
              /\ q.natives = {} /\ q.artifacts = {} /\ q.todo = CleanWrites(d)
<1>1. PICK d \in NextDatasets(request[x].left) :
       request' = [request EXCEPT ![x].left = @ \ {d}, ![x].todo = CleanWrites(d)]
    BY DEF ResetDataset
<1>2. /\ d \in request[x].left /\ d \in Datasets /\ d \in Entities
      /\ d = Control => request[x].left = {Control}
    BY RequestFields DEF NextDatasets, Entities
<1>3. PICK todo : todo = CleanWrites(d)
    OBVIOUS
<1>4. PICK q : q = [request[x] EXCEPT !.left = @ \ {d}, !.todo = todo]
    OBVIOUS
<1>5. /\ todo \in Seq(Writes)
      /\ \A w \in Range(todo) : w.kind = "props" => w.update = Cleaned
    BY <1>2, <1>3, CleanWritesFields, SetPropertiesFields, CleanedFields
<1>6. request' = [request EXCEPT ![x] = q]
    BY <1>1, <1>3, <1>4 DEF TypeInv, TypeOK
<1>7. request[x].op = "reset" /\ request[x].natives = {} /\ request[x].artifacts = {}
    BY DEF ResetDataset, Busy
<1>8. /\ q \in Request /\ q.op = "reset" /\ q.inc = request[x].inc
      /\ q.left = request[x].left \ {d} /\ q.natives = {} /\ q.artifacts = {}
      /\ q.update = request[x].update /\ q.todo = todo
    BY <1>4, <1>5, <1>7, RequestFields DEF Request
<1>9. Becomes(x, q) /\ WholeRequest(q)
    BY <1>5, <1>6, <1>7, <1>8, ResetStep
<1>10. QED
    BY <1>2, <1>3, <1>8, <1>9

\* The request at x is at write w, and becomes q when w is done.
Writing(x, q, w) ==
    /\ Becomes(x, q) /\ WholeRequest(q)
    /\ w = Head(request[x].todo) /\ w \in Writes
    /\ request[x].todo \in Seq(Writes) /\ request[x].todo # <<>>
    /\ q.todo = Tail(request[x].todo)
    /\ Pending(request[x]) = {w} \cup Pending(q)
    /\ q.op = request[x].op /\ q.inc = request[x].inc /\ q.left = request[x].left
    /\ q.natives = request[x].natives /\ q.artifacts = request[x].artifacts
    /\ q.update = request[x].update

LEMMA WriteStep ==
    ASSUME TypeInv, NEW x \in Executors, Write(x)
    PROVE  \E q, w : Writing(x, q, w)
<1>1. PICK s : s = request[x].todo
    OBVIOUS
<1>2. /\ s \in Seq(Writes) /\ s # <<>> /\ Head(s) \in Writes /\ Tail(s) \in Seq(Writes)
      /\ Range(s) = {Head(s)} \cup Range(Tail(s))
    BY <1>1, RequestFields, Rest DEF Write
<1>3. PICK q : q = [request[x] EXCEPT !.todo = Tail(s)]
    OBVIOUS
<1>4. /\ q \in Request /\ q.todo = Tail(s)
      /\ q.op = request[x].op /\ q.inc = request[x].inc /\ q.left = request[x].left
      /\ q.natives = request[x].natives /\ q.artifacts = request[x].artifacts
      /\ q.update = request[x].update
    BY <1>2, <1>3, RequestFields DEF Request
<1>5. Becomes(x, q)
    BY <1>1, <1>3, <1>4 DEF Write, Becomes, TypeInv, TypeOK
<1>6. Pending(request[x]) = {Head(s)} \cup Pending(q)
    BY <1>1, <1>2, <1>4 DEF Pending
<1>7. WholeRequest(q)
    BY <1>4, <1>6, RequestFields DEF WholeRequest, Puts
<1>8. Writing(x, q, Head(s))
    BY <1>1, <1>2, <1>4, <1>5, <1>6, <1>7 DEF Writing
<1>9. QED
    BY <1>8

\* What the write w that the request at x is at does to the catalog
WritesProperties(w) ==
    /\ w.kind = "props" /\ props' = [props EXCEPT ![w.on] = Updated(props[w.on], w.update)]
    /\ UNCHANGED <<tags, artifacts>>
WritesTags(w) ==
    /\ w.kind \in {"tag", "untag"} /\ UNCHANGED <<props, artifacts>>
    /\ tags' \in [Entities -> SUBSET Tags]
Publishes(w) ==
    /\ w.kind = "publish" /\ UNCHANGED <<props, tags>>
    /\ artifacts' = [artifacts EXCEPT ![w.on] = @ \cup w.artifacts]
Deletes(w) ==
    /\ w.kind = "delete" /\ UNCHANGED <<props, tags>>
    /\ artifacts' = [artifacts EXCEPT ![w.on] = @ \ w.artifacts]

LEMMA WriteKinds ==
    ASSUME TypeInv, NEW x \in Executors, Write(x), NEW w, w = Head(request[x].todo)
    PROVE  /\ WritesProperties(w) \/ WritesTags(w) \/ Publishes(w) \/ Deletes(w)
           /\ UNCHANGED <<run, shared>>
<1>1. w \in Writes
    BY WriteStep DEF Writing
<1>2. UNCHANGED <<run, shared>>
    BY DEF Write
<1>3. CASE /\ w.kind = "props" /\ props' = [props EXCEPT ![w.on] = Updated(@, w.update)]
           /\ UNCHANGED <<tags, artifacts>>
    <2>1. props' = [props EXCEPT ![w.on] = Updated(props[w.on], w.update)]
        BY <1>3
    <2>2. QED
        BY <1>2, <1>3, <2>1 DEF WritesProperties
<1>4. CASE /\ w.kind = "tag" /\ tags' = [tags EXCEPT ![w.on] = @ \cup w.tags]
           /\ UNCHANGED <<props, artifacts>>
    <2>1. w.on \in Entities /\ w.tags \subseteq Tags
        BY <1>1, <1>4, TagsWritten
    <2>2. tags' \in [Entities -> SUBSET Tags]
        BY <2>1, <1>4 DEF TypeInv, TypeOK
    <2>3. QED
        BY <1>2, <1>4, <2>2 DEF WritesTags
<1>5. CASE /\ w.kind = "untag" /\ tags' = [tags EXCEPT ![w.on] = @ \ w.tags]
           /\ UNCHANGED <<props, artifacts>>
    <2>1. w.on \in Entities /\ w.tags \subseteq Tags
        BY <1>1, <1>5, TagsWritten
    <2>2. tags' \in [Entities -> SUBSET Tags]
        BY <2>1, <1>5 DEF TypeInv, TypeOK
    <2>3. QED
        BY <1>2, <1>5, <2>2 DEF WritesTags
<1>6. CASE /\ w.kind = "publish"
           /\ artifacts' = [artifacts EXCEPT ![w.on] = @ \cup w.artifacts]
           /\ UNCHANGED <<props, tags>>
    BY <1>2, <1>6 DEF Publishes
<1>7. CASE /\ w.kind = "delete"
           /\ artifacts' = [artifacts EXCEPT ![w.on] = @ \ w.artifacts]
           /\ UNCHANGED <<props, tags>>
    BY <1>2, <1>7 DEF Deletes
<1>8. QED
    BY <1>3, <1>4, <1>5, <1>6, <1>7 DEF Write

-----------------------------------------------------------------------------
(* Types                                                                   *)

LEMMA WriteTypes ==
    ASSUME TypeInv, NEW x \in Executors, Write(x)
    PROVE  TypeInv'
<1>1. PICK q, w : /\ Becomes(x, q) /\ WholeRequest(q)
                  /\ w = Head(request[x].todo) /\ w \in Writes
                  /\ Pending(request[x]) = {w} \cup Pending(q)
    BY WriteStep DEF Writing
<1>2. /\ WritesProperties(w) \/ WritesTags(w) \/ Publishes(w) \/ Deletes(w)
      /\ UNCHANGED <<run, shared>>
    BY <1>1, WriteKinds
<1>3. /\ run' \in [Incidents -> {"none", "live", "completed", "failed"}] /\ shared' \in BOOLEAN
    BY <1>2 DEF TypeInv, TypeOK
<1>4. CASE WritesProperties(w)
    <2>1. w.on \in Entities /\ w.update \in Update
        BY <1>1, <1>4, PropertiesWritten DEF WritesProperties
    <2>2. WholeUpdate(w.update)
        <3>1. w \in Puts(request[x])
            BY <1>1, <1>4 DEF WritesProperties, Puts
        <3>2. QED
            BY <3>1, RequestFields DEF WholeRequest
    <2>3. /\ Updated(props[w.on], w.update) \in Properties
          /\ Whole(Updated(props[w.on], w.update))
        BY <2>1, <2>2, UpdatedFields, UpdatedWhole DEF TypeInv, TypeOK
    <2>4. /\ props' \in [Entities -> Properties]
          /\ \A e \in Entities : Whole(props'[e])
        BY <1>4, <2>1, <2>3 DEF WritesProperties, TypeInv, TypeOK
    <2>5. /\ tags' \in [Entities -> SUBSET Tags]
          /\ artifacts' \in [Incidents -> SUBSET Artifacts]
        BY <1>4 DEF WritesProperties, TypeInv, TypeOK
    <2>6. QED
        BY <1>1, <1>3, <2>4, <2>5, RequestTypes
<1>5. CASE WritesTags(w)
    <2>1. /\ props' \in [Entities -> Properties]
          /\ \A e \in Entities : Whole(props'[e])
          /\ tags' \in [Entities -> SUBSET Tags]
          /\ artifacts' \in [Incidents -> SUBSET Artifacts]
        BY <1>5 DEF WritesTags, TypeInv, TypeOK
    <2>2. QED
        BY <1>1, <1>3, <2>1, RequestTypes
<1>6. CASE Publishes(w) \/ Deletes(w)
    <2>1. w.on \in Incidents /\ w.artifacts \subseteq Artifacts
        BY <1>1, <1>6, ArtifactsWritten DEF Publishes, Deletes
    <2>2. artifacts' \in [Incidents -> SUBSET Artifacts]
        BY <1>6, <2>1 DEF Publishes, Deletes, TypeInv, TypeOK
    <2>3. /\ props' \in [Entities -> Properties]
          /\ \A e \in Entities : Whole(props'[e])
          /\ tags' \in [Entities -> SUBSET Tags]
        BY <1>6 DEF Publishes, Deletes, TypeInv, TypeOK
    <2>4. QED
        BY <1>1, <1>3, <2>2, <2>3, RequestTypes
<1>7. QED
    BY <1>2, <1>4, <1>5, <1>6

LEMMA NextTypes ==
    ASSUME TypeInv, CatalogAssumption, NEW x \in Executors,
           \/ \E i \in Incidents :
                 StartRun(x, i) \/ BeginRecover(x, i) \/ BeginRepair(x, i) \/ BeginReset(x, i)
           \/ EnforceAsset(x) \/ MirrorNative(x) \/ FinishRun(x)
           \/ ReleaseAsset(x) \/ FinishRecover(x) \/ FinishRepair(x)
           \/ ResetNative(x) \/ ResetArtifact(x) \/ ResetDataset(x) \/ FinishReset(x)
           \/ Write(x) \/ Abandon(x)
    PROVE  TypeInv'
<1>1. /\ run \in [Incidents -> {"none", "live", "completed", "failed"}] /\ shared \in BOOLEAN
    BY DEF TypeInv, TypeOK
<1>2. ASSUME NEW i \in Incidents, StartRun(x, i) PROVE TypeInv'
    <2>1. run' \in [Incidents -> {"none", "live", "completed", "failed"}]
        BY <1>1, <1>2 DEF StartRun
    <2>2. UNCHANGED <<catalog, shared>>
        BY <1>2 DEF StartRun
    <2>3. QED
        BY <1>1, <1>2, <2>1, <2>2, StartRunStep, QuietTypes
<1>3. ASSUME NEW i \in Incidents, BeginRecover(x, i) PROVE TypeInv'
    <2>1. UNCHANGED <<catalog, run, shared>>
        BY <1>3 DEF BeginRecover
    <2>2. QED
        BY <1>1, <1>3, <2>1, BeginRecoverStep, QuietTypes DEF Deciding
<1>4. ASSUME NEW i \in Incidents, BeginReset(x, i) PROVE TypeInv'
    <2>1. UNCHANGED <<catalog, run, shared>>
        BY <1>4 DEF BeginReset
    <2>2. QED
        BY <1>1, <1>4, <2>1, BeginResetStep, QuietTypes DEF Planned
<1>5. CASE EnforceAsset(x)
    <2>1. UNCHANGED <<catalog, run>>
        BY <1>5 DEF EnforceAsset
    <2>2. PICK q, d : /\ Becomes(x, q) /\ WholeRequest(q)
                      /\ shared' = (shared \/ \E e \in {d} \cup Mirrors[d] :
                                         props[e].owner \notin {q.inc, None})
        BY <1>5, EnforceAssetStep
    <2>3. shared' \in BOOLEAN
        BY <1>1, <2>2
    <2>4. QED
        BY <1>1, <2>1, <2>2, <2>3, QuietTypes
<1>6. CASE MirrorNative(x)
    <2>1. UNCHANGED <<catalog, run, shared>>
        BY <1>6 DEF MirrorNative
    <2>2. QED
        BY <1>1, <1>6, <2>1, MirrorNativeStep, QuietTypes
<1>7. CASE FinishRun(x) \/ FinishRepair(x) \/ FinishReset(x) \/ Abandon(x)
    <2>1. UNCHANGED <<catalog, shared>> /\ request' = [request EXCEPT ![x] = Idle]
        BY <1>7 DEF FinishRun, FinishRepair, FinishReset, Abandon
    <2>2. run' \in [Incidents -> {"none", "live", "completed", "failed"}]
        BY <1>1, <1>7 DEF FinishRun, FinishRepair, FinishReset, Abandon
    <2>3. QED
        BY <1>1, <2>1, <2>2, EndStep, IdleFields, QuietTypes
<1>8. CASE ReleaseAsset(x)
    <2>1. UNCHANGED <<catalog, run, shared>>
        BY <1>8 DEF ReleaseAsset
    <2>2. QED
        BY <1>1, <1>8, <2>1, ReleaseAssetStep, QuietTypes
<1>9. CASE FinishRecover(x)
    <2>1. /\ UNCHANGED <<props, tags, run, shared>> /\ request' = [request EXCEPT ![x] = Idle]
          /\ artifacts' = [artifacts EXCEPT ![request[x].inc] = @ \cup {"log"}]
        BY <1>9 DEF FinishRecover
    <2>2. /\ artifacts' \in [Incidents -> SUBSET Artifacts]
          /\ props' \in [Entities -> Properties]
          /\ tags' \in [Entities -> SUBSET Tags]
          /\ \A e \in Entities : Whole(props'[e])
        BY <2>1 DEF TypeInv, TypeOK, Artifacts
    <2>3. QED
        BY <1>1, <2>1, <2>2, EndStep, IdleFields, RequestTypes
<1>10. CASE ResetNative(x)
    <2>1. UNCHANGED <<catalog, run, shared>>
        BY <1>10 DEF ResetNative
    <2>2. QED
        BY <1>1, <1>10, <2>1, ResetNativeStep, QuietTypes
<1>11. CASE ResetArtifact(x)
    <2>1. UNCHANGED <<catalog, run, shared>>
        BY <1>11 DEF ResetArtifact
    <2>2. QED
        BY <1>1, <1>11, <2>1, ResetArtifactStep, QuietTypes DEF Deleting
<1>12. CASE ResetDataset(x)
    <2>1. UNCHANGED <<catalog, run, shared>>
        BY <1>12 DEF ResetDataset
    <2>2. QED
        BY <1>1, <1>12, <2>1, ResetDatasetStep, QuietTypes
<1>13. ASSUME NEW i \in Incidents, BeginRepair(x, i) PROVE TypeInv'
    <2>1. UNCHANGED <<catalog, run, shared>>
        BY <1>13 DEF BeginRepair
    <2>2. QED
        BY <1>1, <1>13, <2>1, BeginRepairStep, QuietTypes DEF Logging
<1>14. QED
    BY <1>2, <1>3, <1>4, <1>5, <1>6, <1>7, <1>8, <1>9, <1>10, <1>11, <1>12, <1>13, WriteTypes

LEMMA InitTypes ==
    ASSUME Init
    PROVE  TypeInv
<1>1. TypeOK
    BY AbsentFields, IdleFields DEF Init, TypeOK
<1>2. \A e \in Entities : Whole(props[e])
    BY AbsentFields DEF Init, Whole
<1>3. \A x \in Executors : WholeRequest(request[x])
    BY IdleFields DEF Init
<1>4. QED
    BY <1>1, <1>2, <1>3 DEF TypeInv

LEMMA StutterTypes ==
    ASSUME TypeInv, UNCHANGED vars
    PROVE  TypeInv'
<1>1. UNCHANGED <<props, tags, artifacts, run, request, shared>>
    BY DEF vars
<1>2. TypeOK'
    BY <1>1 DEF TypeInv, TypeOK
<1>3. \A e \in Entities : Whole(props'[e])
    BY <1>1 DEF TypeInv
<1>4. ASSUME NEW x \in Executors PROVE WholeRequest(request[x])'
    BY <1>1 DEF TypeInv, WholeRequest, Puts, Pending
<1>5. QED
    BY <1>2, <1>3, <1>4 DEF TypeInv

\* Whatever writes stop, the catalog, the native artifacts and what each operation has
\* still to do keep the types that metadata_writer.py and incident_writer.py give them,
\* with any number of operations at a time: no write separates the owner of an entity
\* from its targets and its history.
THEOREM TypesHold == Spec => []TypeOK
<1>1. Init => TypeInv
    BY InitTypes
<1>2. TypeInv /\ [Next]_vars => TypeInv'
    BY CatalogAssumption, NextTypes, StutterTypes DEF Next
<1>3. TypeInv => TypeOK
    BY DEF TypeInv
<1>4. QED
    BY <1>1, <1>2, <1>3, PTL DEF Spec

-----------------------------------------------------------------------------
(* One operation at a time                                                 *)

LEMMA Alone ==
    ASSUME OneAtATime, NEW x \in Executors, NEW y \in Executors
    PROVE  x = y
BY DEF OneAtATime

\* Nothing is live besides what the one request runs.
LEMMA LiveAlone ==
    ASSUME CatalogInv, OneAtATime, NEW x \in Executors, NEW i \in Incidents, run[i] = "live"
    PROVE  request[x].op = "run" /\ request[x].inc = i
BY Alone DEF CatalogInv, LiveIsRun

\* The request at x is the only one, and it becomes q.
LEMMA Assembled ==
    ASSUME OneAtATime, TypeInv, TypeInv', NEW x \in Executors, NEW q, Becomes(x, q),
           \A e \in Entities : Belongs(e, props'[e]),
           Progress(q)',
           \A i \in Incidents : run'[i] = "live" => q.op = "run" /\ q.inc = i,
           AllowedIsOwn', Anchored', NoOrphanedDataset', NoOrphanedArtifact',
           OwnershipOutlivesReset'
    PROVE  CatalogInv'
<1>1. request'[x] = q
    BY DEF Becomes, TypeInv, TypeOK
<1>2. ASSUME NEW y \in Executors PROVE Progress(request[y])'
    <2>1. request'[y] = q
        BY <1>1, Alone
    <2>2. /\ q.op = "idle" => q.todo = <<>>
          /\ q.op = "run" => Running(q)'
          /\ q.op = "recover" => Recovering(q)'
          /\ q.op = "repair" => Repairing(q)'
          /\ q.op = "reset" => Resetting(q)'
        BY DEF Progress
    <2>3. q.op = "run" => Running(request[y])'
        BY <2>1, <2>2 DEF Running, Puts, Pending
    <2>4. q.op = "recover" => Recovering(request[y])'
        BY <2>1, <2>2 DEF Recovering, Evaluating, Puts, Pending
    <2>5. q.op = "reset" => Resetting(request[y])'
        BY <2>1, <2>2 DEF Resetting, Puts, Pending
    <2>6. q.op = "repair" => Repairing(request[y])'
        BY <2>1, <2>2 DEF Repairing, Pending
    <2>7. QED
        BY <2>1, <2>2, <2>3, <2>4, <2>5, <2>6 DEF Progress
<1>3. LiveIsRun'
    BY <1>1 DEF LiveIsRun
<1>4. QED
    BY <1>2, <1>3 DEF CatalogInv

\* A step that leaves the properties, the artifacts and the runs alone
LEMMA QuietStep ==
    ASSUME CatalogInv, OneAtATime, TypeInv', NEW x \in Executors, NEW q, Becomes(x, q),
           Progress(q)', UNCHANGED <<props, artifacts, run>>, shared => shared',
           \A i \in Incidents : run[i] = "live" => q.op = "run" /\ q.inc = i
    PROVE  CatalogInv'
<1>1. UNCHANGED <<props, artifacts, run>>
    OBVIOUS
<1>2. \A e \in Entities : Belongs(e, props'[e])
    BY <1>1 DEF CatalogInv
<1>3. AllowedIsOwn'
    BY <1>1 DEF CatalogInv, AllowedIsOwn
<1>4. Anchored'
    BY <1>1 DEF CatalogInv, Anchored
<1>5. NoOrphanedDataset'
    BY <1>1 DEF CatalogInv, NoOrphanedDataset
<1>6. OwnershipOutlivesReset'
    BY <1>1 DEF CatalogInv, OwnershipOutlivesReset, Named
<1>7. NoOrphanedArtifact'
    BY <1>1 DEF CatalogInv, NoOrphanedArtifact
<1>8. QED
    BY <1>1, <1>2, <1>3, <1>4, <1>5, <1>6, <1>7, Assembled DEF CatalogInv

\* What the invariant says of the one request
LEMMA OldProgress ==
    ASSUME CatalogInv, NEW x \in Executors
    PROVE  /\ Progress(request[x])
           /\ request[x].op = "run" => Running(request[x])
           /\ request[x].op = "recover" => Recovering(request[x])
           /\ request[x].op = "repair" => Repairing(request[x])
           /\ request[x].op = "reset" => Resetting(request[x])
           /\ request[x].todo = <<>> => Pending(request[x]) = {} /\ Puts(request[x]) = {}
BY RangeOfNone DEF CatalogInv, Progress, Pending, Puts

\* What is true of a request stays true in a step that changes neither the properties of
\* the catalog nor the runs (nor, for a reset, the artifacts).
LEMMA RunningStays ==
    ASSUME NEW q, Running(q), UNCHANGED <<props, run, shared>>
    PROVE  Running(q)'
BY DEF Running, Puts, Pending

LEMMA RecoveringStays ==
    ASSUME NEW q, Recovering(q), UNCHANGED <<props, run>>
    PROVE  Recovering(q)'
BY DEF Recovering, Evaluating, Puts, Pending

LEMMA ResettingStays ==
    ASSUME NEW q, Resetting(q), UNCHANGED <<props, artifacts, run, shared>>
    PROVE  Resetting(q)'
BY DEF Resetting, Puts, Pending

\* A live run that has done a write that is no properties
LEMMA RunningOn ==
    ASSUME NEW p, NEW q, Running(p), q.inc = p.inc, q.left = p.left, q.natives = p.natives,
           q.update = p.update, Puts(q) = Puts(p), Pending(q) \subseteq Pending(p)
    PROVE  Running(q)
BY DEF Running

-----------------------------------------------------------------------------
(* A live run                                                              *)

LEMMA EnforcedClaims ==
    ASSUME CatalogInv, CatalogAssumption, NEW i \in Incidents, NEW d \in Plan[i],
           NEW e \in Entities, e \in Datasets => e = d
    PROVE  Claims(i, e, Enforced(d, i))
<1>1. d \in Datasets /\ d \in Entities /\ i # None
    BY DEF CatalogAssumption, Entities
<1>2. /\ Enforced(d, i).keys = Keys
      /\ Enforced(d, i).to.owner = i /\ Enforced(d, i).to.policy = "HALT"
      /\ Enforced(d, i).to.targets = Plan[i]
      /\ Enforced(d, i).to.history = History(d, i)
    BY <1>1, EnforcedFields DEF CatalogInv
<1>3. \A k \in DOMAIN History(d, i) : History(d, i)[k].inc = i
    <2>1. CASE props[d].owner = i /\ props[d].history # None
        <3>1. History(d, i) = props[d].history /\ Belongs(d, props[d])
            BY <2>1, <1>1 DEF History, CatalogInv
        <3>2. QED
            BY <2>1, <3>1, <1>1 DEF Belongs
    <2>2. CASE ~(props[d].owner = i /\ props[d].history # None)
        <3>1. History(d, i) = <<>>
            BY <2>2 DEF History
        <3>2. QED
            BY <3>1
    <2>3. QED
        BY <2>1, <2>2
<1>4. QED
    BY <1>1, <1>2, <1>3 DEF Claims, Belongs

LEMMA EnforceAssetInv ==
    ASSUME CatalogInv, OneAtATime, CatalogAssumption, NEW x \in Executors, EnforceAsset(x)
    PROVE  CatalogInv'
<1>1. TypeInv /\ TypeInv'
    BY NextTypes DEF CatalogInv
<1>2. PICK q, d :
        /\ Becomes(x, q)
        /\ d \in request[x].left /\ d \in Datasets
        /\ q.op = "run" /\ q.inc = request[x].inc /\ q.left = request[x].left \ {d}
        /\ q.natives = Mirrors[d] /\ q.update = Enforced(d, q.inc)
        /\ Puts(q) = {SetProperties(d, q.update)}
        /\ \A w \in Pending(q) : w.kind \in {"tag", "untag", "props"}
        /\ shared' = (shared \/ \E e \in {d} \cup Mirrors[d] :
                                   props[e].owner \notin {q.inc, None})
    BY <1>1, EnforceAssetStep
<1>3. /\ request[x].op = "run" /\ request[x].todo = <<>> /\ UNCHANGED <<catalog, run>>
    BY DEF EnforceAsset, Busy
<1>4. UNCHANGED <<props, tags, artifacts, run>>
    BY <1>3 DEF catalog
<1>5. Running(request[x]) /\ Puts(request[x]) = {}
    BY <1>3, OldProgress
<1>6. PICK i : i = q.inc
    OBVIOUS
<1>7. PICK u : u = q.update
    OBVIOUS
<1>8. i \in Incidents /\ run[i] = "live" /\ q.left \subseteq Plan[i] /\ d \in Plan[i]
    BY <1>2, <1>5, <1>6 DEF Running
<1>9. d \in Entities /\ u \in Update /\ Mirrors[d] \subseteq Natives
    BY <1>1, <1>2, <1>6, <1>7, <1>8, EnforcedFields DEF Entities, CatalogAssumption
<1>10. PICK w : w = SetProperties(d, u)
    OBVIOUS
<1>11. Puts(q) = {w} /\ w.on = d /\ w.update = u
    BY <1>2, <1>7, <1>9, <1>10, SetPropertiesFields
<1>12. Claims(i, d, u) /\ \A n \in Mirrors[d] : Claims(i, n, u)
    BY <1>2, <1>6, <1>7, <1>8, <1>9, EnforcedClaims DEF Entities, CatalogAssumption
<1>13. Control \in q.left \/ props[Control].owner = i \/ \E v \in Puts(q) : v.on = Control
    BY <1>2, <1>5, <1>6, <1>11 DEF Running
<1>14. ~shared' => \A e \in {d} \cup Mirrors[d] : props[e].owner \in {i, None}
    BY <1>2, <1>6
<1>15. Running(q)'
    <2>1. \A v \in Pending(q) : v.kind # "delete" /\ v.kind # "publish"
        BY <1>2
    <2>2. d \notin Natives
        BY <1>2 DEF CatalogAssumption
    <2>3. /\ \A v \in Puts(q) : Claims(i, v.on, v.update)
          /\ \A n \in q.natives : Claims(i, n, q.update)
        BY <1>2, <1>7, <1>11, <1>12
    <2>4. ~shared' => /\ \A v \in Puts(q) : props[v.on].owner \in {i, None}
                      /\ \A n \in q.natives : props[n].owner \in {i, None}
        BY <1>2, <1>11, <1>14
    <2>5. \A n \in q.natives : n \in Mirrors[d] /\ \E v \in Puts(q) : v.on = d
        BY <1>2, <1>11
    <2>6. \A v \in Puts(q) : v.on \notin Natives
        BY <1>11, <2>2
    <2>7. /\ run' = run /\ props' = props /\ d \in Datasets
          /\ Puts(q)' = Puts(q) /\ Pending(q)' = Pending(q)
        BY <1>2, <1>4 DEF Puts, Pending
    <2>8. QED
        BY <1>6, <1>8, <1>13, <2>1, <2>3, <2>4, <2>5, <2>6, <2>7 DEF Running
<1>16. Progress(q)'
    BY <1>2, <1>15 DEF Progress
<1>17. \A j \in Incidents : run[j] = "live" => q.op = "run" /\ q.inc = j
    BY <1>2, LiveAlone
<1>18. shared => shared'
    BY <1>2
<1>19. QED
    BY <1>1, <1>2, <1>4, <1>16, <1>17, <1>18, QuietStep

LEMMA StartRunInv ==
    ASSUME CatalogInv, OneAtATime, CatalogAssumption, NEW x \in Executors,
           NEW i \in Incidents, StartRun(x, i)
    PROVE  CatalogInv'
<1>1. TypeInv /\ TypeInv'
    BY NextTypes DEF CatalogInv
<1>2. PICK q : /\ Becomes(x, q)
               /\ q.op = "run" /\ q.inc = i /\ q.left = Plan[i] /\ q.natives = {}
               /\ Puts(q) = {}
               /\ \A w \in Pending(q) : w.kind = "publish" /\ w.on = i
    BY <1>1, StartRunStep
<1>3. /\ UNCHANGED <<props, tags, artifacts, shared>>
      /\ run[i] = "none" /\ run' = [run EXCEPT ![i] = "live"]
      /\ \A j \in Incidents : run[j] # "live"
    BY DEF StartRun, catalog
<1>4. run'[i] = "live" /\ \A j \in Incidents \ {i} : run'[j] = run[j]
    BY <1>1, <1>3 DEF TypeInv, TypeOK
<1>5. Running(q)'
    <2>1. Control \in Plan[i]
        BY DEF CatalogAssumption
    <2>2. QED
        BY <1>2, <1>4, <2>1 DEF Running, Puts, Pending
<1>6. Progress(q)'
    BY <1>2, <1>5 DEF Progress
<1>7. \A j \in Incidents : run'[j] = "live" => q.op = "run" /\ q.inc = j
    BY <1>2, <1>3, <1>4
<1>8. \A d \in Datasets : props[d].owner # None => props[d].owner \in Incidents \ {i}
    <2>1. ASSUME NEW d \in Datasets, props[d].owner # None
          PROVE  props[d].owner \in Incidents /\ run[props[d].owner] # "none"
        BY <1>1, <2>1 DEF CatalogInv, NoOrphanedDataset, TypeInv, TypeOK, Properties, Entities
    <2>2. QED
        BY <2>1, <1>3
<1>9. AllowedIsOwn'
    BY <1>3, <1>4, <1>8 DEF CatalogInv, AllowedIsOwn
<1>10. Anchored'
    BY <1>3 DEF CatalogInv, Anchored
<1>11. NoOrphanedDataset'
    BY <1>3, <1>4, <1>8 DEF CatalogInv, NoOrphanedDataset
<1>12. OwnershipOutlivesReset'
    BY <1>3, <1>4 DEF CatalogInv, OwnershipOutlivesReset, Named
<1>13. \A e \in Entities : Belongs(e, props'[e])
    BY <1>3 DEF CatalogInv
<1>14. NoOrphanedArtifact'
    BY <1>3, <1>4 DEF CatalogInv, NoOrphanedArtifact
<1>15. QED
    BY <1>1, <1>2, <1>6, <1>7, <1>9, <1>10, <1>11, <1>12, <1>13, <1>14, Assembled

\* A step that leaves the properties alone and ends the operation, with its run
LEMMA EndInv ==
    ASSUME CatalogInv, OneAtATime, TypeInv', NEW x \in Executors,
           request' = [request EXCEPT ![x] = Idle], UNCHANGED <<props, shared>>,
           \A i \in Incidents : run'[i] # "live",
           \A i \in Incidents : run'[i] = "none" =>
               run[i] = "none" \/ \A d \in Datasets : props[d].owner # i,
           NoOrphanedArtifact', OwnershipOutlivesReset'
    PROVE  CatalogInv'
<1>1. TypeInv
    BY DEF CatalogInv
<1>2. Becomes(x, Idle)
    BY <1>1, EndStep
<1>3. PICK q : q = Idle
    OBVIOUS
<1>4. Progress(q)'
    BY <1>3, IdleFields DEF Progress
<1>5. \A d \in Datasets : props[d].owner # None => props[d].owner \in Incidents
    BY <1>1 DEF TypeInv, TypeOK, Properties, Entities
<1>6. AllowedIsOwn'
    <2>1. AllowedIsOwn
        BY DEF CatalogInv
    <2>2. QED
        BY <2>1, <1>5 DEF AllowedIsOwn
<1>7. Anchored' /\ \A e \in Entities : Belongs(e, props'[e])
    BY DEF CatalogInv, Anchored
<1>8. NoOrphanedDataset'
    <2>1. NoOrphanedDataset
        BY DEF CatalogInv
    <2>2. QED
        BY <2>1, <1>5 DEF NoOrphanedDataset
<1>9. QED
    BY <1>1, <1>2, <1>3, <1>4, <1>6, <1>7, <1>8, Assembled

LEMMA FinishRunInv ==
    ASSUME CatalogInv, OneAtATime, CatalogAssumption, NEW x \in Executors, FinishRun(x)
    PROVE  CatalogInv'
<1>1. TypeInv /\ TypeInv'
    BY NextTypes DEF CatalogInv
<1>2. PICK i : i = request[x].inc
    OBVIOUS
<1>3. /\ request[x].op = "run" /\ request[x].todo = <<>> /\ request[x].left = {}
      /\ run' = [run EXCEPT ![i] = "completed"] /\ UNCHANGED <<props, tags, artifacts, shared>>
      /\ request' = [request EXCEPT ![x] = Idle]
    BY <1>2 DEF FinishRun, Busy, catalog
<1>4. Running(request[x]) /\ Puts(request[x]) = {}
    BY <1>3, OldProgress
<1>5. i \in Incidents /\ run[i] = "live" /\ props[Control].owner = i
    BY <1>2, <1>3, <1>4 DEF Running
<1>6. run'[i] = "completed" /\ \A j \in Incidents \ {i} : run'[j] = run[j] /\ run[j] # "live"
    BY <1>1, <1>2, <1>3, <1>5, LiveAlone DEF TypeInv, TypeOK
<1>7. NoOrphanedArtifact' /\ OwnershipOutlivesReset'
    BY <1>3, <1>5, <1>6 DEF CatalogInv, NoOrphanedArtifact, OwnershipOutlivesReset, Named
<1>8. QED
    BY <1>1, <1>3, <1>6, <1>7, EndInv

LEMMA AbandonInv ==
    ASSUME CatalogInv, OneAtATime, CatalogAssumption, NEW x \in Executors, Abandon(x)
    PROVE  CatalogInv'
<1>1. TypeInv /\ TypeInv'
    BY NextTypes DEF CatalogInv
<1>2. PICK i : i = request[x].inc
    OBVIOUS
<1>3. /\ UNCHANGED <<props, tags, artifacts, shared>>
      /\ request' = [request EXCEPT ![x] = Idle]
    BY DEF Abandon, catalog
<1>4. ASSUME NEW j \in Incidents
      PROVE  (run'[j] = run[j] /\ run[j] # "live") \/ run'[j] = "failed"
    <2>1. CASE request[x].op = "run"
        <3>1. run' = [run EXCEPT ![i] = "failed"]
            BY <2>1, <1>2 DEF Abandon
        <3>2. run[j] = "live" => i = j
            BY <1>2, LiveAlone
        <3>3. QED
            BY <1>1, <3>1, <3>2 DEF TypeInv, TypeOK
    <2>2. CASE request[x].op # "run"
        <3>1. run' = run
            BY <2>2 DEF Abandon
        <3>2. run[j] # "live"
            BY <2>2, LiveAlone
        <3>3. QED
            BY <3>1, <3>2
    <2>3. QED
        BY <2>1, <2>2
<1>5. NoOrphanedArtifact' /\ OwnershipOutlivesReset'
    BY <1>3, <1>4 DEF CatalogInv, NoOrphanedArtifact, OwnershipOutlivesReset, Named
<1>6. QED
    BY <1>1, <1>3, <1>4, <1>5, EndInv

LEMMA BeginRepairInv ==
    ASSUME CatalogInv, OneAtATime, CatalogAssumption, NEW x \in Executors,
           NEW i \in Incidents, BeginRepair(x, i)
    PROVE  CatalogInv'
<1>1. TypeInv /\ TypeInv'
    BY NextTypes DEF CatalogInv
<1>0. PICK q : Logging(x, q, i)
    BY <1>1, BeginRepairStep
<1>2. /\ Becomes(x, q) /\ q.op = "repair" /\ q.inc = i
      /\ \A w \in Pending(q) : w.kind = "publish" /\ w.on = i /\ w.artifacts = {"log"}
    BY <1>0 DEF Logging
<1>3. /\ request[x].op = "idle" /\ run[i] = "completed"
      /\ UNCHANGED <<props, tags, artifacts, run, shared>>
    BY DEF BeginRepair, catalog
<1>4. Repairing(q)'
    BY <1>2, <1>3 DEF Repairing, Pending
<1>5. Progress(q)'
    BY <1>2, <1>4 DEF Progress
<1>6. \A j \in Incidents : run[j] # "live"
    BY <1>3, LiveAlone
<1>7. QED
    BY <1>1, <1>2, <1>3, <1>5, <1>6, QuietStep

LEMMA FinishRepairInv ==
    ASSUME CatalogInv, OneAtATime, CatalogAssumption, NEW x \in Executors, FinishRepair(x)
    PROVE  CatalogInv'
<1>1. TypeInv /\ TypeInv'
    BY NextTypes DEF CatalogInv
<1>2. /\ request[x].op = "repair" /\ request' = [request EXCEPT ![x] = Idle]
      /\ UNCHANGED <<props, tags, artifacts, run, shared>>
    BY DEF FinishRepair, Busy, catalog
<1>3. \A j \in Incidents : run'[j] # "live"
    BY <1>2, LiveAlone
<1>4. NoOrphanedArtifact' /\ OwnershipOutlivesReset'
    BY <1>2 DEF CatalogInv, NoOrphanedArtifact, OwnershipOutlivesReset, Named
<1>5. QED
    BY <1>1, <1>2, <1>3, <1>4, EndInv

LEMMA MirrorNativeInv ==
    ASSUME CatalogInv, OneAtATime, CatalogAssumption, NEW x \in Executors, MirrorNative(x)
    PROVE  CatalogInv'
<1>1. TypeInv /\ TypeInv'
    BY NextTypes DEF CatalogInv
<1>2. PICK q, n :
        /\ Becomes(x, q) /\ n \in request[x].natives
        /\ q.op = request[x].op /\ q.inc = request[x].inc /\ q.left = request[x].left
        /\ q.natives = request[x].natives \ {n} /\ q.update = request[x].update
        /\ q.todo # <<>> /\ Len(q.todo) = 3
        /\ Puts(q) = {SetProperties(n, q.update)}
        /\ \A w \in Pending(q) : w.kind \in {"tag", "untag", "props"}
    BY <1>1, MirrorNativeStep
<1>3. /\ request[x].op \in {"run", "recover"} /\ request[x].todo = <<>>
      /\ UNCHANGED <<catalog, run, shared>>
    BY DEF MirrorNative
<1>4. UNCHANGED <<props, tags, artifacts, run, shared>>
    BY <1>3 DEF catalog
<1>5. Pending(request[x]) = {} /\ Puts(request[x]) = {}
    BY <1>3, OldProgress
<1>6. PICK u : u = q.update
    OBVIOUS
<1>7. PICK w : w = SetProperties(n, u)
    OBVIOUS
<1>8. n \in Natives /\ Puts(q) = {w} /\ w.on = n /\ w.update = u
    BY <1>1, <1>2, <1>6, <1>7, RequestFields, SetPropertiesFields DEF Entities
<1>9. \A v \in Pending(q) : v.kind # "delete" /\ v.kind # "publish"
    BY <1>2
<1>10. ASSUME request[x].op = "run" PROVE Progress(q)'
    <2>1. Running(request[x])
        BY <1>10, OldProgress
    <2>2. PICK i : i = q.inc
        OBVIOUS
    <2>3. /\ i \in Incidents /\ run[i] = "live" /\ q.left \subseteq Plan[i]
          /\ Control \in q.left \/ props[Control].owner = i
        BY <1>2, <1>5, <2>1, <2>2 DEF Running
    <2>4. Claims(i, n, u) /\ \A m \in q.natives : Claims(i, m, u)
        BY <1>2, <1>6, <2>1, <2>2 DEF Running
    <2>5. ~shared => /\ props[n].owner \in {i, None}
                     /\ \A m \in q.natives : props[m].owner \in {i, None}
        BY <1>2, <2>1, <2>2 DEF Running
    <2>6. \A m \in q.natives \cup {n} : \E d \in Datasets : m \in Mirrors[d] /\ props[d].owner = i
        BY <1>2, <1>5, <2>1, <2>2 DEF Running
    <2>7. Running(q)'
        BY <1>4, <1>6, <1>8, <1>9, <2>2, <2>3, <2>4, <2>5, <2>6 DEF Running, Puts, Pending
    <2>8. QED
        BY <1>2, <1>10, <2>7 DEF Progress
<1>11. ASSUME request[x].op = "recover" PROVE Progress(q)'
    <2>1. Recovering(request[x])
        BY <1>11, OldProgress
    <2>2. \A v \in Pending(request[x]) : ~Evaluating(request[x], v)
        BY <1>5
    <2>3. /\ q.inc \in Incidents /\ run[q.inc] = "completed" /\ props[Control].owner = q.inc
          /\ request[x].natives # {} => u = Released
          /\ request[x].natives # {} => OwnEvidence(props[Control].history, q.inc)
        BY <1>2, <1>5, <1>6, <2>1, <2>2 DEF Recovering
    <2>4. u = Released /\ OwnEvidence(props[Control].history, q.inc)
        BY <1>2, <2>3
    <2>5. Recovering(q)'
        BY <1>4, <1>6, <1>8, <1>9, <2>3, <2>4 DEF Recovering, Puts, Pending
    <2>6. QED
        BY <1>2, <1>11, <2>5 DEF Progress
<1>12. Progress(q)'
    BY <1>3, <1>10, <1>11
<1>13. \A j \in Incidents : run[j] = "live" => q.op = "run" /\ q.inc = j
    BY <1>2, LiveAlone
<1>14. QED
    BY <1>1, <1>2, <1>3, <1>4, <1>12, <1>13, QuietStep

\* The index of a write in what is left
LEMMA LaterWrites ==
    ASSUME NEW s \in Seq(Writes), s # <<>>,
           \A k \in DOMAIN s : k > 1 => s[k].kind # "props"
    PROVE  /\ \A w \in Range(Tail(s)) : w.kind # "props"
           /\ \A k \in DOMAIN Tail(s) : k > 1 => Tail(s)[k].kind # "props"
<1>1. \A k \in DOMAIN Tail(s) : Tail(s)[k].kind # "props"
    BY TailIndexes
<1>2. QED
    BY <1>1 DEF Range

\* The status tags decide nothing.
LEMMA WriteTagsInv ==
    ASSUME CatalogInv, OneAtATime, CatalogAssumption, NEW x \in Executors, Write(x),
           WritesTags(Head(request[x].todo))
    PROVE  CatalogInv'
<1>1. TypeInv /\ TypeInv'
    BY NextTypes DEF CatalogInv
<1>2. PICK q, w : Writing(x, q, w)
    BY <1>1, WriteStep
<1>3. /\ Becomes(x, q)
      /\ w = Head(request[x].todo) /\ w \in Writes
      /\ request[x].todo \in Seq(Writes) /\ request[x].todo # <<>>
      /\ q.todo = Tail(request[x].todo)
      /\ Pending(request[x]) = {w} \cup Pending(q)
      /\ q.op = request[x].op /\ q.inc = request[x].inc /\ q.left = request[x].left
      /\ q.natives = request[x].natives /\ q.artifacts = request[x].artifacts
      /\ q.update = request[x].update
    BY <1>2 DEF Writing
<1>4. /\ UNCHANGED <<props, artifacts, run, shared>> /\ w.kind \in {"tag", "untag"}
    BY <1>3 DEF WritesTags, Write
<1>5. /\ Puts(q) = Puts(request[x])
      /\ \A v \in Pending(q) : v \in Pending(request[x])
      /\ \A v \in Pending(request[x]) : v.kind = "delete" => v \in Pending(q)
    BY <1>3, <1>4 DEF Puts
<1>6. ASSUME request[x].op = "run" PROVE Progress(q)'
    <2>1. Running(request[x])
        BY <1>6, OldProgress
    <2>2. Running(q)
        BY <1>3, <1>5, <2>1, RunningOn
    <2>3. Running(q)'
        BY <1>4, <2>2, RunningStays
    <2>4. QED
        BY <1>3, <1>6, <2>3 DEF Progress
<1>7. ASSUME request[x].op = "recover" PROVE Progress(q)'
    <2>1. Recovering(request[x])
        BY <1>7, OldProgress
    <2>2. \A v \in Pending(request[x]) : ~Evaluating(request[x], v)
        BY <1>3, <1>4 DEF Evaluating
    <2>3. Recovering(q)
        BY <1>3, <1>5, <2>1, <2>2 DEF Recovering
    <2>4. Recovering(q)'
        BY <1>4, <2>3, RecoveringStays
    <2>5. QED
        BY <1>3, <1>7, <2>4 DEF Progress
<1>8. ASSUME request[x].op = "reset" PROVE Progress(q)'
    <2>1. Resetting(request[x])
        BY <1>8, OldProgress
    <2>2. \A k \in DOMAIN q.todo : k > 1 => q.todo[k].kind # "props"
        <3>1. \A k \in DOMAIN request[x].todo : k > 1 => request[x].todo[k].kind # "props"
            BY <2>1 DEF Resetting
        <3>2. QED
            BY <1>3, <3>1, LaterWrites
    <2>3. Resetting(q)
        BY <1>3, <1>5, <2>1, <2>2 DEF Resetting
    <2>4. Resetting(q)'
        BY <1>4, <2>3, ResettingStays
    <2>5. QED
        BY <1>3, <1>8, <2>4 DEF Progress
<1>9. request[x].op # "idle" /\ request[x].op # "repair"
    BY <1>3, <1>4, OldProgress DEF Progress, Repairing
<1>10. Progress(q)'
    BY <1>1, <1>6, <1>7, <1>8, <1>9, RequestFields
<1>11. \A j \in Incidents : run[j] = "live" => q.op = "run" /\ q.inc = j
    BY <1>3, LiveAlone
<1>12. QED
    BY <1>1, <1>3, <1>4, <1>10, <1>11, QuietStep

\* The native Incident and the Decision Log of a live run, and the
\* Decision Log of a step of the repair
LEMMA PublishInv ==
    ASSUME CatalogInv, OneAtATime, CatalogAssumption, NEW x \in Executors, Write(x),
           Publishes(Head(request[x].todo))
    PROVE  CatalogInv'
<1>1. TypeInv /\ TypeInv'
    BY NextTypes DEF CatalogInv
<1>2. PICK q, w : Writing(x, q, w)
    BY <1>1, WriteStep
<1>3. /\ Becomes(x, q)
      /\ w = Head(request[x].todo) /\ w \in Writes
      /\ request[x].todo \in Seq(Writes) /\ request[x].todo # <<>>
      /\ q.todo = Tail(request[x].todo)
      /\ Pending(request[x]) = {w} \cup Pending(q)
      /\ q.op = request[x].op /\ q.inc = request[x].inc /\ q.left = request[x].left
      /\ q.natives = request[x].natives /\ q.artifacts = request[x].artifacts
      /\ q.update = request[x].update
    BY <1>2 DEF Writing
<1>4. /\ UNCHANGED <<props, run, shared>> /\ w.kind = "publish"
      /\ artifacts' = [artifacts EXCEPT ![w.on] = @ \cup w.artifacts]
    BY <1>3 DEF Publishes, Write
<1>5. Puts(q) = Puts(request[x]) /\ \A v \in Pending(q) : v \in Pending(request[x])
    BY <1>3, <1>4 DEF Puts
<1>6. PICK i : i = q.inc
    OBVIOUS
<1>7. request[x].op = "run" \/ request[x].op = "repair"
    <2>1. w \in Pending(request[x])
        BY <1>3
    <2>2. request[x].op # "recover"
        BY <1>4, <2>1, OldProgress DEF Recovering, Evaluating
    <2>3. request[x].op # "reset"
        BY <1>4, <2>1, OldProgress DEF Resetting
    <2>4. request[x].op # "idle"
        BY <1>3, OldProgress DEF Progress
    <2>5. QED
        BY <1>1, <2>2, <2>3, <2>4, RequestFields
<1>8. ASSUME request[x].op = "run"
      PROVE  Progress(q)' /\ w.on = i /\ run[i] = "live"
    <2>1. Running(request[x])
        BY <1>8, OldProgress
    <2>2. Running(q)
        BY <1>3, <1>5, <2>1, RunningOn
    <2>3. Running(q)'
        BY <1>4, <2>2, RunningStays
    <2>4. Progress(q)'
        BY <1>3, <1>8, <2>3 DEF Progress
    <2>5. w.on = i /\ run[i] = "live"
        BY <1>3, <1>4, <1>6, <2>1 DEF Running
    <2>6. QED
        BY <2>4, <2>5
<1>9. ASSUME request[x].op = "repair"
      PROVE  Progress(q)' /\ w.on = i /\ run[i] = "completed" /\ w.artifacts = {"log"}
    <2>1. Repairing(request[x])
        BY <1>9, OldProgress
    <2>2. Repairing(q)'
        BY <1>3, <1>4, <2>1 DEF Repairing, Pending
    <2>3. Progress(q)'
        BY <1>3, <1>9, <2>2 DEF Progress
    <2>4. w.on = i /\ run[i] = "completed" /\ w.artifacts = {"log"}
        BY <1>3, <1>6, <2>1 DEF Repairing
    <2>5. QED
        BY <2>3, <2>4
<1>10. Progress(q)' /\ w.on = i /\ run[i] \in {"live", "completed"}
    BY <1>7, <1>8, <1>9
<1>11. /\ \A j \in Incidents : j # i => artifacts'[j] = artifacts[j]
       /\ run[i] = "completed" => \A a \in artifacts'[i] : a = "log" \/ a \in artifacts[i]
    <2>1. i \in Incidents
        BY <1>3, <1>4, <1>10, ArtifactsWritten
    <2>2. artifacts'[i] = artifacts[i] \cup w.artifacts
        BY <1>1, <1>4, <1>10, <2>1 DEF TypeInv, TypeOK
    <2>3. run[i] = "completed" => w.artifacts = {"log"}
        BY <1>7, <1>8, <1>9
    <2>4. QED
        BY <1>1, <1>4, <1>10, <2>2, <2>3 DEF TypeInv, TypeOK
<1>12. OwnershipOutlivesReset'
    <2>1. ASSUME NEW j \in Incidents, run[j] = "completed", "incident" \notin artifacts[j]
          PROVE  "incident" \notin artifacts'[j]
        BY <2>1, <1>11
    <2>2. QED
        BY <2>1, <1>4 DEF CatalogInv, OwnershipOutlivesReset, Named
<1>13. NoOrphanedArtifact'
    BY <1>4, <1>10, <1>11 DEF CatalogInv, NoOrphanedArtifact
<1>14. AllowedIsOwn' /\ Anchored' /\ NoOrphanedDataset'
    BY <1>4 DEF CatalogInv, AllowedIsOwn, Anchored, NoOrphanedDataset
<1>15. \A e \in Entities : Belongs(e, props'[e])
    BY <1>4 DEF CatalogInv
<1>16. \A j \in Incidents : run'[j] = "live" => q.op = "run" /\ q.inc = j
    BY <1>3, <1>4, LiveAlone
<1>17. QED
    BY <1>1, <1>3, <1>10, <1>12, <1>13, <1>14, <1>15, <1>16, Assembled

LEMMA PutsTyped ==
    ASSUME TypeInv, NEW x \in Executors, NEW w \in Puts(request[x])
    PROVE  /\ w \in Writes /\ w.kind = "props" /\ w.on \in Entities /\ w.update \in Update
           /\ WholeUpdate(w.update)
<1>1. w \in Writes /\ w.kind = "props"
    BY RequestFields DEF Puts, Pending, Range
<1>2. QED
    BY <1>1, PropertiesWritten, RequestFields DEF WholeRequest

\* What a write of properties does: entity e is the one that changes.
LEMMA PropertiesWrite ==
    ASSUME TypeInv, NEW x \in Executors, NEW q, NEW w, Writing(x, q, w), WritesProperties(w)
    PROVE  /\ w \in Puts(request[x]) /\ Puts(request[x]) = {w} \cup Puts(q)
           /\ w.on \in Entities
           /\ \A e \in Entities : e # w.on => props'[e] = props[e]
           /\ props'[w.on] = Updated(props[w.on], w.update)
           /\ props[w.on] \in Properties /\ w.update \in Update
           /\ UNCHANGED artifacts
           /\ \A v \in Pending(q) : v \in Pending(request[x])
           /\ \A v \in Pending(request[x]) : v.kind = "delete" => v \in Pending(q)
<1>1. w.kind = "props" /\ Pending(request[x]) = {w} \cup Pending(q) /\ UNCHANGED artifacts
    BY DEF Writing, WritesProperties
<1>2. w \in Puts(request[x]) /\ Puts(request[x]) = {w} \cup Puts(q)
    BY <1>1 DEF Puts
<1>3. w.on \in Entities /\ w.update \in Update
    BY <1>2, PutsTyped
<1>4. /\ props \in [Entities -> Properties]
      /\ props' = [props EXCEPT ![w.on] = Updated(props[w.on], w.update)]
    BY DEF WritesProperties, TypeInv, TypeOK
<1>5. QED
    BY <1>1, <1>2, <1>3, <1>4

LEMMA RunWriteInv ==
    ASSUME CatalogInv, OneAtATime, CatalogAssumption, NEW x \in Executors, Write(x),
           WritesProperties(Head(request[x].todo)), request[x].op = "run"
    PROVE  CatalogInv'
<1>1. TypeInv /\ TypeInv'
    BY NextTypes DEF CatalogInv
<1>2. PICK q, w : Writing(x, q, w)
    BY <1>1, WriteStep
<1>3. /\ Becomes(x, q) /\ w = Head(request[x].todo)
      /\ q.op = "run" /\ q.inc = request[x].inc /\ q.left = request[x].left
      /\ q.natives = request[x].natives /\ q.update = request[x].update
    BY <1>2 DEF Writing
<1>4. UNCHANGED <<run, shared>>
    BY DEF Write
<1>5. PICK i : i = q.inc
    OBVIOUS
<1>6. PICK e : e = w.on
    OBVIOUS
<1>7. /\ w \in Puts(request[x]) /\ Puts(request[x]) = {w} \cup Puts(q)
      /\ e \in Entities
      /\ \A f \in Entities : f # e => props'[f] = props[f]
      /\ props'[e] = Updated(props[e], w.update)
      /\ props[e] \in Properties /\ w.update \in Update
      /\ UNCHANGED artifacts
      /\ \A v \in Pending(q) : v \in Pending(request[x])
    BY <1>1, <1>2, <1>3, <1>6, PropertiesWrite
<1>8. Running(request[x])
    BY OldProgress
<1>9. i \in Incidents /\ run[i] = "live" /\ i # None
    BY <1>3, <1>5, <1>8 DEF Running, CatalogAssumption
<1>10. Claims(i, e, w.update)
    BY <1>3, <1>5, <1>6, <1>7, <1>8 DEF Running
<1>11. /\ props'[e].owner = i /\ props'[e].policy = "HALT"
       /\ props'[e].targets = w.update.to.targets /\ props'[e].history = w.update.to.history
    BY <1>7, <1>10, UpdatedFields DEF Claims, Keys
<1>12. Belongs(e, props'[e])
    BY <1>10, <1>11 DEF Claims, Belongs
<1>13. ~shared => props[e].owner \in {i, None}
    BY <1>3, <1>5, <1>6, <1>7, <1>8 DEF Running
<1>14. \A v \in Puts(q) : v.on \in Entities
    BY <1>1, <1>7, PutsTyped
<1>15. Datasets \subseteq Entities /\ Natives \subseteq Entities /\ Control \in Entities
    BY DEF Entities, CatalogAssumption
<1>16. \A f \in Entities : props'[f].owner = props[f].owner \/ props'[f].owner = i
    BY <1>7, <1>11
<1>17. Running(q)'
    <2>1. /\ i \in Incidents /\ run'[i] = "live" /\ q.left \subseteq Plan[i]
          /\ \A v \in Pending(q) : v.kind # "delete"
          /\ \A v \in Pending(q) : v.kind = "publish" => v.on = i
        BY <1>3, <1>4, <1>5, <1>7, <1>8 DEF Running
    <2>2. /\ \A v \in Puts(q) : Claims(i, v.on, v.update)
          /\ \A n \in q.natives : Claims(i, n, q.update)
        BY <1>3, <1>5, <1>7, <1>8 DEF Running
    <2>3. \/ Control \in q.left \/ props'[Control].owner = i
          \/ \E v \in Puts(q) : v.on = Control
        <3>1. \/ Control \in q.left \/ props[Control].owner = i
              \/ \E v \in Puts(request[x]) : v.on = Control
            BY <1>3, <1>5, <1>8 DEF Running
        <3>2. props[Control].owner = i => props'[Control].owner = i
            BY <1>15, <1>16
        <3>3. e = Control => props'[Control].owner = i
            BY <1>11
        <3>4. \A v \in Puts(request[x]) : v.on = Control => e = Control \/ v \in Puts(q)
            BY <1>6, <1>7
        <3>5. QED
            BY <3>1, <3>2, <3>3, <3>4
    <2>4. \A n \in q.natives : n \in Entities
        BY <1>1, <1>3, <1>15, RequestFields
    <2>5. ~shared' => /\ \A v \in Puts(q) : props'[v.on].owner \in {i, None}
                      /\ \A n \in q.natives : props'[n].owner \in {i, None}
        BY <1>3, <1>4, <1>5, <1>7, <1>8, <1>14, <1>16, <2>4 DEF Running
    <2>6. ASSUME NEW n \in q.natives
          PROVE  \E d \in Datasets :
                    n \in Mirrors[d] /\ (props'[d].owner = i \/ \E v \in Puts(q) : v.on = d)
        <3>1. PICK d \in Datasets :
                n \in Mirrors[d] /\ (props[d].owner = i \/ \E v \in Puts(request[x]) : v.on = d)
            BY <1>3, <1>5, <1>8 DEF Running
        <3>2. props'[d].owner = i \/ \E v \in Puts(q) : v.on = d
            BY <3>1, <1>6, <1>7, <1>11, <1>15, <1>16
        <3>3. QED
            BY <3>1, <3>2
    <2>7. ASSUME NEW v \in Puts(q), v.on \in Natives
          PROVE  \E d \in Datasets : v.on \in Mirrors[d] /\ props'[d].owner = i
        <3>1. PICK d \in Datasets : v.on \in Mirrors[d] /\ props[d].owner = i
            BY <2>7, <1>3, <1>5, <1>7, <1>8 DEF Running
        <3>2. QED
            BY <3>1, <1>15, <1>16
    <2>8. QED
        BY <1>5, <2>1, <2>2, <2>3, <2>5, <2>6, <2>7 DEF Running, Puts, Pending
<1>18. Progress(q)'
    BY <1>3, <1>17 DEF Progress
<1>19. AllowedIsOwn'
    <2>1. ASSUME NEW d \in Datasets, props'[d].owner # None, props'[d].policy = "ALLOW"
          PROVE  /\ run'[props'[d].owner] # "live"
                 /\ props'[Control].owner = props'[d].owner =>
                      OwnEvidence(props'[Control].history, props'[d].owner)
        <3>1. d # e /\ props'[d] = props[d]
            BY <2>1, <1>7, <1>11, <1>15
        <3>2. /\ run[props[d].owner] # "live"
              /\ props[Control].owner = props[d].owner =>
                   OwnEvidence(props[Control].history, props[d].owner)
            BY <2>1, <3>1 DEF CatalogInv, AllowedIsOwn
        <3>3. props'[Control].owner = props[d].owner => props'[Control] = props[Control]
            BY <3>2, <1>7, <1>9, <1>11, <1>15
        <3>4. QED
            BY <1>4, <3>1, <3>2, <3>3
    <2>2. QED
        BY <2>1 DEF AllowedIsOwn
<1>20. Anchored'
    <2>1. ASSUME ~shared, NEW n \in Natives, props'[n].owner # None
          PROVE  \E d \in Datasets : n \in Mirrors[d] /\ props'[d].owner = props'[n].owner
        <3>1. CASE n = e
            <4>1. PICK d \in Datasets : n \in Mirrors[d] /\ props[d].owner = i
                <5>1. \A v \in Puts(request[x]) : v.on \in Natives =>
                         \E d \in Datasets : v.on \in Mirrors[d] /\ props[d].owner = i
                    BY <1>3, <1>5, <1>8 DEF Running
                <5>2. QED
                    BY <5>1, <3>1, <1>6, <1>7
            <4>2. QED
                BY <4>1, <3>1, <1>11, <1>15, <1>16
        <3>2. CASE n # e
            <4>1. props'[n] = props[n]
                BY <3>2, <1>7, <1>15
            <4>2. PICK d \in Datasets : n \in Mirrors[d] /\ props[d].owner = props[n].owner
                BY <2>1, <4>1 DEF CatalogInv, Anchored
            <4>3. props'[d].owner = props[d].owner
                BY <2>1, <4>1, <4>2, <1>7, <1>11, <1>13, <1>15
            <4>4. QED
                BY <4>1, <4>2, <4>3
        <3>3. QED
            BY <3>1, <3>2
    <2>2. QED
        BY <1>4, <2>1 DEF Anchored
<1>21. NoOrphanedDataset' /\ NoOrphanedArtifact'
    BY <1>4, <1>7, <1>9, <1>11, <1>15 DEF CatalogInv, NoOrphanedDataset, NoOrphanedArtifact
<1>22. OwnershipOutlivesReset'
    <2>1. ASSUME NEW j \in Incidents, run[j] = "completed", ~shared
          PROVE  \/ props'[Control].owner = j
                 \/ (\A f \in Entities : props'[f].owner # j) /\ "incident" \notin artifacts'[j]
        <3>1. j # i
            BY <2>1, <1>9
        <3>2. \/ props[Control].owner = j
              \/ (\A f \in Entities : props[f].owner # j) /\ "incident" \notin artifacts[j]
            BY <2>1 DEF CatalogInv, OwnershipOutlivesReset, Named
        <3>3. props[e].owner # j
            BY <2>1, <3>1, <1>13, CatalogAssumption DEF CatalogAssumption
        <3>4. QED
            BY <3>1, <3>2, <3>3, <1>7, <1>15, <1>16
    <2>2. QED
        BY <1>4, <2>1 DEF OwnershipOutlivesReset, Named
<1>23. \A f \in Entities : Belongs(f, props'[f])
    BY <1>7, <1>12 DEF CatalogInv
<1>24. \A j \in Incidents : run'[j] = "live" => q.op = "run" /\ q.inc = j
    BY <1>3, <1>4, LiveAlone
<1>25. QED
    BY <1>1, <1>3, <1>18, <1>19, <1>20, <1>21, <1>22, <1>23, <1>24, Assembled

-----------------------------------------------------------------------------
(* Recovery                                                                *)

\* A history of evaluations of incident i that decides to resume is evidence of i.
LEMMA ResumeIsOwnEvidence ==
    ASSUME PolicyAssumption, NEW h0 \in Seq(Evaluation), NEW i, NEW clean \in BOOLEAN,
           \A k \in DOMAIN h0 : h0[k].inc = i,
           NEW h, h = Append(h0, [inc |-> i, clean |-> clean]), h \in Seq(Evaluation),
           Resume(Flags(h, clean), clean, FALSE)
    PROVE  OwnEvidence(h, i)
<1>1. PICK n : n = Len(h)
    OBVIOUS
<1>2. /\ n \in Nat /\ DOMAIN h = 1..n /\ n = Len(h0) + 1
      /\ h[n] = [inc |-> i, clean |-> clean]
      /\ \A k \in 1..(n - 1) : h[k] = h0[k] /\ k \in DOMAIN h0
    BY <1>1
<1>3. \A k \in 1..n : h[k].inc = i
    BY <1>2
<1>4. PICK flags : flags = Flags(h, clean)
    OBVIOUS
<1>5. flags = [k \in DOMAIN h |-> IF k = Len(h) THEN clean ELSE h[k].clean]
    BY <1>4 DEF Flags
<1>6. \A k \in 1..n : h[k].clean \in BOOLEAN
    <2>1. \A k \in 1..n : h[k] \in Evaluation
        BY <1>1, <1>2, ElementOfSeq
    <2>2. \A r \in Evaluation : r.clean \in BOOLEAN
        BY DEF Evaluation
    <2>3. QED
        BY <2>1, <2>2
<1>7. \A k \in 1..n : flags[k] = h[k].clean
    BY <1>1, <1>2, <1>5
<1>8. Len(flags) = n
    <2>1. flags \in [1..n -> BOOLEAN]
        BY <1>1, <1>2, <1>5, <1>6
    <2>2. flags \in Seq(BOOLEAN)
        BY <2>1, <1>2, SeqDef
    <2>3. QED
        BY <2>1, <2>2, <1>2, LenProperties
<1>9. CleanRuns <= n /\ \A k \in (n - CleanRuns + 1)..n : flags[k]
    BY <1>4, <1>8 DEF Resume, ApprovedByHistory, ApprovedByHuman, EndsClean, PolicyAssumption
<1>10. \A k \in (n - CleanRuns + 1)..n : h[k].clean /\ h[k].inc = i
    BY <1>2, <1>3, <1>7, <1>9 DEF PolicyAssumption
<1>11. n \in CleanRuns..Len(h)
    BY <1>1, <1>2, <1>9 DEF PolicyAssumption
<1>12. QED
    <2>1. \E k \in CleanRuns..Len(h) :
              \A j \in (k - CleanRuns + 1)..k : h[j].clean /\ h[j].inc = i
        <3> WITNESS n \in CleanRuns..Len(h)
        <3>1. QED
            BY <1>10
    <2>2. QED
        BY <2>1 DEF OwnEvidence

\* Evidence stays in a history that grows.
LEMMA OwnEvidenceStays ==
    ASSUME PolicyAssumption, NEW h0 \in Seq(Evaluation), NEW e \in Evaluation, NEW i,
           OwnEvidence(h0, i)
    PROVE  OwnEvidence(Append(h0, e), i)
<1>1. PICK k \in CleanRuns..Len(h0) :
        \A j \in (k - CleanRuns + 1)..k : h0[j].clean /\ h0[j].inc = i
    BY DEF OwnEvidence
<1>2. k \in CleanRuns..Len(Append(h0, e))
    BY <1>1 DEF PolicyAssumption
<1>3. \A j \in (k - CleanRuns + 1)..k : Append(h0, e)[j] = h0[j]
    BY <1>1 DEF PolicyAssumption
<1>4. QED
    BY <1>1, <1>2, <1>3 DEF OwnEvidence

LEMMA BeginRecoverInv ==
    ASSUME CatalogInv, OneAtATime, CatalogAssumption, PolicyAssumption,
           NEW x \in Executors, NEW i \in Incidents, BeginRecover(x, i)
    PROVE  CatalogInv'
<1>1. TypeInv /\ TypeInv'
    BY NextTypes DEF CatalogInv
<1>2. PICK q, w : \E clean \in BOOLEAN :
        Deciding(x, q, w, Evaluated(i, clean), clean) /\ q.inc = i
    BY <1>1, BeginRecoverStep
<1>3. PICK clean \in BOOLEAN : Deciding(x, q, w, Evaluated(i, clean), clean) /\ q.inc = i
    BY <1>2
<1>4. PICK h : h = Evaluated(i, clean)
    OBVIOUS
<1>5. /\ Becomes(x, q)
      /\ q.op = "recover" /\ q.inc = i /\ q.natives = {} /\ q.todo = <<w>>
      /\ w.kind = "props" /\ w.on = Control
      /\ "owner" \notin w.update.keys /\ "history" \in w.update.keys
      /\ w.update.to.history = h
      /\ "policy" \in w.update.keys \/ q.left # {} => Resume(Flags(h, clean), clean, FALSE)
    BY <1>4, <1>3 DEF Deciding
<1>6. /\ request[x].op = "idle" /\ run[i] = "completed" /\ props[Control].owner = i
      /\ UNCHANGED <<props, tags, artifacts, run, shared>>
    BY DEF BeginRecover, catalog
<1>7. PICK h0 : h0 = props[Control].history
    OBVIOUS
<1>8. h = Append(h0, [inc |-> i, clean |-> clean])
    BY <1>4, <1>7 DEF Evaluated
<1>9. h0 \in Seq(Evaluation) /\ \A k \in DOMAIN h0 : h0[k].inc = i
    <2>1. Control \in Entities /\ i # None
        BY DEF CatalogAssumption, Entities
    <2>2. Whole(props[Control]) /\ Belongs(Control, props[Control])
        BY <2>1, <1>1 DEF CatalogInv, TypeInv
    <2>3. QED
        BY <2>1, <2>2, <1>6, <1>7 DEF Whole, Belongs
<1>10. h \in Seq(Evaluation)
    BY <1>8, <1>9 DEF Evaluation
<1>11. "policy" \in w.update.keys \/ q.left # {} => OwnEvidence(h, i)
    BY <1>5, <1>8, <1>9, <1>10, ResumeIsOwnEvidence
<1>12. w.update.to.history = Append(props'[Control].history, [inc |-> q.inc, clean |-> clean])
    BY <1>5, <1>6, <1>7, <1>8
<1>13. Pending(q) = {w}
    BY <1>5, RangeOfOne DEF Pending
<1>14. Evaluating(q, w)'
    BY <1>5, <1>11, <1>12 DEF Evaluating
<1>15. Recovering(q)'
    BY <1>5, <1>6, <1>13, <1>14 DEF Recovering, Pending
<1>16. Progress(q)'
    BY <1>5, <1>15 DEF Progress
<1>17. \A j \in Incidents : run[j] # "live"
    BY <1>6, LiveAlone
<1>18. QED
    BY <1>1, <1>5, <1>6, <1>16, <1>17, QuietStep

LEMMA ReleaseAssetInv ==
    ASSUME CatalogInv, OneAtATime, CatalogAssumption, NEW x \in Executors, ReleaseAsset(x)
    PROVE  CatalogInv'
<1>1. TypeInv /\ TypeInv'
    BY NextTypes DEF CatalogInv
<1>2. PICK q, d :
        /\ Becomes(x, q) /\ d \in request[x].left
        /\ q.op = "recover" /\ q.inc = request[x].inc /\ q.left = request[x].left \ {d}
        /\ q.natives = Mirrors[d] /\ q.update = Released
        /\ \A w \in Puts(q) : w.update = Released
        /\ \A w \in Pending(q) : w.kind \in {"tag", "untag", "props"}
    BY <1>1, ReleaseAssetStep
<1>3. /\ request[x].op = "recover" /\ request[x].todo = <<>>
      /\ UNCHANGED <<props, tags, artifacts, run, shared>>
    BY DEF ReleaseAsset, Busy, catalog
<1>4. Recovering(request[x]) /\ Pending(request[x]) = {}
    BY <1>3, OldProgress
<1>5. /\ q.inc \in Incidents /\ run[q.inc] = "completed" /\ props[Control].owner = q.inc
      /\ OwnEvidence(props[Control].history, q.inc)
    BY <1>2, <1>4 DEF Recovering
<1>6. \A w \in Pending(q) : w.kind \notin {"publish", "delete"}
    BY <1>2
<1>7. Recovering(q)'
    BY <1>2, <1>3, <1>5, <1>6 DEF Recovering, Puts, Pending
<1>8. Progress(q)'
    BY <1>2, <1>7 DEF Progress
<1>9. \A j \in Incidents : run[j] # "live"
    BY <1>3, LiveAlone
<1>10. QED
    BY <1>1, <1>2, <1>3, <1>8, <1>9, QuietStep

LEMMA FinishRecoverInv ==
    ASSUME CatalogInv, OneAtATime, CatalogAssumption, NEW x \in Executors, FinishRecover(x)
    PROVE  CatalogInv'
<1>1. TypeInv /\ TypeInv'
    BY NextTypes DEF CatalogInv
<1>2. PICK i : i = request[x].inc
    OBVIOUS
<1>3. /\ request[x].op = "recover" /\ request[x].todo = <<>>
      /\ request' = [request EXCEPT ![x] = Idle] /\ UNCHANGED <<props, run, shared>>
      /\ artifacts' = [artifacts EXCEPT ![i] = @ \cup {"log"}]
    BY <1>2 DEF FinishRecover, Busy
<1>4. Recovering(request[x])
    BY <1>3, OldProgress
<1>5. props[Control].owner = i
    BY <1>2, <1>4 DEF Recovering
<1>6. \A j \in Incidents : run[j] # "live"
    BY <1>3, LiveAlone
<1>7. OwnershipOutlivesReset'
    <2>1. \A j \in Incidents : j # i => artifacts'[j] = artifacts[j]
        BY <1>1, <1>3 DEF TypeInv, TypeOK
    <2>2. QED
        BY <2>1, <1>3, <1>5 DEF CatalogInv, OwnershipOutlivesReset, Named
<1>8. NoOrphanedArtifact'
    <2>1. run[i] = "completed"
        BY <1>2, <1>4 DEF Recovering
    <2>2. \A j \in Incidents : j # i => artifacts'[j] = artifacts[j]
        BY <1>1, <1>3 DEF TypeInv, TypeOK
    <2>3. QED
        BY <2>1, <2>2, <1>3 DEF CatalogInv, NoOrphanedArtifact
<1>9. QED
    BY <1>1, <1>3, <1>6, <1>7, <1>8, EndInv

\* The evaluation that a recovery decided on is written to the control asset.
LEMMA EvaluateWriteInv ==
    ASSUME CatalogInv, OneAtATime, CatalogAssumption, PolicyAssumption,
           NEW x \in Executors, Write(x), WritesProperties(Head(request[x].todo)),
           request[x].op = "recover", Evaluating(request[x], Head(request[x].todo))
    PROVE  CatalogInv'
<1>1. TypeInv /\ TypeInv'
    BY NextTypes DEF CatalogInv
<1>2. PICK q, w : Writing(x, q, w)
    BY <1>1, WriteStep
<1>3. /\ Becomes(x, q) /\ w = Head(request[x].todo) /\ q.todo = Tail(request[x].todo)
      /\ q.op = "recover" /\ q.inc = request[x].inc /\ q.left = request[x].left
      /\ q.natives = request[x].natives
    BY <1>2 DEF Writing
<1>4. UNCHANGED <<run, shared>>
    BY DEF Write
<1>5. PICK i : i = q.inc
    OBVIOUS
<1>6. /\ w.on = Control /\ Control \in Entities /\ Datasets \subseteq Entities
      /\ Natives \subseteq Entities /\ Control \notin Natives /\ Control \in Datasets
      /\ \A f \in Entities : f # Control => props'[f] = props[f]
      /\ props'[Control] = Updated(props[Control], w.update)
      /\ props[Control] \in Properties /\ w.update \in Update /\ WholeUpdate(w.update)
      /\ UNCHANGED artifacts
    <2>1. w.on = Control
        BY <1>3 DEF Evaluating
    <2>2. /\ Control \in Entities /\ Datasets \subseteq Entities
          /\ Natives \subseteq Entities /\ Control \notin Natives /\ Control \in Datasets
        BY DEF Entities, CatalogAssumption
    <2>3. /\ w \in Puts(request[x])
          /\ \A f \in Entities : f # w.on => props'[f] = props[f]
          /\ props'[w.on] = Updated(props[w.on], w.update)
          /\ props[w.on] \in Properties /\ w.update \in Update
          /\ UNCHANGED artifacts
        <3>1. WritesProperties(w)
            BY <1>3
        <3>2. QED
            BY <1>1, <1>2, <3>1, PropertiesWrite
    <2>4. WholeUpdate(w.update)
        BY <1>1, <2>3, PutsTyped
    <2>5. QED
        BY <2>1, <2>2, <2>3, <2>4
<1>7. /\ request[x].todo = <<w>> /\ q.natives = {}
      /\ "owner" \notin w.update.keys /\ "history" \in w.update.keys
      /\ \E clean \in BOOLEAN : w.update.to.history
             = Append(props[Control].history, [inc |-> i, clean |-> clean])
      /\ "policy" \in w.update.keys \/ q.left # {} => OwnEvidence(w.update.to.history, i)
    BY <1>3, <1>5 DEF Evaluating
<1>8. PICK clean \in BOOLEAN :
        w.update.to.history = Append(props[Control].history, [inc |-> i, clean |-> clean])
    BY <1>7
<1>9. Recovering(request[x])
    BY OldProgress
<1>10. /\ i \in Incidents /\ run[i] = "completed" /\ props[Control].owner = i /\ i # None
    BY <1>3, <1>5, <1>9 DEF Recovering, CatalogAssumption
<1>11. /\ props'[Control].owner = i /\ props'[Control].targets = props[Control].targets
       /\ props'[Control].history = w.update.to.history
       /\ "policy" \notin w.update.keys => props'[Control].policy = props[Control].policy
    <2>1. "targets" \notin w.update.keys
        BY <1>6, <1>7 DEF WholeUpdate, Keys
    <2>2. PICK p : p = Updated(props[Control], w.update)
        OBVIOUS
    <2>3. /\ p.owner = props[Control].owner /\ p.targets = props[Control].targets
          /\ p.history = w.update.to.history
          /\ "policy" \notin w.update.keys => p.policy = props[Control].policy
        BY <2>1, <2>2, <1>6, <1>7, UpdatedFields
    <2>4. QED
        BY <2>2, <2>3, <1>6, <1>10
<1>12. PICK h0 : h0 = props[Control].history
    OBVIOUS
<1>13. PICK e : e = [inc |-> i, clean |-> clean]
    OBVIOUS
<1>14. e \in Evaluation /\ h0 \in Seq(Evaluation) /\ w.update.to.history = Append(h0, e)
    <2>1. Whole(props[Control])
        BY <1>1, <1>6 DEF TypeInv
    <2>2. QED
        BY <2>1, <1>8, <1>10, <1>12, <1>13 DEF Whole, Evaluation
<1>15. Belongs(Control, props'[Control])
    <2>1. Belongs(Control, props[Control])
        BY <1>6 DEF CatalogInv
    <2>2. /\ \A k \in DOMAIN h0 : h0[k].inc = i
          /\ props[Control].targets = Plan[i] /\ Control \in Plan[i]
        BY <2>1, <1>6, <1>10, <1>12 DEF Belongs
    <2>3. \A k \in DOMAIN Append(h0, e) : Append(h0, e)[k] = e \/
              (k \in DOMAIN h0 /\ Append(h0, e)[k] = h0[k])
        BY <1>14
    <2>4. e.inc = i
        BY <1>13
    <2>5. \A k \in DOMAIN Append(h0, e) : Append(h0, e)[k].inc = i
        BY <2>2, <2>3, <2>4
    <2>6. /\ props'[Control].owner = i /\ props'[Control].targets = Plan[i]
          /\ props'[Control].history = Append(h0, e)
        BY <2>2, <1>11, <1>14
    <2>7. QED
        BY <2>2, <2>5, <2>6 DEF Belongs
<1>16. Pending(q) = {}
    <2>1. w \in Writes
        BY <1>2 DEF Writing
    <2>2. Tail(<<w>>) = <<>>
        BY <2>1
    <2>3. q.todo = <<>>
        BY <2>2, <1>3, <1>7
    <2>4. QED
        BY <2>3, RangeOfNone DEF Pending
<1>17. Recovering(q)'
    BY <1>3, <1>4, <1>5, <1>7, <1>10, <1>11, <1>16 DEF Recovering, Puts, Pending
<1>18. Progress(q)'
    BY <1>3, <1>17 DEF Progress
<1>19. \A f \in Entities : props'[f].owner = props[f].owner
    BY <1>6, <1>10, <1>11
<1>20. AllowedIsOwn'
    <2>1. ASSUME NEW d \in Datasets, props'[d].owner # None, props'[d].policy = "ALLOW"
          PROVE  /\ run'[props'[d].owner] # "live"
                 /\ props'[Control].owner = props'[d].owner =>
                      OwnEvidence(props'[Control].history, props'[d].owner)
        <3>1. run'[props'[d].owner] # "live"
            <4>1. props'[d].owner \in Incidents
                BY <2>1, <1>1, <1>6 DEF TypeInv, TypeOK, Properties
            <4>2. QED
                BY <4>1, <1>4, LiveAlone
        <3>2. ASSUME props'[d].owner = i PROVE OwnEvidence(Append(h0, e), i)
            <4>1. CASE d = Control /\ "policy" \in w.update.keys
                BY <4>1, <1>7, <1>14
            <4>2. CASE ~(d = Control /\ "policy" \in w.update.keys)
                <5>1. props[d].owner = i /\ props[d].policy = "ALLOW"
                    BY <2>1, <3>2, <4>2, <1>6, <1>11, <1>19
                <5>2. OwnEvidence(h0, i)
                    BY <5>1, <1>10, <1>12 DEF CatalogInv, AllowedIsOwn
                <5>3. QED
                    BY <5>2, <1>14, OwnEvidenceStays
            <4>3. QED
                BY <4>1, <4>2
        <3>3. QED
            BY <3>1, <3>2, <1>11, <1>14
    <2>2. QED
        BY <2>1 DEF AllowedIsOwn
<1>21. Anchored' /\ NoOrphanedDataset' /\ NoOrphanedArtifact'
    BY <1>4, <1>6, <1>19 DEF CatalogInv, Anchored, NoOrphanedDataset, NoOrphanedArtifact
<1>22. OwnershipOutlivesReset'
    BY <1>4, <1>6, <1>19 DEF CatalogInv, OwnershipOutlivesReset, Named
<1>23. \A f \in Entities : Belongs(f, props'[f])
    BY <1>6, <1>15 DEF CatalogInv
<1>24. \A j \in Incidents : run'[j] # "live"
    BY <1>4, LiveAlone
<1>25. QED
    BY <1>1, <1>3, <1>18, <1>20, <1>21, <1>22, <1>23, <1>24, Assembled

\* An asset or a native entity is released.
LEMMA ReleaseWriteInv ==
    ASSUME CatalogInv, OneAtATime, CatalogAssumption,
           NEW x \in Executors, Write(x), WritesProperties(Head(request[x].todo)),
           request[x].op = "recover",
           \A v \in Pending(request[x]) : ~Evaluating(request[x], v)
    PROVE  CatalogInv'
<1>1. TypeInv /\ TypeInv'
    BY NextTypes DEF CatalogInv
<1>2. PICK q, w : Writing(x, q, w)
    BY <1>1, WriteStep
<1>3. /\ Becomes(x, q) /\ w = Head(request[x].todo)
      /\ q.op = "recover" /\ q.inc = request[x].inc /\ q.left = request[x].left
      /\ q.natives = request[x].natives /\ q.update = request[x].update
    BY <1>2 DEF Writing
<1>4. UNCHANGED <<run, shared>>
    BY DEF Write
<1>5. PICK i : i = q.inc
    OBVIOUS
<1>6. PICK e : e = w.on
    OBVIOUS
<1>7. /\ w \in Puts(request[x]) /\ Puts(request[x]) = {w} \cup Puts(q)
      /\ e \in Entities
      /\ \A f \in Entities : f # e => props'[f] = props[f]
      /\ props'[e] = Updated(props[e], w.update)
      /\ props[e] \in Properties /\ w.update \in Update
      /\ UNCHANGED artifacts
      /\ \A v \in Pending(q) : v \in Pending(request[x])
    BY <1>1, <1>2, <1>3, <1>6, PropertiesWrite
<1>8. Recovering(request[x])
    BY OldProgress
<1>9. /\ i \in Incidents /\ run[i] = "completed" /\ props[Control].owner = i
      /\ \A v \in Puts(request[x]) : v.update = Released
      /\ q.natives # {} => q.update = Released
      /\ OwnEvidence(props[Control].history, i)
      /\ \A v \in Pending(q) : v.kind \notin {"publish", "delete"}
    BY <1>3, <1>5, <1>7, <1>8 DEF Recovering
<1>10. /\ Datasets \subseteq Entities /\ Natives \subseteq Entities
       /\ Control \in Datasets /\ Control \in Entities
    BY DEF Entities, CatalogAssumption
<1>11. /\ props'[e].owner = props[e].owner /\ props'[e].targets = props[e].targets
       /\ props'[e].history = props[e].history
    BY <1>7, <1>9, ReleasedFields, UpdatedFields
<1>12. \A f \in Entities : /\ props'[f].owner = props[f].owner
                           /\ props'[f].targets = props[f].targets
                           /\ props'[f].history = props[f].history
    BY <1>7, <1>11
<1>13. Recovering(q)'
    BY <1>3, <1>4, <1>5, <1>7, <1>9, <1>10, <1>12 DEF Recovering, Puts, Pending
<1>14. Progress(q)'
    BY <1>3, <1>13 DEF Progress
<1>15. AllowedIsOwn'
    <2>1. ASSUME NEW d \in Datasets, props'[d].owner # None, props'[d].policy = "ALLOW"
          PROVE  /\ run'[props'[d].owner] # "live"
                 /\ props'[Control].owner = props'[d].owner =>
                      OwnEvidence(props'[Control].history, props'[d].owner)
        <3>1. props'[d].owner \in Incidents
            BY <2>1, <1>1, <1>10 DEF TypeInv, TypeOK, Properties
        <3>2. run'[props'[d].owner] # "live"
            BY <3>1, <1>4, LiveAlone
        <3>3. QED
            BY <3>2, <1>9, <1>10, <1>12
    <2>2. QED
        BY <2>1 DEF AllowedIsOwn
<1>16. Anchored' /\ NoOrphanedDataset' /\ NoOrphanedArtifact'
    BY <1>4, <1>7, <1>10, <1>12
    DEF CatalogInv, Anchored, NoOrphanedDataset, NoOrphanedArtifact
<1>17. OwnershipOutlivesReset'
    BY <1>4, <1>7, <1>10, <1>12 DEF CatalogInv, OwnershipOutlivesReset, Named
<1>18. \A f \in Entities : Belongs(f, props'[f])
    BY <1>12 DEF CatalogInv, Belongs
<1>19. \A j \in Incidents : run'[j] # "live"
    BY <1>4, LiveAlone
<1>20. QED
    BY <1>1, <1>3, <1>14, <1>15, <1>16, <1>17, <1>18, <1>19, Assembled

-----------------------------------------------------------------------------
(* Reset                                                                   *)

LEMMA BeginResetInv ==
    ASSUME CatalogInv, OneAtATime, CatalogAssumption, NEW x \in Executors,
           NEW i \in Incidents, BeginReset(x, i)
    PROVE  CatalogInv'
<1>1. TypeInv /\ TypeInv'
    BY NextTypes DEF CatalogInv
<1>0. PICK q : Planned(x, q, i)
    BY <1>1, BeginResetStep
<1>2. /\ Becomes(x, q) /\ q.op = "reset" /\ q.inc = i
      /\ q.left = {d \in Targets : props[d].owner = i}
      /\ q.natives = UNION {Mirrors[d] : d \in q.left}
      /\ q.artifacts = artifacts[i]
      /\ q.todo = <<>> /\ Pending(q) = {} /\ Puts(q) = {}
    BY <1>0 DEF Planned
<1>3. /\ request[x].op = "idle" /\ run[i] \in {"completed", "failed"}
      /\ props[Control].owner = i /\ UNCHANGED <<props, tags, artifacts, run, shared>>
    BY DEF BeginReset, catalog
<1>4. PICK left : left = q.left
    OBVIOUS
<1>5. \A d \in Datasets : props[d].owner = i => d \in left
    <2>1. /\ Control \in Entities /\ i # None /\ Plan[i] # None
          /\ \A e \in Entities : Belongs(e, props[e])
        BY DEF CatalogAssumption, Entities, CatalogInv
    <2>2. Targets = {Control} \cup Plan[i]
        BY <2>1, <1>3 DEF Targets, Belongs
    <2>3. QED
        BY <2>1, <2>2, <1>2, <1>4 DEF Belongs, Entities
<1>6. ~shared => \A n \in Natives : props[n].owner = i => n \in q.natives
    <2>1. ASSUME ~shared, NEW n \in Natives, props[n].owner = i PROVE n \in q.natives
        <3>1. i # None
            BY DEF CatalogAssumption
        <3>2. PICK d \in Datasets : n \in Mirrors[d] /\ props[d].owner = i
            BY <2>1, <3>1 DEF CatalogInv, Anchored
        <3>3. QED
            BY <3>2, <1>2, <1>4, <1>5
    <2>2. QED
        BY <2>1
<1>7. \A d \in left : props[d].owner = i
    BY <1>2, <1>4
<1>8. Resetting(q)'
    <2>1. DOMAIN q.todo = {}
        BY <1>2
    <2>2. QED
        BY <2>1, <1>2, <1>3, <1>4, <1>5, <1>6, <1>7 DEF Resetting, Puts, Pending
<1>9. Progress(q)'
    BY <1>2, <1>8 DEF Progress
<1>10. \A j \in Incidents : run[j] # "live"
    BY <1>3, LiveAlone
<1>11. QED
    BY <1>1, <1>2, <1>3, <1>9, <1>10, QuietStep

LEMMA ResetNativeInv ==
    ASSUME CatalogInv, OneAtATime, CatalogAssumption, NEW x \in Executors, ResetNative(x)
    PROVE  CatalogInv'
<1>1. TypeInv /\ TypeInv'
    BY NextTypes DEF CatalogInv
<1>2. PICK q, n :
        /\ Becomes(x, q) /\ n \in request[x].natives /\ n \in Natives
        /\ q.op = "reset" /\ q.inc = request[x].inc /\ q.left = request[x].left
        /\ q.natives = request[x].natives \ {n} /\ q.artifacts = request[x].artifacts
        /\ q.todo = IF props[n].owner = request[x].inc THEN CleanWrites(n) ELSE <<>>
    BY <1>1, ResetNativeStep
<1>3. /\ request[x].op = "reset" /\ request[x].todo = <<>>
      /\ UNCHANGED <<props, tags, artifacts, run, shared>>
    BY DEF ResetNative, Busy, catalog
<1>4. Resetting(request[x]) /\ Pending(request[x]) = {} /\ Puts(request[x]) = {}
    BY <1>3, OldProgress
<1>5. PICK i : i = q.inc
    OBVIOUS
<1>6. PICK w : w = SetProperties(n, Cleaned)
    OBVIOUS
<1>7. n \in Entities /\ n \notin Datasets
    BY <1>2 DEF Entities, CatalogAssumption
<1>8. w.kind = "props" /\ w.on = n /\ w.update = Cleaned
    BY <1>6, <1>7, SetPropertiesFields, CleanedFields
<1>9. /\ \A v \in Pending(q) : v = w \/ v.kind = "untag"
      /\ \A k \in DOMAIN q.todo : k > 1 => q.todo[k].kind # "props"
      /\ w \in Puts(q) <=> props[n].owner = i
    <2>1. CASE props[n].owner = i
        <3>1. q.todo = CleanWrites(n)
            BY <2>1, <1>2, <1>5
        <3>2. QED
            BY <2>1, <3>1, <1>6, <1>7, <1>8, CleanWritesFields DEF Pending, Puts
    <2>2. CASE props[n].owner # i
        <3>1. q.todo = <<>>
            BY <2>2, <1>2, <1>5
        <3>2. DOMAIN q.todo = {} /\ Pending(q) = {}
            BY <3>1, RangeOfNone DEF Pending
        <3>3. QED
            BY <2>2, <3>2 DEF Puts
    <2>3. QED
        BY <2>1, <2>2
<1>10. \A v \in Puts(q) : v = w /\ props[n].owner = i
    BY <1>9 DEF Puts
<1>11. Resetting(q)
    <2>1. /\ i \in Incidents /\ run[i] \in {"completed", "failed"}
          /\ \A d \in q.left : props[d].owner = i
          /\ \A d \in Datasets : props[d].owner = i => d \in q.left
          /\ ~shared => \A m \in Natives : props[m].owner = i => m \in request[x].natives
          /\ \A a \in artifacts[i] : a \in q.artifacts
        BY <1>2, <1>4, <1>5 DEF Resetting
    <2>2. \A v \in Pending(q) : v.kind # "publish" /\ v.kind # "delete"
        BY <1>8, <1>9
    <2>3. \A v \in Puts(q) : /\ v.update = [keys |-> Keys, to |-> Absent]
                             /\ props[v.on].owner = i /\ v.on \notin Datasets
        BY <1>7, <1>8, <1>10 DEF Cleaned
    <2>4. ~shared => \A m \in Natives : props[m].owner = i =>
                        m \in q.natives \/ \E v \in Puts(q) : v.on = m
        BY <2>1, <1>2, <1>8, <1>9
    <2>5. QED
        BY <1>5, <1>9, <2>1, <2>2, <2>3, <2>4 DEF Resetting
<1>12. Resetting(q)'
    BY <1>3, <1>11, ResettingStays
<1>13. Progress(q)'
    BY <1>2, <1>12 DEF Progress
<1>14. \A j \in Incidents : run[j] # "live"
    BY <1>3, LiveAlone
<1>15. QED
    BY <1>1, <1>2, <1>3, <1>13, <1>14, QuietStep

LEMMA ResetArtifactInv ==
    ASSUME CatalogInv, OneAtATime, CatalogAssumption, NEW x \in Executors, ResetArtifact(x)
    PROVE  CatalogInv'
<1>1. TypeInv /\ TypeInv'
    BY NextTypes DEF CatalogInv
<1>0. PICK q, a : Deleting(x, q, a)
    BY <1>1, ResetArtifactStep
<1>2. /\ Becomes(x, q) /\ a \in request[x].artifacts
      /\ q.op = "reset" /\ q.inc = request[x].inc /\ q.left = request[x].left
      /\ q.natives = {} /\ q.artifacts = request[x].artifacts \ {a}
      /\ q.todo = << DeleteArtifact(q.inc, a) >>
      /\ Pending(q) = {DeleteArtifact(q.inc, a)} /\ Puts(q) = {}
      /\ DeleteArtifact(q.inc, a).kind = "delete" /\ DeleteArtifact(q.inc, a).on = q.inc
      /\ DeleteArtifact(q.inc, a).artifacts = {a}
    BY <1>0 DEF Deleting
<1>3. /\ request[x].op = "reset" /\ request[x].todo = <<>> /\ request[x].natives = {}
      /\ UNCHANGED <<props, tags, artifacts, run, shared>>
    BY DEF ResetArtifact, Busy, catalog
<1>4. Resetting(request[x]) /\ Pending(request[x]) = {} /\ Puts(request[x]) = {}
    BY <1>3, OldProgress
<1>5. PICK i : i = q.inc
    OBVIOUS
<1>6. PICK w : w = DeleteArtifact(i, a)
    OBVIOUS
<1>7. /\ Pending(q) = {w} /\ w.kind = "delete" /\ w.on = i /\ w.artifacts = {a}
      /\ q.todo = <<w>>
    BY <1>2, <1>5, <1>6
<1>8. \A k \in DOMAIN q.todo : k > 1 => q.todo[k].kind # "props"
    BY <1>7
<1>9. Resetting(q)
    <2>1. /\ \A v \in Pending(q) : v.kind = "delete" /\ v.on = i
          /\ Puts(q) = {}
        BY <1>2, <1>7
    <2>2. \A b \in artifacts[i] : b \in q.artifacts \/
              \E v \in Pending(q) : v.kind = "delete" /\ b \in v.artifacts
        BY <1>2, <1>4, <1>5, <1>7 DEF Resetting
    <2>3. /\ i \in Incidents /\ run[i] \in {"completed", "failed"}
          /\ \A d \in q.left : props[d].owner = i
          /\ \A d \in Datasets : props[d].owner = i => d \in q.left
          /\ ~shared => \A n \in Natives : props[n].owner # i
        BY <1>2, <1>3, <1>4, <1>5 DEF Resetting
    <2>4. QED
        BY <1>5, <1>8, <2>1, <2>2, <2>3 DEF Resetting
<1>10. Resetting(q)'
    BY <1>3, <1>9, ResettingStays
<1>11. Progress(q)'
    BY <1>2, <1>10 DEF Progress
<1>12. \A j \in Incidents : run[j] # "live"
    BY <1>3, LiveAlone
<1>13. QED
    BY <1>1, <1>2, <1>3, <1>11, <1>12, QuietStep

LEMMA ResetDatasetInv ==
    ASSUME CatalogInv, OneAtATime, CatalogAssumption, NEW x \in Executors, ResetDataset(x)
    PROVE  CatalogInv'
<1>1. TypeInv /\ TypeInv'
    BY NextTypes DEF CatalogInv
<1>2. PICK q, d :
        /\ Becomes(x, q) /\ d \in request[x].left /\ d \in Datasets
        /\ d = Control => request[x].left = {Control}
        /\ q.op = "reset" /\ q.inc = request[x].inc /\ q.left = request[x].left \ {d}
        /\ q.natives = {} /\ q.artifacts = {} /\ q.todo = CleanWrites(d)
    BY <1>1, ResetDatasetStep
<1>3. /\ request[x].op = "reset" /\ request[x].todo = <<>> /\ request[x].natives = {}
      /\ request[x].artifacts = {}
      /\ UNCHANGED <<props, tags, artifacts, run, shared>>
    BY DEF ResetDataset, Busy, catalog
<1>4. Resetting(request[x]) /\ Pending(request[x]) = {} /\ Puts(request[x]) = {}
    BY <1>3, OldProgress
<1>5. PICK i : i = q.inc
    OBVIOUS
<1>6. PICK w : w = SetProperties(d, Cleaned)
    OBVIOUS
<1>7. d \in Entities
    BY <1>2 DEF Entities
<1>8. w.kind = "props" /\ w.on = d /\ w.update = [keys |-> Keys, to |-> Absent]
    BY <1>6, <1>7, SetPropertiesFields, CleanedFields DEF Cleaned
<1>9. /\ \A v \in Pending(q) : v = w \/ v.kind = "untag"
      /\ \A k \in DOMAIN q.todo : k > 1 => q.todo[k].kind # "props"
      /\ Puts(q) = {w}
    BY <1>2, <1>6, <1>7, <1>8, CleanWritesFields DEF Pending, Puts
<1>10. Resetting(q)
    <2>1. /\ i \in Incidents /\ run[i] \in {"completed", "failed"}
          /\ \A e \in request[x].left : props[e].owner = i
          /\ \A e \in Datasets : props[e].owner = i => e \in request[x].left
          /\ ~shared => \A m \in Natives : props[m].owner # i
          /\ artifacts[i] = {}
        BY <1>2, <1>3, <1>4, <1>5 DEF Resetting
    <2>2. \A v \in Pending(q) : /\ v.kind # "publish" /\ v.kind # "delete"
                                /\ v.kind = "props" => v.on = d
        BY <1>8, <1>9
    <2>3. QED
        BY <1>2, <1>5, <1>8, <1>9, <2>1, <2>2 DEF Resetting
<1>11. Resetting(q)'
    BY <1>3, <1>10, ResettingStays
<1>12. Progress(q)'
    BY <1>2, <1>11 DEF Progress
<1>13. \A j \in Incidents : run[j] # "live"
    BY <1>3, LiveAlone
<1>14. QED
    BY <1>1, <1>2, <1>3, <1>12, <1>13, QuietStep

LEMMA FinishResetInv ==
    ASSUME CatalogInv, OneAtATime, CatalogAssumption, NEW x \in Executors, FinishReset(x)
    PROVE  CatalogInv'
<1>1. TypeInv /\ TypeInv'
    BY NextTypes DEF CatalogInv
<1>2. PICK i : i = request[x].inc
    OBVIOUS
<1>3. /\ request[x].op = "reset" /\ request[x].todo = <<>> /\ request[x].left = {}
      /\ run' = [run EXCEPT ![i] = "none"] /\ UNCHANGED <<props, tags, artifacts, shared>>
      /\ request' = [request EXCEPT ![x] = Idle]
    BY <1>2 DEF FinishReset, Busy, catalog
<1>4. Resetting(request[x]) /\ Puts(request[x]) = {}
    BY <1>3, OldProgress
<1>5. i \in Incidents /\ \A d \in Datasets : props[d].owner # i
    BY <1>2, <1>3, <1>4 DEF Resetting
<1>6. run'[i] = "none" /\ \A j \in Incidents \ {i} : run'[j] = run[j]
    BY <1>1, <1>3, <1>5 DEF TypeInv, TypeOK
<1>7. \A j \in Incidents : run[j] # "live"
    BY <1>3, LiveAlone
<1>8. OwnershipOutlivesReset'
    BY <1>3, <1>6 DEF CatalogInv, OwnershipOutlivesReset, Named
<1>9. /\ \A j \in Incidents : run'[j] # "live"
      /\ \A j \in Incidents : run'[j] = "none" =>
             run[j] = "none" \/ \A d \in Datasets : props[d].owner # j
    BY <1>5, <1>6, <1>7
<1>10. NoOrphanedArtifact'
    <2>1. artifacts[i] = {}
        <3>1. /\ request[x].artifacts = {} /\ Pending(request[x]) = {}
            BY <1>3, OldProgress DEF FinishReset
        <3>2. QED
            BY <3>1, <1>2, <1>4 DEF Resetting
    <2>2. QED
        BY <2>1, <1>3, <1>6 DEF CatalogInv, NoOrphanedArtifact
<1>11. QED
    BY <1>1, <1>3, <1>8, <1>9, <1>10, EndInv

LEMMA DeleteInv ==
    ASSUME CatalogInv, OneAtATime, CatalogAssumption, NEW x \in Executors, Write(x),
           Deletes(Head(request[x].todo))
    PROVE  CatalogInv'
<1>1. TypeInv /\ TypeInv'
    BY NextTypes DEF CatalogInv
<1>2. PICK q, w : Writing(x, q, w)
    BY <1>1, WriteStep
<1>3. /\ Becomes(x, q) /\ w = Head(request[x].todo)
      /\ request[x].todo \in Seq(Writes) /\ request[x].todo # <<>>
      /\ q.todo = Tail(request[x].todo)
      /\ Pending(request[x]) = {w} \cup Pending(q)
      /\ q.op = request[x].op /\ q.inc = request[x].inc /\ q.left = request[x].left
      /\ q.natives = request[x].natives /\ q.artifacts = request[x].artifacts
    BY <1>2 DEF Writing
<1>4. /\ UNCHANGED <<props, run, shared>> /\ w.kind = "delete"
      /\ artifacts' = [artifacts EXCEPT ![w.on] = @ \ w.artifacts]
    BY <1>3 DEF Deletes, Write
<1>5. Puts(q) = Puts(request[x]) /\ \A v \in Pending(q) : v \in Pending(request[x])
    BY <1>3, <1>4 DEF Puts
<1>6. w \in Pending(request[x])
    BY <1>3
<1>7. request[x].op = "reset"
    <2>1. request[x].op # "run" /\ request[x].op # "repair"
        BY <1>4, <1>6, OldProgress DEF Running, Repairing
    <2>2. request[x].op # "recover"
        BY <1>4, <1>6, OldProgress DEF Recovering
    <2>3. request[x].op # "idle"
        BY <1>3, OldProgress DEF Progress
    <2>4. QED
        BY <1>1, <2>1, <2>2, <2>3, RequestFields
<1>8. Resetting(request[x])
    BY <1>7, OldProgress
<1>9. PICK i : i = q.inc
    OBVIOUS
<1>10. w.on = i /\ i \in Incidents
    BY <1>3, <1>4, <1>6, <1>8, <1>9 DEF Resetting
<1>11. /\ artifacts'[i] = artifacts[i] \ w.artifacts
       /\ \A j \in Incidents \ {i} : artifacts'[j] = artifacts[j]
    BY <1>1, <1>4, <1>10 DEF TypeInv, TypeOK
<1>12. \A k \in DOMAIN q.todo : k > 1 => q.todo[k].kind # "props"
    <2>1. \A k \in DOMAIN request[x].todo : k > 1 => request[x].todo[k].kind # "props"
        BY <1>8 DEF Resetting
    <2>2. QED
        BY <1>3, <2>1, LaterWrites
<1>13. Resetting(q)'
    <2>1. \A a \in artifacts'[i] : a \in q.artifacts \/
             \E v \in Pending(q) : v.kind = "delete" /\ a \in v.artifacts
        <3>1. ASSUME NEW a \in artifacts'[i], a \notin q.artifacts
              PROVE  \E v \in Pending(q) : v.kind = "delete" /\ a \in v.artifacts
            <4>1. a \in artifacts[i] /\ a \notin w.artifacts
                BY <3>1, <1>11
            <4>2. PICK v \in Pending(request[x]) : v.kind = "delete" /\ a \in v.artifacts
                BY <3>1, <4>1, <1>3, <1>8, <1>9 DEF Resetting
            <4>3. v \in Pending(q)
                BY <4>1, <4>2, <1>3
            <4>4. QED
                BY <4>2, <4>3
        <3>2. QED
            BY <3>1
    <2>2. /\ i \in Incidents /\ run[i] \in {"completed", "failed"}
          /\ \A v \in Pending(q) : v.kind # "publish"
          /\ \A v \in Pending(q) : v.kind = "delete" => v.on = i
        BY <1>3, <1>5, <1>8, <1>9 DEF Resetting
    <2>3. /\ \A v \in Puts(q) : /\ v.update = [keys |-> Keys, to |-> Absent]
                                /\ props[v.on].owner = i
          /\ \A d \in q.left : props[d].owner = i
          /\ \A d \in Datasets : props[d].owner = i => d \in q.left \/ \E v \in Puts(q) : v.on = d
          /\ ~shared => \A n \in Natives : props[n].owner = i =>
                            n \in q.natives \/ \E v \in Puts(q) : v.on = n
        BY <1>3, <1>5, <1>8, <1>9 DEF Resetting
    <2>4. \A v \in Puts(q) : v.on \in Datasets => FALSE
        BY <1>4, <1>5, <1>6, <1>8 DEF Resetting
    <2>5. QED
        BY <1>4, <1>9, <1>12, <2>1, <2>2, <2>3, <2>4 DEF Resetting, Puts, Pending
<1>14. Progress(q)'
    BY <1>3, <1>7, <1>13 DEF Progress
<1>15. OwnershipOutlivesReset'
    <2>1. \A j \in Incidents : artifacts'[j] \subseteq artifacts[j]
        BY <1>11
    <2>2. QED
        BY <1>4, <2>1 DEF CatalogInv, OwnershipOutlivesReset, Named
<1>16. AllowedIsOwn' /\ Anchored' /\ NoOrphanedDataset' /\ NoOrphanedArtifact'
    BY <1>4, <1>11
    DEF CatalogInv, AllowedIsOwn, Anchored, NoOrphanedDataset, NoOrphanedArtifact
<1>17. \A e \in Entities : Belongs(e, props'[e])
    BY <1>4 DEF CatalogInv
<1>18. \A j \in Incidents : run'[j] # "live"
    BY <1>4, <1>7, LiveAlone
<1>19. QED
    BY <1>1, <1>3, <1>14, <1>15, <1>16, <1>17, <1>18, Assembled

LEMMA CleanWriteInv ==
    ASSUME CatalogInv, OneAtATime, CatalogAssumption, NEW x \in Executors, Write(x),
           WritesProperties(Head(request[x].todo)), request[x].op = "reset"
    PROVE  CatalogInv'
<1>1. TypeInv /\ TypeInv'
    BY NextTypes DEF CatalogInv
<1>2. PICK q, w : Writing(x, q, w)
    BY <1>1, WriteStep
<1>3. /\ Becomes(x, q) /\ w = Head(request[x].todo)
      /\ request[x].todo \in Seq(Writes) /\ request[x].todo # <<>>
      /\ q.todo = Tail(request[x].todo)
      /\ Pending(request[x]) = {w} \cup Pending(q)
      /\ q.op = "reset" /\ q.inc = request[x].inc /\ q.left = request[x].left
      /\ q.natives = request[x].natives /\ q.artifacts = request[x].artifacts
    BY <1>2 DEF Writing
<1>4. UNCHANGED <<run, shared>>
    BY DEF Write
<1>5. PICK i : i = q.inc
    OBVIOUS
<1>6. PICK e : e = w.on
    OBVIOUS
<1>7. /\ w \in Puts(request[x]) /\ Puts(request[x]) = {w} \cup Puts(q)
      /\ e \in Entities
      /\ \A f \in Entities : f # e => props'[f] = props[f]
      /\ props'[e] = Updated(props[e], w.update)
      /\ props[e] \in Properties /\ w.update \in Update
      /\ UNCHANGED artifacts
      /\ \A v \in Pending(q) : v \in Pending(request[x])
      /\ \A v \in Pending(request[x]) : v.kind = "delete" => v \in Pending(q)
    BY <1>1, <1>2, <1>3, <1>6, PropertiesWrite
<1>8. Resetting(request[x])
    BY OldProgress
<1>9. i \in Incidents /\ run[i] \in {"completed", "failed"} /\ i # None
    BY <1>3, <1>5, <1>8 DEF Resetting, CatalogAssumption
<1>10. w.update.keys = Keys /\ w.update.to = Absent /\ props[e].owner = i
    <2>1. \A v \in Puts(request[x]) : /\ v.update = [keys |-> Keys, to |-> Absent]
                                      /\ props[v.on].owner = i
        BY <1>3, <1>5, <1>8 DEF Resetting
    <2>2. QED
        BY <2>1, <1>6, <1>7
<1>11. props'[e].owner = None
    BY <1>7, <1>10, UpdatedFields, AbsentFields DEF Keys
<1>12. /\ \A k \in DOMAIN q.todo : k > 1 => q.todo[k].kind # "props"
       /\ Puts(q) = {} /\ Puts(request[x]) = {w}
    <2>1. \A k \in DOMAIN request[x].todo : k > 1 => request[x].todo[k].kind # "props"
        BY <1>8 DEF Resetting
    <2>2. /\ \A v \in Range(Tail(request[x].todo)) : v.kind # "props"
          /\ \A k \in DOMAIN q.todo : k > 1 => q.todo[k].kind # "props"
        BY <1>3, <2>1, LaterWrites
    <2>3. Puts(q) = {}
        BY <1>3, <2>2 DEF Puts, Pending
    <2>4. QED
        BY <2>2, <2>3, <1>7
<1>13. Datasets \subseteq Entities /\ Natives \subseteq Entities /\ Control \in Datasets
    BY DEF Entities, CatalogAssumption
<1>14. \A f \in Entities : props'[f].owner = i => f # e /\ props[f].owner = i
    BY <1>7, <1>9, <1>11
<1>15. \A f \in Entities : props'[f].owner # None => props'[f] = props[f] /\ f # e
    BY <1>7, <1>11
<1>16. /\ \A d \in Datasets : props[d].owner = i => d \in q.left \/ d = e
       /\ ~shared => \A n \in Natives : props[n].owner = i => n \in q.natives \/ n = e
    <2>1. \A d \in Datasets : props[d].owner = i =>
             d \in request[x].left \/ \E v \in Puts(request[x]) : v.on = d
        BY <1>3, <1>5, <1>8 DEF Resetting
    <2>2. ~shared => \A n \in Natives : props[n].owner = i =>
             n \in request[x].natives \/ \E v \in Puts(request[x]) : v.on = n
        BY <1>3, <1>5, <1>8 DEF Resetting
    <2>3. QED
        BY <2>1, <2>2, <1>3, <1>6, <1>12
<1>17. e \in Datasets =>
          /\ q.natives = {} /\ q.artifacts = {} /\ artifacts[i] = {}
          /\ e = Control => q.left = {}
    <2>1. ASSUME e \in Datasets
          PROVE  /\ q.natives = {} /\ q.artifacts = {}
                 /\ \A v \in Pending(request[x]) : v.kind # "delete"
                 /\ e = Control => q.left = {}
        BY <2>1, <1>3, <1>6, <1>7, <1>8 DEF Resetting
    <2>2. \A a \in artifacts[i] : a \in q.artifacts \/
             \E v \in Pending(request[x]) : v.kind = "delete" /\ a \in v.artifacts
        BY <1>3, <1>5, <1>8 DEF Resetting
    <2>3. QED
        BY <2>1, <2>2
<1>18. ~shared /\ e \in Datasets => \A n \in Natives : props[n].owner # i
    BY <1>16, <1>17 DEF CatalogAssumption
<1>19. e \notin q.left
    <2>1. q.left \subseteq Datasets
        BY <1>1, <1>3, RequestFields
    <2>2. e \in Datasets => e \notin q.left
        BY <1>3, <1>5, <1>6, <1>7, <1>8 DEF Resetting
    <2>3. QED
        BY <2>1, <2>2
<1>20. Resetting(q)'
    <2>1. \A d \in q.left : props'[d].owner = i
        <3>1. \A d \in q.left : props[d].owner = i /\ d \in Entities
            BY <1>1, <1>3, <1>5, <1>8, <1>13, RequestFields DEF Resetting
        <3>2. QED
            BY <3>1, <1>7, <1>19
    <2>2. /\ \A d \in Datasets : props'[d].owner = i => d \in q.left
          /\ ~shared => \A n \in Natives : props'[n].owner = i => n \in q.natives
        BY <1>13, <1>14, <1>16
    <2>3. \A a \in artifacts[i] : a \in q.artifacts \/
             \E v \in Pending(q) : v.kind = "delete" /\ a \in v.artifacts
        BY <1>3, <1>5, <1>7, <1>8 DEF Resetting
    <2>4. /\ \A v \in Pending(q) : v.kind # "publish"
          /\ \A v \in Pending(q) : v.kind = "delete" => v.on = i
        BY <1>3, <1>5, <1>7, <1>8 DEF Resetting
    <2>5. QED
        BY <1>4, <1>5, <1>7, <1>9, <1>12, <2>1, <2>2, <2>3, <2>4 DEF Resetting, Puts, Pending
<1>21. Progress(q)'
    BY <1>3, <1>20 DEF Progress
<1>22. AllowedIsOwn'
    BY <1>4, <1>13, <1>15 DEF CatalogInv, AllowedIsOwn
<1>23. Anchored'
    <2>1. ASSUME ~shared, NEW n \in Natives, props'[n].owner # None
          PROVE  \E d \in Datasets : n \in Mirrors[d] /\ props'[d].owner = props'[n].owner
        <3>1. props'[n] = props[n]
            BY <2>1, <1>13, <1>15
        <3>2. PICK d \in Datasets : n \in Mirrors[d] /\ props[d].owner = props[n].owner
            BY <2>1, <3>1 DEF CatalogInv, Anchored
        <3>3. d # e
            BY <2>1, <3>1, <3>2, <1>10, <1>18
        <3>4. QED
            BY <3>1, <3>2, <3>3, <1>7, <1>13
    <2>2. QED
        BY <1>4, <2>1 DEF Anchored
<1>24. NoOrphanedDataset' /\ NoOrphanedArtifact'
    BY <1>4, <1>7, <1>13, <1>15 DEF CatalogInv, NoOrphanedDataset, NoOrphanedArtifact
<1>25. OwnershipOutlivesReset'
    <2>1. ASSUME NEW j \in Incidents, run[j] = "completed", ~shared
          PROVE  \/ props'[Control].owner = j
                 \/ (\A f \in Entities : props'[f].owner # j) /\ "incident" \notin artifacts'[j]
        <3>1. \/ props[Control].owner = j
              \/ (\A f \in Entities : props[f].owner # j) /\ "incident" \notin artifacts[j]
            BY <2>1 DEF CatalogInv, OwnershipOutlivesReset, Named
        <3>2. j # None
            BY DEF CatalogAssumption
        <3>3. CASE e # Control \/ j # i
            BY <3>1, <3>2, <3>3, <1>7, <1>10, <1>13, <1>15
        <3>4. CASE e = Control /\ j = i
            BY <2>1, <3>4, <1>7, <1>13, <1>14, <1>16, <1>17, <1>18 DEF Entities
        <3>5. QED
            BY <3>3, <3>4
    <2>2. QED
        BY <1>4, <2>1 DEF OwnershipOutlivesReset, Named
<1>26. \A f \in Entities : Belongs(f, props'[f])
    BY <1>7, <1>11 DEF CatalogInv, Belongs
<1>27. \A j \in Incidents : run'[j] # "live"
    BY <1>4, LiveAlone
<1>28. QED
    BY <1>1, <1>3, <1>21, <1>22, <1>23, <1>24, <1>25, <1>26, <1>27, Assembled

-----------------------------------------------------------------------------
(* The invariant holds                                                     *)

LEMMA WriteInv ==
    ASSUME CatalogInv, OneAtATime, CatalogAssumption, PolicyAssumption,
           NEW x \in Executors, Write(x)
    PROVE  CatalogInv'
<1>1. TypeInv
    BY DEF CatalogInv
<1>2. PICK w : w = Head(request[x].todo)
    OBVIOUS
<1>3. WritesProperties(w) \/ WritesTags(w) \/ Publishes(w) \/ Deletes(w)
    BY <1>1, <1>2, WriteKinds
<1>4. CASE WritesTags(w)
    BY <1>2, <1>4, WriteTagsInv
<1>5. CASE Publishes(w)
    BY <1>2, <1>5, PublishInv
<1>6. CASE Deletes(w)
    BY <1>2, <1>6, DeleteInv
<1>7. CASE WritesProperties(w)
    <2>1. CASE request[x].op = "run"
        BY <2>1, <1>2, <1>7, RunWriteInv
    <2>2. CASE request[x].op = "recover"
        <3>1. CASE Evaluating(request[x], w)
            BY <2>2, <3>1, <1>2, <1>7, EvaluateWriteInv
        <3>2. CASE ~Evaluating(request[x], w)
            <4>1. ASSUME NEW v \in Pending(request[x]), Evaluating(request[x], v) PROVE FALSE
                <5>1. request[x].todo = <<v>>
                    BY <4>1 DEF Evaluating
                <5>2. w = v
                    BY <5>1, <1>2
                <5>3. QED
                    BY <4>1, <5>2, <3>2
            <4>2. QED
                BY <2>2, <4>1, <1>2, <1>7, ReleaseWriteInv
        <3>3. QED
            BY <3>1, <3>2
    <2>3. CASE request[x].op = "reset"
        BY <2>3, <1>2, <1>7, CleanWriteInv
    <2>4. request[x].op # "idle"
        BY OldProgress DEF Progress, Write
    <2>5. request[x].op # "repair"
        <3>1. PICK q : Writing(x, q, w)
            BY <1>1, <1>2, WriteStep DEF Writing
        <3>2. w \in Pending(request[x]) /\ w.kind = "props"
            BY <3>1, <1>7 DEF Writing, WritesProperties
        <3>3. QED
            BY <3>2, OldProgress DEF Repairing
    <2>6. QED
        BY <2>5, <1>1, <2>1, <2>2, <2>3, <2>4, RequestFields
<1>8. QED
    BY <1>3, <1>4, <1>5, <1>6, <1>7

LEMMA NextInv ==
    ASSUME CatalogInv, OneAtATime, CatalogAssumption, PolicyAssumption, Next
    PROVE  CatalogInv'
<1>1. PICK x \in Executors :
        \/ \E i \in Incidents :
              StartRun(x, i) \/ BeginRecover(x, i) \/ BeginRepair(x, i) \/ BeginReset(x, i)
        \/ EnforceAsset(x) \/ MirrorNative(x) \/ FinishRun(x)
        \/ ReleaseAsset(x) \/ FinishRecover(x) \/ FinishRepair(x)
        \/ ResetNative(x) \/ ResetArtifact(x) \/ ResetDataset(x) \/ FinishReset(x)
        \/ Write(x) \/ Abandon(x)
    BY DEF Next
<1>2. CASE \E i \in Incidents :
              StartRun(x, i) \/ BeginRecover(x, i) \/ BeginRepair(x, i) \/ BeginReset(x, i)
    BY <1>2, StartRunInv, BeginRecoverInv, BeginRepairInv, BeginResetInv
<1>3. CASE EnforceAsset(x) \/ MirrorNative(x) \/ FinishRun(x)
    BY <1>3, EnforceAssetInv, MirrorNativeInv, FinishRunInv
<1>4. CASE ReleaseAsset(x) \/ FinishRecover(x) \/ FinishRepair(x)
    BY <1>4, ReleaseAssetInv, FinishRecoverInv, FinishRepairInv
<1>5. CASE ResetNative(x) \/ ResetArtifact(x) \/ ResetDataset(x) \/ FinishReset(x)
    BY <1>5, ResetNativeInv, ResetArtifactInv, ResetDatasetInv, FinishResetInv
<1>6. CASE Write(x) \/ Abandon(x)
    BY <1>6, WriteInv, AbandonInv
<1>7. QED
    BY <1>1, <1>2, <1>3, <1>4, <1>5, <1>6

LEMMA StutterInv ==
    ASSUME CatalogInv, UNCHANGED vars
    PROVE  CatalogInv'
<1>1. UNCHANGED <<props, tags, artifacts, run, request, shared>>
    BY DEF vars
<1>2. TypeInv'
    BY StutterTypes DEF CatalogInv
<1>3. \A e \in Entities : Belongs(e, props'[e])
    BY <1>1 DEF CatalogInv
<1>4. ASSUME NEW x \in Executors PROVE Progress(request[x])'
    <2>1. Progress(request[x])
        BY DEF CatalogInv
    <2>2. request[x].op = "run" => Running(request[x])'
        BY <1>1, <2>1 DEF Progress, Running, Puts, Pending
    <2>3. request[x].op = "recover" => Recovering(request[x])'
        BY <1>1, <2>1 DEF Progress, Recovering, Evaluating, Puts, Pending
    <2>4. request[x].op = "reset" => Resetting(request[x])'
        BY <1>1, <2>1 DEF Progress, Resetting, Puts, Pending
    <2>5. request[x].op = "repair" => Repairing(request[x])'
        BY <1>1, <2>1 DEF Progress, Repairing, Pending
    <2>6. QED
        BY <1>1, <2>1, <2>2, <2>3, <2>4, <2>5 DEF Progress
<1>5. /\ LiveIsRun' /\ AllowedIsOwn' /\ Anchored'
      /\ NoOrphanedDataset' /\ NoOrphanedArtifact' /\ OwnershipOutlivesReset'
    BY <1>1 DEF CatalogInv, LiveIsRun, AllowedIsOwn, Anchored, NoOrphanedDataset,
                NoOrphanedArtifact, OwnershipOutlivesReset, Named
<1>6. QED
    BY <1>2, <1>3, <1>4, <1>5 DEF CatalogInv

LEMMA InitInv ==
    ASSUME Init, CatalogAssumption
    PROVE  CatalogInv
<1>1. TypeInv
    BY InitTypes
<1>2. \A e \in Entities : props[e].owner = None
    BY AbsentFields DEF Init
<1>3. \A e \in Entities : Belongs(e, props[e])
    BY <1>2 DEF Belongs
<1>4. \A x \in Executors : Progress(request[x])
    BY IdleFields DEF Init, Progress
<1>5. LiveIsRun /\ OwnershipOutlivesReset /\ NoOrphanedArtifact
    BY DEF Init, LiveIsRun, OwnershipOutlivesReset, NoOrphanedArtifact
<1>6. AllowedIsOwn /\ Anchored /\ NoOrphanedDataset
    BY <1>2 DEF AllowedIsOwn, Anchored, NoOrphanedDataset, Entities
<1>7. QED
    BY <1>1, <1>3, <1>4, <1>5, <1>6 DEF CatalogInv

\* The invariant holds of every reachable state when one operation runs at a time.
THEOREM CatalogInvHolds ==
    ASSUME OneAtATime
    PROVE  Spec => []CatalogInv
<1>1. Init => CatalogInv
    BY CatalogAssumption, InitInv
<1>2. CatalogInv /\ [Next]_vars => CatalogInv'
    BY CatalogAssumption, PolicyAssumption, NextInv, StutterInv
<1>3. QED
    BY <1>1, <1>2, PTL DEF Spec

\* "Cross-incident state stays locked": whatever incidents follow each other on the same
\* assets, and wherever enforce, a release or a reset stopped, a dataset that an incident
\* holds together with the control asset is allowed again only on clean evaluations of
\* that incident.  (Two operations at a time do break it: CrossIncidentStaysLocked.)
THEOREM ReleaseFollowsOwnEvidence ==
    ASSUME OneAtATime
    PROVE  Spec => []ReleasedOnOwnEvidence
<1>1. CatalogInv => ReleasedOnOwnEvidence
    BY DEF CatalogInv, AllowedIsOwn, ReleasedOnOwnEvidence
<1>2. QED
    BY <1>1, CatalogInvHolds, PTL

\* A reset that completes leaves nothing, over any abandoned attempts before: no artifact
\* and no dataset of the incident, because all of its datasets are in the plan that the
\* control asset still names, and no native entity unless incidents met on the same
\* assets.  The Decision Log that a step of the repair wrote in between goes with it.
THEOREM CompletedResetLeavesNothing ==
    ASSUME OneAtATime
    PROVE  Spec => []NoOrphans
<1>1. ASSUME CatalogInv, NEW i \in Incidents, run[i] = "none"
      PROVE  artifacts[i] = {} /\ Named(i) \cap Datasets = {} /\ (~shared => Named(i) = {})
    <2>1. i # None
        BY CatalogAssumption DEF CatalogAssumption
    <2>2. \A d \in Datasets : props[d].owner # i
        BY <1>1, <2>1 DEF CatalogInv, NoOrphanedDataset
    <2>3. ~shared => \A n \in Natives : props[n].owner # i
        BY <1>1, <2>1, <2>2 DEF CatalogInv, Anchored
    <2>4. artifacts[i] = {}
        BY <1>1 DEF CatalogInv, NoOrphanedArtifact
    <2>5. QED
        BY <2>2, <2>3, <2>4 DEF Named, Entities
<1>2. CatalogInv => NoOrphans
    BY <1>1 DEF NoOrphans
<1>3. QED
    BY <1>2, CatalogInvHolds, PTL

\* "The control asset is deliberately cleaned last so a failed partial reset can be
\* retried": as long as an entity names a completed incident, or its native Incident
\* exists, the control asset names it and a reset is accepted, unless two incidents met
\* on the same assets.  Not so for a Decision Log that a step of the repair writes after
\* a reset has cleaned the control asset: it stays.
THEOREM ResetCanBeRetried ==
    ASSUME OneAtATime
    PROVE  Spec => []OwnershipOutlivesReset
<1>1. CatalogInv => OwnershipOutlivesReset
    BY DEF CatalogInv
<1>2. QED
    BY <1>1, CatalogInvHolds, PTL
=============================================================================
