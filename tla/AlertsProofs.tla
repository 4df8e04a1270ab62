---------------------------- MODULE AlertsProofs ----------------------------
(***************************************************************************)
(* Proofs about module Alerts, for any number of Supervisors, turns and    *)
(* routes, any queue, any ceilings, and any number of disturbances.        *)
(***************************************************************************)
EXTENDS Alerts, TLAPS

-----------------------------------------------------------------------------
(* The invariant *)

ItemFields == {"held", "room", "unsure", "gap", "paused", "elapsed", "late", "expired",
               "dirty", "verdict"}
VerdictFields == {"asked", "packet", "gates", "body", "handling", "link", "fix", "status",
                  "exhausted", "findings", "mishandled", "mode", "delivery", "to", "waiting"}
Attempt == [case : PeerTurns, axes : SUBSET Axes, to : Supervisors,
            state : {"reserved", "accepted", "uncertain"}]
JobAwaits == {"restore", "verify lead", "verify peer", "history", "gather"}
CaseAwaits == {"refresh", "ask", "recipient", "send"}

ItemOK(x) == /\ DOMAIN x = ItemFields
             /\ x.held \in SUBSET Text
             /\ x.room \in Seq(LeadTurns)
             /\ DOMAIN x.verdict = VerdictFields
             /\ x.verdict.asked \in 0..MaxAssessments

\* What a case holds was captured under generations l and p; the turns of its
\* room began, by b, after its own.
HeldIn(x, l, p) == \A h \in x.held : h.lead = l /\ h.peer = p
LaterIn(c, x, b) == \A i \in DOMAIN x.room : b[x.room[i]] # None /\ c \in b[x.room[i]]

CaseOK(c, x, l, p, b) == c \in PeerTurns /\ ItemOK(x) /\ HeldIn(x, l, p) /\ LaterIn(c, x, b)

CasesOK(cs, l, p, b) == \A c \in DOMAIN cs : CaseOK(c, cs[c], l, p, b)

\* A capture of a Lead turn says of the beginning of its turn what was so.
TimelyJob(j, b) ==
    j.kind = "turn" =>
        /\ j.of \in Turns
        /\ j.of \in LeadTurns => /\ b[j.of] # None
                                 /\ j.after # None => j.after \subseteq b[j.of]
                                 /\ j.anchors \subseteq b[j.of]

\* A job is of the Peer's generation p or an earlier one, and of p if the Peer
\* is not among the buried.
JobOK(j, b, p, buried) ==
    /\ j \in JobRow
    /\ j.text => j.kind = "turn"
    /\ TimelyJob(j, b)
    /\ j.peer <= p
    /\ Peer \notin buried => j.peer = p

\* Generations are met in the order they were taken in.
QueueOK(q, b, p, buried) ==
    /\ q \in Seq(JobRow)
    /\ Len(q) <= MaxQueue
    /\ \A i \in DOMAIN q : JobOK(q[i], b, p, buried)
    /\ \A i, k \in DOMAIN q : i <= k => q[i].peer <= q[k].peer

StartsOK(ss, b) ==
    \A t \in DOMAIN ss : /\ t \in LeadTurns
                         /\ ss[t] \in [after : SUBSET PeerTurns, overlap : BOOLEAN]
                         /\ ss[t].after = b[t]
                         /\ b[t] # None

\* A job that is awaited for was taken before those in the queue.
AwaitOK == pc \in JobAwaits =>
    /\ JobOK(cur.job, began, gen[Peer], tomb)
    /\ \A i \in DOMAIN jobs : cur.job.peer <= jobs[i].peer
    /\ pc \in {"history", "gather"} => cur.job.kind = "turn"
    /\ pc = "gather" => cur.job.of \in LeadTurns

\* A case that is awaited for is open, and its question is still the one that
\* was asked unless something moved.
CurOK ==
    /\ pc \in CaseAwaits => cur.item \in DOMAIN cases
    /\ pc = "ask" /\ drift = {} =>
          /\ cur.view = EvidenceView(cases[cur.item])
          /\ cur.eras = <<gen[Lead], gen[Peer]>>
    /\ pc = "recipient" => cur.route \in Routes /\ cur.route.mode = "notify"
    /\ pc = "send" => cur.axes \in SUBSET Axes /\ cur.to \in Supervisors

\* Once the gate was seen down no body is left.
NoBodies(cs, q) == /\ \A c \in DOMAIN cs : cs[c].held = {}
                   /\ \A i \in DOMAIN q : ~q[i].text

WorldOK ==
    /\ host \subseteq Agents /\ up \in BOOLEAN /\ config \in Routes \cup {None}
    /\ ended \subseteq PeerTurns /\ over \subseteq LeadTurns
    /\ began \in [LeadTurns -> {None} \cup SUBSET PeerTurns]

RegistersOK ==
    /\ gateWasDown \in BOOLEAN /\ known \in BOOLEAN /\ member \in BOOLEAN
    /\ fresh \in BOOLEAN /\ timer \in BOOLEAN
    /\ gen \in [Agents -> Nat] /\ tomb \subseteq Agents /\ seen \subseteq Turns
    /\ member => {Lead, Peer} \cap tomb = {}
    /\ known => Lead \notin tomb
    /\ pc \in Awaits \cup {"idle", "drain", "evaluate", "pass"}
    /\ pc = "idle" => jobs = <<>>

\* An alert that was sent is on disk.
SentOK ==
    /\ attempts \subseteq Attempt
    /\ sent \in [PeerTurns \X Axes \X Supervisors -> Nat]
    /\ \A s \in PeerTurns \X Axes \X Supervisors :
          sent[s] <= 1 /\ (sent[s] > 0 => s[2] \in Attempted(s[1], s[3]))

AlertsInv ==
    /\ WorldOK /\ RegistersOK
    /\ StartsOK(starts, began)
    /\ QueueOK(jobs, began, gen[Peer], tomb)
    /\ CasesOK(cases, gen[Lead], gen[Peer], began)
    /\ AwaitOK /\ CurOK
    /\ gateWasDown => NoBodies(cases, jobs)
    /\ SentOK

-----------------------------------------------------------------------------
(* Cases *)

\* What becomes of a case as long as it takes nothing in.
Fades(x, y) == ItemOK(y) /\ y.held \subseteq x.held /\ y.room = x.room

Faded(cs, ds) == DOMAIN ds \subseteq DOMAIN cs /\ \A c \in DOMAIN ds : Fades(cs[c], ds[c])

\* A case that takes nothing in stays right.
LEMMA FadesOK ==
    ASSUME NEW c, NEW x, NEW y, NEW l, NEW p, NEW b, CaseOK(c, x, l, p, b), Fades(x, y)
    PROVE  CaseOK(c, y, l, p, b)
  BY DEF CaseOK, Fades, HeldIn, LaterIn

\* So do all of them.
LEMMA FadedOK ==
    ASSUME NEW cs, NEW ds, NEW l, NEW p, NEW b, CasesOK(cs, l, p, b), Faded(cs, ds)
    PROVE  CasesOK(ds, l, p, b)
  BY FadesOK DEF CasesOK, Faded

\* Clearing, soiling and pausing.
LEMMA SmallEdits ==
    ASSUME NEW x, ItemOK(x)
    PROVE  /\ Fades(x, x)
           /\ Fades(x, Cleared(x)) /\ Cleared(x).held = {}
           /\ Fades(x, [x EXCEPT !.dirty = TRUE])
           /\ Fades(x, [x EXCEPT !.gap = TRUE, !.dirty = TRUE])
           /\ Fades(x, [Cleared(x) EXCEPT !.paused = TRUE, !.dirty = TRUE])
           /\ [Cleared(x) EXCEPT !.paused = TRUE, !.dirty = TRUE].held = {}
           /\ Fades(x, [x EXCEPT !.late = TRUE])
           /\ Fades(x, [x EXCEPT !.expired = TRUE])
           /\ Fades(x, [x EXCEPT !.elapsed = @ \/ x.late])
           /\ Fades(x, [x EXCEPT !.verdict.waiting = FALSE])
  BY DEF Fades, ItemOK, Cleared, ItemFields, VerdictFields

\* What the hooks leave of a case's verdict, and what a case is judged by.
Mild(x, y) == Fades(x, y) /\ y.verdict.packet = x.verdict.packet
Same(x, y) == EvidenceView(y) = EvidenceView(x)

\* Hooks and clocks edit cases mildly; clocks leave the evidence alone.
LEMMA MildEdits ==
    ASSUME NEW x, ItemOK(x)
    PROVE  /\ Mild(x, x)
           /\ Mild(x, Cleared(x)) /\ Cleared(x).held = {} /\ Mild(x, [Cleared(x) EXCEPT !.dirty = TRUE])
           /\ Mild(x, [x EXCEPT !.dirty = TRUE])
           /\ Mild(x, [x EXCEPT !.gap = TRUE, !.dirty = TRUE])
           /\ Mild(x, [Cleared(x) EXCEPT !.paused = TRUE, !.dirty = TRUE])
           /\ [Cleared(x) EXCEPT !.paused = TRUE, !.dirty = TRUE].held = {}
           /\ Mild(x, [x EXCEPT !.late = TRUE]) /\ Same(x, [x EXCEPT !.late = TRUE])
           /\ Mild(x, [x EXCEPT !.expired = TRUE]) /\ Same(x, [x EXCEPT !.expired = TRUE])
           /\ Mild(x, [x EXCEPT !.elapsed = @ \/ x.late])
           /\ Mild(x, [x EXCEPT !.verdict.waiting = FALSE])
           /\ Same(x, [x EXCEPT !.verdict.waiting = FALSE])
  BY DEF Mild, Same, EvidenceView, Fades, ItemOK, Cleared, ItemFields, VerdictFields

\* A verdict may be replaced.
LEMMA VerdictEdit ==
    ASSUME NEW x, ItemOK(x), NEW v, DOMAIN v = VerdictFields, v.asked \in 0..MaxAssessments
    PROVE  Fades(x, [x EXCEPT !.verdict = v])
  BY DEF Fades, ItemOK, ItemFields, VerdictFields

\* The edits of the drain.
LEMMA DrainEdits ==
    ASSUME NEW x, ItemOK(x)
    PROVE  /\ \A m : Fades(x, [x EXCEPT !.verdict.mode = m])
           /\ \A e : Fades(x, [x EXCEPT !.verdict.exhausted = e])
           /\ \A e : Fades(x, [x EXCEPT !.dirty = FALSE, !.verdict.exhausted = e])
           /\ \A g : x.verdict.asked < MaxAssessments =>
                Fades(x, [x EXCEPT !.verdict.asked = @ + 1, !.verdict.gates = g])
           /\ \A state, to : Fades(x, Delivery(x, state, to))
  <1> USE AlertsAssumption DEF Fades, ItemOK, ItemFields, VerdictFields
  <1>1. ASSUME NEW m PROVE Fades(x, [x EXCEPT !.verdict.mode = m])
        OBVIOUS
  <1>2. ASSUME NEW e PROVE Fades(x, [x EXCEPT !.verdict.exhausted = e])
        OBVIOUS
  <1>3. ASSUME NEW e PROVE Fades(x, [x EXCEPT !.dirty = FALSE, !.verdict.exhausted = e])
        OBVIOUS
  <1>4. ASSUME NEW g, x.verdict.asked < MaxAssessments
        PROVE  Fades(x, [x EXCEPT !.verdict.asked = @ + 1, !.verdict.gates = g])
    <2>1. x.verdict.asked + 1 \in 0..MaxAssessments
          BY <1>4
    <2> DEFINE v == [x.verdict EXCEPT !.asked = @ + 1, !.gates = g]
    <2>2. DOMAIN v = VerdictFields /\ v.asked \in 0..MaxAssessments
          BY <2>1
    <2>3. [x EXCEPT !.verdict.asked = @ + 1, !.verdict.gates = g] = [x EXCEPT !.verdict = v]
          OBVIOUS
    <2> HIDE DEF v
    <2> QED BY <2>2, <2>3, VerdictEdit
  <1>5. ASSUME NEW state, NEW to PROVE Fades(x, Delivery(x, state, to))
        BY DEF Delivery
  <1> QED BY <1>1, <1>2, <1>3, <1>4, <1>5

\* Judging changes the verdict and nothing that is held.
LEMMA JudgedFades ==
    ASSUME NEW x, ItemOK(x), NEW g
    PROVE  Fades(x, Judged(x, g)) /\ Same(x, Judged(x, g)) /\ ~Judged(x, g).dirty
           /\ Judged(x, g).verdict.packet = x.verdict.packet
  BY DEF Fades, Same, EvidenceView, ItemOK, ItemFields, VerdictFields, Judged

\* So does an answer.
LEMMA RepliesFade ==
    ASSUME NEW x, ItemOK(x), NEW g, NEW v \in Replies(x, g)
    PROVE  /\ Fades(x, Judged([x EXCEPT !.verdict = v], g))
           /\ Same(x, Judged([x EXCEPT !.verdict = v], g))
  <1>1. DOMAIN v = VerdictFields /\ v.asked \in 0..MaxAssessments
    <2>1. \E e, k, f : v = Reply(x, g, e, k, f)
          BY DEF Replies
    <2> QED BY <2>1 DEF Reply, ItemOK, VerdictFields
  <1> DEFINE y == [x EXCEPT !.verdict = v]
  <1>2. Fades(x, y)
        BY <1>1, VerdictEdit
  <1>3. Same(x, y)
        BY DEF Same, EvidenceView, ItemOK, ItemFields
  <1> HIDE DEF y
  <1>4. Fades(y, Judged(y, g)) /\ Same(y, Judged(y, g))
        BY <1>2, JudgedFades DEF Fades
  <1> QED BY <1>2, <1>3, <1>4 DEF Fades, Same, y

-----------------------------------------------------------------------------
(* All cases *)

Items(cs) == \A c \in DOMAIN cs : ItemOK(cs[c])

\* Every right case has its fields.
LEMMA CasesItems == ASSUME NEW cs, NEW l, NEW p, NEW b, CasesOK(cs, l, p, b) PROVE Items(cs)
  BY DEF CasesOK, CaseOK, Items

\* Fading is reflexive and transitive.
LEMMA FadedSelf == ASSUME NEW cs, Items(cs) PROVE Faded(cs, cs)
  BY SmallEdits DEF Faded, Items

LEMMA FadedTwice ==
    ASSUME NEW cs, NEW ds, NEW es, Faded(cs, ds), Faded(ds, es)
    PROVE  Faded(cs, es)
  BY DEF Faded, Fades

\* What fades keeps its fields and finds no new body.
LEMMA FadedKeeps ==
    ASSUME NEW cs, NEW ds, Faded(cs, ds)
    PROVE  /\ Items(ds)
           /\ (\A c \in DOMAIN cs : cs[c].held = {}) => \A c \in DOMAIN ds : ds[c].held = {}
  BY DEF Faded, Fades, Items

\* Closing cases, editing one, and both.
LEMMA WithoutFaded == ASSUME NEW cs, NEW gone, Items(cs) PROVE Faded(cs, Without(cs, gone))
  BY SmallEdits DEF Faded, Items, Without

LEMMA KeptFaded ==
    ASSUME NEW cs, NEW c \in DOMAIN cs, NEW x, Items(cs), Fades(cs[c], x)
    PROVE  Faded(cs, Kept(cs, c, x)) /\ DOMAIN Kept(cs, c, x) = DOMAIN cs
  BY SmallEdits DEF Faded, Items, Kept

LEMMA PutFaded ==
    ASSUME NEW cs, NEW c \in DOMAIN cs, NEW x, Items(cs), Fades(cs[c], x)
    PROVE  Faded(cs, Put(cs, c, x))
  BY WithoutFaded, KeptFaded DEF Put

\* Soiling and purging all of them.
LEMMA AllFaded ==
    ASSUME NEW cs, Items(cs)
    PROVE  /\ Faded(cs, Dirty(cs)) /\ DOMAIN Dirty(cs) = DOMAIN cs
           /\ Faded(cs, Gapped(cs)) /\ DOMAIN Gapped(cs) = DOMAIN cs
           /\ Faded(cs, PurgedCases(cs)) /\ DOMAIN PurgedCases(cs) = DOMAIN cs
           /\ \A c \in DOMAIN cs : PurgedCases(cs)[c].held = {}
  BY SmallEdits DEF Faded, Items, Dirty, Gapped, PurgedCases

-----------------------------------------------------------------------------
(* The queue *)

\* Jobs that are about to be queued, taken in generation p of the Peer.
NewJobs(js, b, p, buried) ==
    /\ js \in Seq(JobRow)
    /\ \A k \in DOMAIN js : JobOK(js[k], b, p, buried) /\ js[k].peer = p

\* What fits goes to the end, in order.
LEMMA FitsOK ==
    ASSUME NEW q \in Seq(JobRow), Len(q) <= MaxQueue, NEW js \in Seq(JobRow)
    PROVE  /\ q \o Fits(q, js) \in Seq(JobRow)
           /\ Len(q \o Fits(q, js)) <= MaxQueue
           /\ \A i \in DOMAIN (q \o Fits(q, js)) :
                 \/ i \in DOMAIN q /\ (q \o Fits(q, js))[i] = q[i]
                 \/ i > Len(q) /\ \E k \in DOMAIN js : (q \o Fits(q, js))[i] = js[k]
  <1> DEFINE n == IF Len(js) < MaxQueue - Len(q) THEN Len(js) ELSE MaxQueue - Len(q)
  <1>1. n \in 0..Len(js) /\ Len(q) + n <= MaxQueue
        BY ObserverAssumption
  <1>2. Fits(q, js) = SubSeq(js, 1, n)
        BY DEF Fits
  <1> HIDE DEF n
  <1>3. /\ SubSeq(js, 1, n) \in Seq(JobRow) /\ Len(SubSeq(js, 1, n)) = n
        /\ \A k \in 1..n : SubSeq(js, 1, n)[k] = js[k] /\ k \in DOMAIN js
        BY <1>1
  <1> DEFINE f == SubSeq(js, 1, n)
  <1> HIDE DEF f
  <1>4. f \in Seq(JobRow) /\ Len(f) = n /\ \A k \in 1..n : f[k] = js[k] /\ k \in DOMAIN js
        BY <1>3 DEF f
  <1>5. q \o f \in Seq(JobRow) /\ Len(q \o f) = Len(q) + n
    <2>1. q \in Seq(JobRow) /\ f \in Seq(JobRow)
          BY <1>4
    <2>2. q \o f \in Seq(JobRow) /\ Len(q \o f) = Len(q) + Len(f)
          BY <2>1
    <2> QED BY <1>4, <2>2
  <1>6. ASSUME NEW i \in DOMAIN (q \o f)
        PROVE  \/ i \in DOMAIN q /\ (q \o f)[i] = q[i]
               \/ i > Len(q) /\ \E k \in DOMAIN js : (q \o f)[i] = js[k]
    <2>1. i \in 1..(Len(q) + n)
          BY <1>5
    <2>2. CASE i <= Len(q)
          BY <2>1, <2>2, <1>4
    <2>3. CASE i > Len(q)
      <3>1. (q \o f)[i] = f[i - Len(q)] /\ i - Len(q) \in 1..n
            BY <2>1, <2>3, <1>4
      <3> QED BY <2>3, <3>1, <1>4
    <2> QED BY <2>1, <2>2, <2>3
  <1> QED BY <1>1, <1>2, <1>5, <1>6 DEF f

Joined(q, js) == q \o Fits(q, js)

\* All of r was in q or is one of js, which are of generation p.
Comes(q, js, r, p) ==
    \A i \in DOMAIN r : \/ i \in DOMAIN q /\ r[i] = q[i]
                        \/ r[i].peer = p /\ \E k \in DOMAIN js : r[i] = js[k]

\* A queue that took new jobs is right, and nothing else is in it.
LEMMA Enqueued ==
    ASSUME NEW q, NEW js, NEW b, NEW p, NEW buried, QueueOK(q, b, p, buried),
           NewJobs(js, b, p, buried)
    PROVE  /\ QueueOK(Joined(q, js), b, p, buried)
           /\ Comes(q, js, Joined(q, js), p)
  <1> DEFINE r == Joined(q, js)
  <1>1. /\ r \in Seq(JobRow) /\ Len(r) <= MaxQueue
        /\ \A i \in DOMAIN r : \/ i \in DOMAIN q /\ r[i] = q[i]
                               \/ i > Len(q) /\ \E k \in DOMAIN js : r[i] = js[k]
    <2>1. q \in Seq(JobRow) /\ Len(q) <= MaxQueue /\ js \in Seq(JobRow)
          BY DEF QueueOK, NewJobs
    <2> QED BY <2>1, FitsOK DEF Joined
  <1> HIDE DEF r
  <1>2. \A i \in DOMAIN r : JobOK(r[i], b, p, buried)
        BY <1>1 DEF QueueOK, NewJobs
  <1>3. \A i \in DOMAIN r : i > Len(q) => r[i].peer = p /\ \E k \in DOMAIN js : r[i] = js[k]
        BY <1>1 DEF QueueOK, NewJobs
  <1>4. ASSUME NEW i \in DOMAIN r, NEW k \in DOMAIN r, i <= k PROVE r[i].peer <= r[k].peer
    <2>1. DOMAIN q = 1..Len(q) /\ Len(q) \in Nat /\ i \in Nat /\ k \in Nat
          BY <1>1 DEF QueueOK
    <2>2. CASE k \in DOMAIN q /\ r[k] = q[k]
      <3>1. i \in DOMAIN q /\ r[i] = q[i]
            BY <1>1, <1>4, <2>1, <2>2
      <3> QED BY <3>1, <2>2, <1>4 DEF QueueOK
    <2>3. CASE k > Len(q)
      <3>1. r[k].peer = p
            BY <1>3, <2>3
      <3>2. r[i].peer <= p
            BY <1>2 DEF JobOK
      <3> QED BY <3>1, <3>2
    <2> QED BY <1>1, <2>2, <2>3
  <1>5. \A i \in DOMAIN r : \/ i \in DOMAIN q /\ r[i] = q[i]
                            \/ r[i].peer = p /\ \E k \in DOMAIN js : r[i] = js[k]
        BY <1>1, <1>3
  <1> QED BY <1>1, <1>2, <1>4, <1>5 DEF QueueOK, Comes, r

\* Scrubbing takes the bodies and nothing else.
LEMMA ScrubbedOK ==
    ASSUME NEW q, NEW b, NEW p, NEW buried, QueueOK(q, b, p, buried)
    PROVE  /\ QueueOK(ScrubbedJobs(q), b, p, buried)
           /\ DOMAIN ScrubbedJobs(q) = DOMAIN q
           /\ \A i \in DOMAIN q : ScrubbedJobs(q)[i].peer = q[i].peer /\ ~ScrubbedJobs(q)[i].text
  <1> DEFINE s == ScrubbedJobs(q)
  <1>0. \A j \in JobRow : [j EXCEPT !.text = FALSE, !.purged = TRUE] \in JobRow
        BY DEF JobRow
  <1>1. /\ s \in Seq(JobRow) /\ Len(s) = Len(q) /\ DOMAIN s = DOMAIN q
    <2>1. q \in Seq(JobRow) /\ DOMAIN q = 1..Len(q) /\ Len(q) \in Nat /\ \A i \in 1..Len(q) : q[i] \in JobRow
          BY DEF QueueOK
    <2>2. s \in [1..Len(q) -> JobRow]
          BY <1>0, <2>1 DEF ScrubbedJobs
    <2> HIDE DEF s
    <2> QED BY <2>1, <2>2
  <1>2. \A i \in DOMAIN q : s[i] = IF q[i].kind = "turn" THEN [q[i] EXCEPT !.text = FALSE, !.purged = TRUE]
                                   ELSE q[i]
        BY DEF ScrubbedJobs
  <1> HIDE DEF s
  <1>3. ASSUME NEW i \in DOMAIN q
        PROVE  JobOK(s[i], b, p, buried) /\ s[i].peer = q[i].peer /\ ~s[i].text
    <2>1. JobOK(q[i], b, p, buried) /\ q[i] \in JobRow
          BY DEF QueueOK, JobOK
    <2>2. CASE q[i].kind = "turn"
      <3>1. s[i] = [q[i] EXCEPT !.text = FALSE, !.purged = TRUE]
            BY <1>2, <2>2
      <3>2. /\ s[i] \in JobRow /\ s[i].kind = q[i].kind /\ s[i].of = q[i].of /\ s[i].after = q[i].after
            /\ s[i].anchors = q[i].anchors /\ s[i].peer = q[i].peer /\ ~s[i].text
            BY <2>1, <3>1 DEF JobRow
      <3> QED BY <2>1, <2>2, <3>2 DEF JobOK, TimelyJob
    <2>3. CASE q[i].kind # "turn"
          BY <2>1, <2>3, <1>2 DEF JobOK
    <2> QED BY <2>2, <2>3
  <1>4. QueueOK(s, b, p, buried)
        BY <1>1, <1>3 DEF QueueOK
  <1> QED BY <1>1, <1>3, <1>4 DEF s

\* The head was taken before the tail.
LEMMA TailOK ==
    ASSUME NEW q, NEW b, NEW p, NEW buried, QueueOK(q, b, p, buried), q # <<>>
    PROVE  /\ QueueOK(Tail(q), b, p, buried)
           /\ JobOK(Head(q), b, p, buried)
           /\ \A i \in DOMAIN Tail(q) : Head(q).peer <= Tail(q)[i].peer
           /\ (\A i \in DOMAIN q : ~q[i].text) => ~Head(q).text /\ \A i \in DOMAIN Tail(q) : ~Tail(q)[i].text
  <1>1. /\ Tail(q) \in Seq(JobRow) /\ Len(Tail(q)) = Len(q) - 1 /\ Len(q) > 0 /\ Head(q) = q[1]
        /\ \A i \in DOMAIN Tail(q) : i + 1 \in DOMAIN q /\ Tail(q)[i] = q[i + 1]
        /\ 1 \in DOMAIN q /\ DOMAIN Tail(q) \subseteq Nat
        BY DEF QueueOK
  <1> DEFINE t == Tail(q)
  <1> HIDE DEF t
  <1>2. /\ t \in Seq(JobRow) /\ Len(t) <= MaxQueue
        /\ \A i \in DOMAIN t : JobOK(t[i], b, p, buried)
        BY <1>1, ObserverAssumption DEF QueueOK, t
  <1>3. \A i, k \in DOMAIN t : i <= k => t[i].peer <= t[k].peer
        BY <1>1 DEF QueueOK, t
  <1>4. \A i \in DOMAIN t : q[1].peer <= t[i].peer
        BY <1>1 DEF QueueOK, t
  <1> QED BY <1>1, <1>2, <1>3, <1>4 DEF QueueOK, t

-----------------------------------------------------------------------------
(* The gate *)

\* The same jobs, whatever became of their bodies.
SamePeers(q, r) == DOMAIN r = DOMAIN q /\ \A i \in DOMAIN q : r[i].peer = q[i].peer

\* A gate that is seen down leaves no body, and purges once.
LEMMA Purged ==
    ASSUME NEW q, NEW cs, NEW b, NEW p, NEW buried, QueueOK(q, b, p, buried), Items(cs),
           GateDown(q, cs), gateWasDown => NoBodies(cs, q), StartsOK(starts, b)
    PROVE  /\ gateWasDown' = TRUE
           /\ QueueOK(jobs', b, p, buried)
           /\ SamePeers(q, jobs')
           /\ Faded(cs, cases') /\ DOMAIN cases' = DOMAIN cs
           /\ NoBodies(cases', jobs')
           /\ StartsOK(starts', b)
  <1>1. CASE gateWasDown
    <2>1. jobs' = q /\ cases' = cs /\ starts' = starts /\ gateWasDown' = TRUE
          BY <1>1 DEF GateDown
    <2> QED BY <1>1, <2>1, FadedSelf DEF SamePeers
  <1>2. CASE ~gateWasDown
    <2>1. jobs' = ScrubbedJobs(q) /\ cases' = PurgedCases(cs) /\ starts' = <<>> /\ gateWasDown' = TRUE
          BY <1>2 DEF GateDown
    <2>2. StartsOK(starts', b)
          BY <2>1 DEF StartsOK
    <2>3. /\ QueueOK(jobs', b, p, buried)
          /\ DOMAIN jobs' = DOMAIN q
          /\ \A i \in DOMAIN q : jobs'[i].peer = q[i].peer /\ ~jobs'[i].text
          BY <2>1, ScrubbedOK
    <2>4. Faded(cs, cases') /\ DOMAIN cases' = DOMAIN cs /\ \A c \in DOMAIN cs : cases'[c].held = {}
          BY <2>1, AllFaded
    <2> QED BY <2>1, <2>2, <2>3, <2>4 DEF NoBodies, SamePeers
  <1> QED BY <1>1, <1>2

-----------------------------------------------------------------------------
(* Hooks *)

\* What every hook does to the drain: cases and locals stay, and if something
\* moved under a question, drift says so.
HookShape ==
    /\ pc' = pc \/ (pc = "idle" /\ pc' = "drain")
    /\ DOMAIN cases' = DOMAIN cases
    /\ \A c \in DOMAIN cases : Mild(cases[c], cases'[c])
    /\ pc = "ask" /\ drift' = {} =>
          /\ drift = {} /\ gen'[Lead] = gen[Lead] /\ gen'[Peer] = gen[Peer]
          /\ \A c \in DOMAIN cases : Same(cases[c], cases'[c])
    /\ cur' = cur /\ attempts' = attempts /\ sent' = sent

\* New jobs are of the present generation of the Peer.
Followed == \A i \in DOMAIN jobs' : \/ jobs'[i].peer = gen[Peer]
                                    \/ \E k \in DOMAIN jobs : jobs'[i].peer = jobs[k].peer

\* Turns begin once.
BeginsKept(b, d) == \A t \in LeadTurns : b[t] # None => d[t] = b[t]

\* A job stays right when the Peer is buried and when turns begin.
LEMMA JobStays ==
    ASSUME NEW j, NEW b, NEW d, NEW p \in Nat, NEW r \in Nat, NEW buried, NEW later,
           JobOK(j, b, p, buried), BeginsKept(b, d), p <= r, Peer \in buried => Peer \in later, p # r => Peer \in later
    PROVE  JobOK(j, d, r, later)
  <1>1. TimelyJob(j, d)
        BY DEF JobOK, TimelyJob, BeginsKept
  <1>2. j.peer \in Nat
        BY DEF JobOK, JobRow
  <1> QED BY <1>1, <1>2 DEF JobOK

\* So does a queue.
LEMMA QueueStays ==
    ASSUME NEW q, NEW b, NEW d, NEW p \in Nat, NEW r \in Nat, NEW buried, NEW later,
           QueueOK(q, b, p, buried), BeginsKept(b, d), p <= r, Peer \in buried => Peer \in later, p # r => Peer \in later
    PROVE  QueueOK(q, d, r, later)
  <1>1. \A i \in DOMAIN q : JobOK(q[i], d, r, later)
        BY JobStays DEF QueueOK
  <1> QED BY <1>1 DEF QueueOK

\* A step of that shape preserves the invariant if its registers are right.
LEMMA HookInv ==
    ASSUME AlertsInv, HookShape, Followed, WorldOK', RegistersOK',
           gen[Peer] <= gen'[Peer], Peer \in tomb => Peer \in tomb',
           gen[Peer] # gen'[Peer] => Peer \in tomb', BeginsKept(began, began'),
           QueueOK(jobs', began', gen'[Peer], tomb'),
           StartsOK(starts', began'), gateWasDown' => NoBodies(cases', jobs'),
           CasesOK(cases', gen'[Lead], gen'[Peer], began')
    PROVE  AlertsInv'
  <1>1. AwaitOK'
    <2> SUFFICES ASSUME pc' \in JobAwaits PROVE AwaitOK'
        BY DEF AwaitOK
    <2>1. pc' = pc
          BY DEF HookShape, JobAwaits
    <2>2. /\ JobOK(cur.job, began, gen[Peer], tomb)
          /\ \A i \in DOMAIN jobs : cur.job.peer <= jobs[i].peer
          /\ pc \in {"history", "gather"} => cur.job.kind = "turn"
          /\ pc = "gather" => cur.job.of \in LeadTurns
          BY <2>1 DEF AlertsInv, AwaitOK
    <2>3. gen[Peer] \in Nat /\ gen'[Peer] \in Nat
          BY DEF AlertsInv, RegistersOK, Agents
    <2>4. JobOK(cur.job, began', gen'[Peer], tomb')
        BY <2>2, <2>3, JobStays
    <2>5. cur.job.peer <= gen[Peer]
          BY <2>2 DEF JobOK
    <2>6. \A i \in DOMAIN jobs' : cur.job.peer <= jobs'[i].peer
          BY <2>2, <2>5 DEF Followed
    <2>7. cur' = cur
          BY DEF HookShape
    <2> QED BY <2>1, <2>2, <2>4, <2>6, <2>7 DEF AwaitOK
  <1>2. CurOK'
    <2>1. pc' \in CaseAwaits => pc' = pc
          BY DEF HookShape, CaseAwaits
    <2>2. cur' = cur /\ DOMAIN cases' = DOMAIN cases
          BY DEF HookShape
    <2>3. pc' = "ask" /\ drift' = {} =>
              cur.view = EvidenceView(cases'[cur.item]) /\ cur.eras = <<gen'[Lead], gen'[Peer]>>
          BY <2>1 DEF HookShape, Same, AlertsInv, CurOK, CaseAwaits
    <2> QED BY <2>1, <2>2, <2>3 DEF AlertsInv, CurOK, CaseAwaits
  <1>3. SentOK'
        BY DEF HookShape, AlertsInv, SentOK, Attempted
  <1> QED BY <1>1, <1>2, <1>3 DEF AlertsInv

\* Jobs that are not captures.
LEMMA JobMade ==
    ASSUME RegistersOK, NEW kind \in JobKinds, NEW of \in Agents \cup Turns \cup {None},
           NEW ours \in BOOLEAN
    PROVE  /\ Job(kind, of, ours) \in JobRow
           /\ Job(kind, of, ours).kind = kind /\ Job(kind, of, ours).of = of
           /\ Job(kind, of, ours).peer = gen[Peer] /\ ~Job(kind, of, ours).text
           /\ Job(kind, of, ours).after = None /\ Job(kind, of, ours).anchors = {}
  <1>1. gen[Lead] \in Nat /\ gen[Peer] \in Nat
        BY DEF RegistersOK, Agents
  <1>2. FALSE \in BOOLEAN /\ None \in {None} \cup SUBSET PeerTurns /\ {} \in SUBSET PeerTurns
        OBVIOUS
  <1>3. Job(kind, of, ours) \in JobRow
    <2> DEFINE Whose == Agents \cup Turns \cup {None}
               After == {None} \cup SUBSET PeerTurns
    <2>1. of \in Whose /\ None \in After
          OBVIOUS
    <2>2. JobRow = [kind : JobKinds, of : Whose, ours : BOOLEAN, lead : Nat, peer : Nat,
                    text : BOOLEAN, purged : BOOLEAN, after : After, overlap : BOOLEAN,
                    anchors : SUBSET PeerTurns]
          BY DEF JobRow
    <2> HIDE DEF Whose, After
    <2> QED BY <1>1, <1>2, <2>1, <2>2 DEF Job
  <1>4. /\ Job(kind, of, ours).kind = kind /\ Job(kind, of, ours).of = of
        /\ Job(kind, of, ours).peer = gen[Peer] /\ ~Job(kind, of, ours).text
        BY DEF Job
  <1>5. Job(kind, of, ours).after = None /\ Job(kind, of, ours).anchors = {}
        BY DEF Job
  <1> QED BY <1>3, <1>4, <1>5

\* A queue of one.
LEMMA OneJob ==
    ASSUME NEW j, NEW b, NEW p, NEW buried, JobOK(j, b, p, buried), j.peer = p
    PROVE  NewJobs(<<j>>, b, p, buried)
  <1>1. j \in JobRow
        BY DEF JobOK
  <1>2. <<j>> \in Seq(JobRow) /\ DOMAIN <<j>> = {1} /\ <<j>>[1] = j
        BY <1>1
  <1> QED BY <1>2 DEF NewJobs

\* The queue of a hook's notice.
LEMMA NoticeOK ==
    ASSUME AlertsInv, NEW kind \in JobKinds \ {"turn"}, NEW of \in Agents \cup {None},
           NEW ours \in BOOLEAN
    PROVE  /\ NewJobs(<<Job(kind, of, ours)>>, began, gen[Peer], tomb)
           /\ \A k \in DOMAIN <<Job(kind, of, ours)>> : ~(<<Job(kind, of, ours)>>[k]).text
  <1> DEFINE j == Job(kind, of, ours)
  <1>1. j \in JobRow /\ j.kind = kind /\ j.peer = gen[Peer] /\ ~j.text
        BY JobMade DEF AlertsInv
  <1>2. gen[Peer] \in Nat
        BY DEF AlertsInv, RegistersOK, Agents
  <1> HIDE DEF j
  <1>3. JobOK(j, began, gen[Peer], tomb)
        BY <1>1, <1>2 DEF JobOK, TimelyJob
  <1>4. NewJobs(<<j>>, began, gen[Peer], tomb)
        BY <1>1, <1>3, OneJob
  <1>5. \A k \in DOMAIN <<j>> : ~(<<j>>[k]).text
    <2>1. DOMAIN <<j>> = {1} /\ <<j>>[1] = j
          OBVIOUS
    <2> QED BY <1>1, <2>1
  <1> QED BY <1>4, <1>5 DEF j

\* What a hook that queues js leaves behind.
LEMMA HookEnqueues ==
    ASSUME AlertsInv, NEW js, NewJobs(js, began, gen[Peer], tomb), Enqueue(js)
    PROVE  /\ QueueOK(jobs', began, gen[Peer], tomb)
           /\ Followed
           /\ fresh' \in BOOLEAN
           /\ pc' = pc \/ (pc = "idle" /\ pc' = "drain")
           /\ pc' \in Awaits \cup {"idle", "drain", "evaluate", "pass"}
           /\ pc' = "idle" => jobs' = <<>>
           /\ (\A i \in DOMAIN jobs : ~jobs[i].text) /\ (\A k \in DOMAIN js : ~js[k].text)
                 => \A i \in DOMAIN jobs' : ~jobs'[i].text
  <1>1. QueueOK(jobs, began, gen[Peer], tomb) /\ gen[Peer] \in Nat
        BY DEF AlertsInv, RegistersOK, Agents
  <1>2. \A i \in DOMAIN jobs : jobs[i].peer <= gen[Peer]
        BY <1>1 DEF QueueOK, JobOK
  <1>3. /\ QueueOK(jobs', began, gen[Peer], tomb)
        /\ \A i \in DOMAIN jobs' :
              \/ i \in DOMAIN jobs /\ jobs'[i] = jobs[i]
              \/ jobs'[i].peer = gen[Peer] /\ \E k \in DOMAIN js : jobs'[i] = js[k]
    <2>1. QueueOK(Joined(jobs, js), began, gen[Peer], tomb) /\ Comes(jobs, js, Joined(jobs, js), gen[Peer])
          BY <1>1, Enqueued
    <2>2. jobs' = Joined(jobs, js)
          BY DEF Enqueue, Joined
    <2> QED BY <2>1, <2>2 DEF Comes
  <1>4. pc' = IF pc = "idle" /\ js # <<>> THEN "drain" ELSE pc
        BY DEF Enqueue
  <1>5. ASSUME pc' = "idle" PROVE jobs' = <<>>
    <2>1. jobs = <<>> /\ js = <<>>
          BY <1>4, <1>5 DEF AlertsInv, RegistersOK
    <2>2. DOMAIN jobs' = {}
          BY <1>3, <2>1
    <2>3. jobs' \in Seq(JobRow)
          BY <1>3 DEF QueueOK
    <2> QED BY <2>2, <2>3
  <1>6. fresh' \in BOOLEAN
        BY DEF Enqueue
  <1>7. pc' \in Awaits \cup {"idle", "drain", "evaluate", "pass"}
        BY <1>4 DEF AlertsInv, RegistersOK
  <1> QED BY <1>3, <1>4, <1>5, <1>6, <1>7 DEF Followed

\* Clearing all cases, purging them, and finding a gap in them.
LEMMA AllMild ==
    ASSUME NEW cs, Items(cs)
    PROVE  /\ \A c \in DOMAIN cs : Mild(cs[c], cs[c]) /\ Same(cs[c], cs[c])
           /\ DOMAIN PurgedCases(cs) = DOMAIN cs /\ \A c \in DOMAIN cs : Mild(cs[c], PurgedCases(cs)[c])
           /\ DOMAIN Gapped(cs) = DOMAIN cs /\ \A c \in DOMAIN cs : Mild(cs[c], Gapped(cs)[c])
           /\ DOMAIN Dirty([c \in DOMAIN cs |-> Cleared(cs[c])]) = DOMAIN cs
           /\ \A c \in DOMAIN cs :
                 /\ Mild(cs[c], Dirty([d \in DOMAIN cs |-> Cleared(cs[d])])[c])
                 /\ Dirty([d \in DOMAIN cs |-> Cleared(cs[d])])[c].held = {}
  <1>1. \A c \in DOMAIN cs : Mild(cs[c], cs[c]) /\ Same(cs[c], cs[c])
        BY MildEdits DEF Items, Same
  <1>2. DOMAIN PurgedCases(cs) = DOMAIN cs /\ \A c \in DOMAIN cs : Mild(cs[c], PurgedCases(cs)[c])
        BY MildEdits DEF Items, PurgedCases
  <1>3. DOMAIN Gapped(cs) = DOMAIN cs /\ \A c \in DOMAIN cs : Mild(cs[c], Gapped(cs)[c])
        BY MildEdits DEF Items, Gapped
  <1>4. ASSUME NEW c \in DOMAIN cs
        PROVE  /\ Mild(cs[c], Dirty([d \in DOMAIN cs |-> Cleared(cs[d])])[c])
               /\ Dirty([d \in DOMAIN cs |-> Cleared(cs[d])])[c].held = {}
    <2>1. Dirty([d \in DOMAIN cs |-> Cleared(cs[d])])[c] = [Cleared(cs[c]) EXCEPT !.dirty = TRUE]
          BY DEF Dirty
    <2>2. Mild(cs[c], [Cleared(cs[c]) EXCEPT !.dirty = TRUE]) /\ ItemOK(cs[c])
          BY MildEdits DEF Items
    <2>3. [Cleared(cs[c]) EXCEPT !.dirty = TRUE].held = {}
          BY <2>2 DEF ItemOK, ItemFields, Cleared
    <2> QED BY <2>1, <2>2, <2>3
  <1>5. DOMAIN Dirty([c \in DOMAIN cs |-> Cleared(cs[c])]) = DOMAIN cs
        BY DEF Dirty
  <1> QED BY <1>1, <1>2, <1>3, <1>4, <1>5

\* Mild steps fade.
LEMMA MildFaded ==
    ASSUME NEW cs, NEW ds, DOMAIN ds = DOMAIN cs, \A c \in DOMAIN cs : Mild(cs[c], ds[c])
    PROVE  Faded(cs, ds)
  BY DEF Mild, Faded

\* Cases stay right when turns begin.
LEMMA CasesStay ==
    ASSUME NEW cs, NEW l, NEW p, NEW b, NEW d, CasesOK(cs, l, p, b), BeginsKept(b, d)
    PROVE  CasesOK(cs, l, p, d)
  <1> SUFFICES ASSUME NEW c \in DOMAIN cs, NEW i \in DOMAIN cs[c].room
               PROVE  d[cs[c].room[i]] # None /\ c \in d[cs[c].room[i]]
      BY DEF CasesOK, CaseOK, LaterIn
  <1>1. cs[c].room \in Seq(LeadTurns) /\ b[cs[c].room[i]] # None /\ c \in b[cs[c].room[i]]
        BY DEF CasesOK, CaseOK, LaterIn, ItemOK
  <1>2. cs[c].room[i] \in LeadTurns
        BY <1>1
  <1> QED BY <1>1, <1>2 DEF BeginsKept

\* A hook that finds the gate down.
LEMMA HookPurges ==
    ASSUME AlertsInv, HookGateDown
    PROVE  /\ gateWasDown' = TRUE /\ NoBodies(cases', jobs')
           /\ QueueOK(jobs', began, gen[Peer], tomb) /\ Followed
           /\ pc = "idle" => jobs' = <<>>
           /\ DOMAIN cases' = DOMAIN cases /\ \A c \in DOMAIN cases : Mild(cases[c], cases'[c])
           /\ CasesOK(cases', gen[Lead], gen[Peer], began)
           /\ StartsOK(starts', began)
           /\ pc = "ask" /\ drift' = {} => drift = {} /\ \A c \in DOMAIN cases : Same(cases[c], cases'[c])
  <1>1. /\ QueueOK(jobs, began, gen[Peer], tomb) /\ CasesOK(cases, gen[Lead], gen[Peer], began)
        /\ StartsOK(starts, began)
        /\ gateWasDown => NoBodies(cases, jobs)
        BY DEF AlertsInv
  <1>2. Items(cases) /\ GateDown(jobs, cases)
        BY <1>1, CasesItems DEF HookGateDown
  <1>3. /\ gateWasDown' = TRUE /\ NoBodies(cases', jobs')
        /\ QueueOK(jobs', began, gen[Peer], tomb)
        /\ SamePeers(jobs, jobs')
        /\ Faded(cases, cases') /\ DOMAIN cases' = DOMAIN cases
        /\ StartsOK(starts', began)
        BY <1>1, <1>2, Purged
  <1>4. CasesOK(cases', gen[Lead], gen[Peer], began)
        BY <1>1, <1>3, FadedOK
  <1>5. \A c \in DOMAIN cases : Mild(cases[c], cases'[c])
    <2>1. cases' = cases \/ cases' = PurgedCases(cases)
          BY <1>2 DEF GateDown
    <2> QED BY <2>1, <1>2, AllMild
  <1>6. pc = "ask" /\ drift' = {} => drift = {} /\ \A c \in DOMAIN cases : Same(cases[c], cases'[c])
    <2>1. pc = "ask" => drift' = drift \cup (IF gateWasDown THEN {} ELSE {"purge", "evidence"})
          BY DEF HookGateDown, Moved
    <2>2. gateWasDown => cases' = cases
          BY <1>2 DEF GateDown
    <2> QED BY <2>1, <2>2 DEF Same
  <1>7. pc = "idle" => jobs' = <<>>
    <2> SUFFICES ASSUME pc = "idle" PROVE jobs' = <<>>
        OBVIOUS
    <2>1. jobs = <<>>
          BY DEF AlertsInv, RegistersOK
    <2>2. jobs' \in Seq(JobRow) /\ DOMAIN jobs' = {}
          BY <1>3, <2>1 DEF QueueOK, SamePeers
    <2> QED BY <2>2
  <1> QED BY <1>3, <1>4, <1>5, <1>6, <1>7 DEF Followed, SamePeers

\* A hook that queues jobs without bodies, with the cases it leaves.
LEMMA NoBodiesKept ==
    ASSUME NEW cs, NEW ds, NEW q, NEW r, NoBodies(cs, q), Faded(cs, ds),
           (\A i \in DOMAIN q : ~q[i].text) => \A i \in DOMAIN r : ~r[i].text
    PROVE  NoBodies(ds, r)
  BY FadedKeeps DEF NoBodies

\* Everybody is an agent.
LEMMA Kin == Lead \in Agents /\ Peer \in Agents /\ Lead # Peer
  BY ObserverAssumption DEF Agents

LEMMA ArchivedStep ==
    ASSUME AlertsInv, NEW a \in Agents, Archived(a), UNCHANGED storeVars
    PROVE  HookShape /\ AlertsInv'
  <1> DEFINE ours == a = Lead \/ (a = Peer /\ member)
             touched == a \in {Lead, Peer}
             js == <<Job("archive", a, ours)>>
  <1>1. /\ NewJobs(js, began, gen[Peer], tomb)
        /\ \A k \in DOMAIN js : ~js[k].text
    <2>1. ours \in BOOLEAN /\ "archive" \in JobKinds \ {"turn"}
          BY DEF JobKinds
    <2> HIDE DEF ours
    <2> QED BY <2>1, NoticeOK
  <1>2. Enqueue(js) /\ UNCHANGED <<up, config, ended, began, over, gateWasDown, seen, cur, timer>>
        BY DEF Archived
  <1>3. host' = host \ {a} /\ gen' = [gen EXCEPT ![a] = @ + 1] /\ tomb' = tomb \cup {a}
        BY DEF Archived
  <1>4. known' = (known /\ a # Lead) /\ member' = (member /\ ~touched)
        BY DEF Archived
  <1>5. /\ cases' = IF touched THEN Dirty([c \in DOMAIN cases |-> Cleared(cases[c])]) ELSE cases
        /\ Moved(IF touched THEN {"gen", "evidence"} ELSE {})
        /\ starts' = IF a = Lead THEN <<>> ELSE starts
        BY DEF Archived
  <1> HIDE DEF js, ours
  <1>6. /\ QueueOK(jobs', began, gen[Peer], tomb) /\ Followed /\ fresh' \in BOOLEAN
        /\ pc' = pc \/ (pc = "idle" /\ pc' = "drain")
        /\ pc' \in Awaits \cup {"idle", "drain", "evaluate", "pass"}
        /\ pc' = "idle" => jobs' = <<>>
        /\ (\A i \in DOMAIN jobs : ~jobs[i].text) => \A i \in DOMAIN jobs' : ~jobs'[i].text
        BY <1>1, <1>2, HookEnqueues
  <1>7. /\ gen \in [Agents -> Nat] /\ gen' \in [Agents -> Nat]
        /\ gen[Peer] <= gen'[Peer] /\ gen[Lead] <= gen'[Lead]
        /\ gen[Peer] # gen'[Peer] => Peer \in tomb'
        /\ ~touched => gen'[Lead] = gen[Lead] /\ gen'[Peer] = gen[Peer]
        BY <1>3, Kin DEF AlertsInv, RegistersOK
  <1>8. Items(cases) /\ CasesOK(cases, gen[Lead], gen[Peer], began)
        BY CasesItems DEF AlertsInv
  <1>9. /\ DOMAIN cases' = DOMAIN cases /\ \A c \in DOMAIN cases : Mild(cases[c], cases'[c])
        /\ touched => \A c \in DOMAIN cases : cases'[c].held = {}
        /\ ~touched => cases' = cases
        BY <1>5, <1>8, AllMild
  <1>10. CasesOK(cases', gen'[Lead], gen'[Peer], began')
    <2>1. CASE touched
      <3>1. CasesOK(cases', gen[Lead], gen[Peer], began)
            BY <1>8, <1>9, MildFaded, FadedOK
      <3> QED BY <3>1, <2>1, <1>2, <1>9 DEF CasesOK, CaseOK, HeldIn
    <2>2. CASE ~touched
          BY <2>2, <1>2, <1>7, <1>8, <1>9
    <2> QED BY <2>1, <2>2
  <1>11. HookShape
    <2>1. pc = "ask" /\ drift' = {} =>
              /\ drift = {} /\ gen'[Lead] = gen[Lead] /\ gen'[Peer] = gen[Peer]
              /\ \A c \in DOMAIN cases : Same(cases[c], cases'[c])
      <3>1. pc = "ask" => drift' = drift \cup (IF touched THEN {"gen", "evidence"} ELSE {})
            BY <1>5 DEF Moved
      <3>2. pc = "ask" /\ drift' = {} => drift = {} /\ ~touched
            BY <3>1
      <3> HIDE DEF touched
      <3> QED BY <3>2, <1>7, <1>9 DEF Same
    <2>2. attempts' = attempts /\ sent' = sent
          BY DEF storeVars
    <2> QED BY <1>2, <1>6, <1>9, <2>1, <2>2 DEF HookShape
  <1>12. WorldOK' /\ RegistersOK'
    <2>1. WorldOK'
          BY <1>2, <1>3 DEF AlertsInv, WorldOK
    <2>2. /\ gateWasDown' \in BOOLEAN /\ fresh' \in BOOLEAN /\ timer' \in BOOLEAN
          /\ gen' \in [Agents -> Nat] /\ tomb' \subseteq Agents /\ seen' \subseteq Turns
          BY <1>2, <1>3, <1>6, <1>7 DEF AlertsInv, RegistersOK
    <2>3. /\ known' \in BOOLEAN /\ member' \in BOOLEAN
          /\ member' => {Lead, Peer} \cap tomb' = {}
          /\ known' => Lead \notin tomb'
          BY <1>3, <1>4 DEF AlertsInv, RegistersOK
    <2> QED BY <2>1, <2>2, <2>3, <1>6 DEF RegistersOK
  <1>13. QueueOK(jobs', began', gen'[Peer], tomb') /\ BeginsKept(began, began')
    <2>1. BeginsKept(began, began') /\ gen[Peer] \in Nat /\ gen'[Peer] \in Nat /\ began' = began
          BY <1>2, <1>7, Kin DEF BeginsKept
    <2>2. Peer \in tomb => Peer \in tomb'
          BY <1>3
    <2> QED BY <2>1, <2>2, <1>6, <1>7, QueueStays
  <1>14. StartsOK(starts', began')
        BY <1>2, <1>5 DEF AlertsInv, StartsOK
  <1>15. gateWasDown' => NoBodies(cases', jobs')
    <2>1. Faded(cases, cases')
          BY <1>9, MildFaded
    <2>2. gateWasDown' = gateWasDown /\ (gateWasDown => NoBodies(cases, jobs))
          BY <1>2 DEF AlertsInv
    <2> QED BY <2>1, <2>2, <1>6, NoBodiesKept
  <1>16. Peer \in tomb => Peer \in tomb'
        BY <1>3
  <1> HIDE DEF touched
  <1> QED BY <1>6, <1>7, <1>10, <1>11, <1>12, <1>13, <1>14, <1>15, <1>16, HookInv

\* A hook that buries nobody.
LEMMA QuietHook ==
    ASSUME AlertsInv, UNCHANGED <<gen, tomb, cur, attempts, sent>>, BeginsKept(began, began'),
           QueueOK(jobs', began, gen[Peer], tomb), Followed,
           pc' = pc \/ (pc = "idle" /\ pc' = "drain"),
           DOMAIN cases' = DOMAIN cases, \A c \in DOMAIN cases : Mild(cases[c], cases'[c]),
           pc = "ask" /\ drift' = {} => drift = {} /\ \A c \in DOMAIN cases : Same(cases[c], cases'[c]),
           StartsOK(starts', began'), gateWasDown' => NoBodies(cases', jobs'),
           WorldOK', RegistersOK'
    PROVE  HookShape /\ AlertsInv'
  <1>1. HookShape
        BY DEF HookShape
  <1>2. gen[Peer] \in Nat /\ gen' = gen /\ tomb' = tomb
        BY Kin DEF AlertsInv, RegistersOK
  <1>3. CasesOK(cases', gen'[Lead], gen'[Peer], began')
    <2>1. CasesOK(cases, gen[Lead], gen[Peer], began) /\ Faded(cases, cases')
          BY MildFaded DEF AlertsInv
    <2>2. CasesOK(cases', gen[Lead], gen[Peer], began)
          BY <2>1, FadedOK
    <2>3. CasesOK(cases', gen[Lead], gen[Peer], began')
          BY <2>2, CasesStay
    <2> QED BY <2>3, <1>2
  <1>4. QueueOK(jobs', began', gen'[Peer], tomb')
    <2>1. QueueOK(jobs', began', gen[Peer], tomb)
          BY <1>2, QueueStays
    <2> QED BY <2>1, <1>2
  <1> QED BY <1>1, <1>2, <1>3, <1>4, HookInv

\* A hook that finds the gate down and does no more to the observer.
LEMMA PurgingHook ==
    ASSUME AlertsInv, HookGateDown, UNCHANGED <<gen, tomb, cur, attempts, sent, began, fresh, pc, timer>>,
           WorldOK', known' \in BOOLEAN, member' = member, known' => Lead \notin tomb,
           seen' \subseteq Turns
    PROVE  HookShape /\ AlertsInv'
  <1>1. /\ gateWasDown' = TRUE /\ NoBodies(cases', jobs')
        /\ QueueOK(jobs', began, gen[Peer], tomb) /\ Followed
        /\ pc = "idle" => jobs' = <<>>
        /\ DOMAIN cases' = DOMAIN cases /\ \A c \in DOMAIN cases : Mild(cases[c], cases'[c])
        /\ StartsOK(starts', began)
        /\ pc = "ask" /\ drift' = {} => drift = {} /\ \A c \in DOMAIN cases : Same(cases[c], cases'[c])
        BY HookPurges
  <1>2. RegistersOK'
        BY <1>1 DEF AlertsInv, RegistersOK
  <1>3. BeginsKept(began, began') /\ StartsOK(starts', began')
        BY <1>1 DEF BeginsKept
  <1> QED BY <1>1, <1>2, <1>3, QuietHook

\* A hook that leaves the cases and buries nobody.
LEMMA QueueingHook ==
    ASSUME AlertsInv, NEW js, NewJobs(js, began, gen[Peer], tomb), Enqueue(js),
           UNCHANGED <<gen, tomb, cur, attempts, sent, began, cases, drift>>,
           gateWasDown' = FALSE, WorldOK', known' \in BOOLEAN, member' = member,
           known' => Lead \notin tomb, seen' \subseteq Turns, timer' \in BOOLEAN,
           StartsOK(starts', began)
    PROVE  HookShape /\ AlertsInv'
  <1>1. /\ QueueOK(jobs', began, gen[Peer], tomb) /\ Followed /\ fresh' \in BOOLEAN
        /\ pc' = pc \/ (pc = "idle" /\ pc' = "drain")
        /\ pc' \in Awaits \cup {"idle", "drain", "evaluate", "pass"}
        /\ pc' = "idle" => jobs' = <<>>
        BY HookEnqueues
  <1>2. /\ DOMAIN cases' = DOMAIN cases
        /\ \A c \in DOMAIN cases : Mild(cases[c], cases'[c]) /\ Same(cases[c], cases'[c])
        BY AllMild, CasesItems DEF AlertsInv
  <1>3. RegistersOK'
        BY <1>1 DEF AlertsInv, RegistersOK
  <1>4. BeginsKept(began, began') /\ StartsOK(starts', began')
        BY DEF BeginsKept
  <1> QED BY <1>1, <1>2, <1>3, <1>4, QuietHook

\* No jobs.
LEMMA NoJobs == ASSUME NEW b, NEW p, NEW buried PROVE NewJobs(<<>>, b, p, buried)
  BY DEF NewJobs

\* A notice of a hook.
LEMMA Notices ==
    ASSUME AlertsInv, NEW kind \in JobKinds \ {"turn"}, NEW of \in Agents
    PROVE  NewJobs(<<Job(kind, of, TRUE)>>, began, gen[Peer], tomb)
  BY NoticeOK

LEMMA CreatedStep ==
    ASSUME AlertsInv, NEW a \in Agents, Created(a), UNCHANGED storeVars
    PROVE  HookShape /\ AlertsInv'
  <1> DEFINE js == CASE a = Lead /\ Lead \in tomb /\ RoutableLead -> <<Job("restore", Lead, TRUE)>>
                     [] a = Peer /\ CandidateLead                 -> <<Job("verify", Peer, TRUE)>>
                     [] OTHER                                     -> <<>>
  <1>1. NewJobs(js, began, gen[Peer], tomb)
    <2>1. /\ NewJobs(<<Job("restore", Lead, TRUE)>>, began, gen[Peer], tomb)
          /\ NewJobs(<<Job("verify", Peer, TRUE)>>, began, gen[Peer], tomb)
          /\ NewJobs(<<>>, began, gen[Peer], tomb)
          BY Kin, Notices, NoJobs DEF JobKinds
    <2> QED BY <2>1
  <1>2. /\ host' = host \cup {a} /\ known' = (known \/ (a = Lead /\ Lead \notin tomb))
        /\ \/ HookGateDown /\ UNCHANGED <<fresh, pc>>
           \/ GateUp /\ Enqueue(js) /\ UNCHANGED <<cases, starts, drift>>
        /\ UNCHANGED <<up, config, ended, began, over, spent, gen, tomb, member, seen, cur, timer>>
        BY DEF Created
  <1> HIDE DEF js
  <1>3. WorldOK' /\ known' \in BOOLEAN /\ (known' => Lead \notin tomb)
        BY <1>2 DEF AlertsInv, WorldOK, RegistersOK
  <1>4. seen' \subseteq Turns /\ timer' \in BOOLEAN /\ StartsOK(starts, began) /\ UNCHANGED <<attempts, sent>>
        BY <1>2 DEF AlertsInv, RegistersOK, storeVars
  <1>5. CASE HookGateDown /\ UNCHANGED <<fresh, pc>>
        BY <1>2, <1>3, <1>4, <1>5, PurgingHook
  <1>6. CASE GateUp /\ Enqueue(js) /\ UNCHANGED <<cases, starts, drift>>
        BY <1>1, <1>2, <1>3, <1>4, <1>6, QueueingHook DEF GateUp
  <1> QED BY <1>2, <1>5, <1>6

LEMMA StartStep ==
    ASSUME AlertsInv, NEW t \in LeadTurns, Start(t), UNCHANGED storeVars
    PROVE  HookShape /\ AlertsInv'
  <1> DEFINE entry == [after |-> ended, overlap |-> {u \in DOMAIN starts : u # t} # {}]
             more == [u \in DOMAIN starts \cup {t} |->
                        IF u = t THEN entry ELSE [starts[u] EXCEPT !.overlap = TRUE]]
  <1>1. /\ began[t] = None /\ began' = [began EXCEPT ![t] = ended]
        /\ UNCHANGED <<host, up, config, ended, over, spent, gen, tomb, member, seen, fresh,
                       pc, cur, timer, attempts, sent>>
        BY DEF Start, storeVars
  <1>2. \/ HookGateDown /\ UNCHANGED known
        \/ /\ GateUp
           /\ known' = (known \/ Lead \notin tomb)
           /\ starts' = IF Lead \in tomb \/ config = None THEN starts ELSE more
           /\ UNCHANGED <<jobs, cases, drift>>
        BY DEF Start
  <1>3. ended \in SUBSET PeerTurns /\ ended # None /\ began \in [LeadTurns -> {None} \cup SUBSET PeerTurns]
        BY ObserverAssumption DEF AlertsInv, WorldOK
  <1>4. /\ BeginsKept(began, began') /\ WorldOK'
        /\ began'[t] = ended /\ \A u \in LeadTurns : u # t => began'[u] = began[u]
        BY <1>1, <1>3 DEF BeginsKept, AlertsInv, WorldOK
  <1>5. ASSUME NEW ss, StartsOK(ss, began) PROVE StartsOK(ss, began')
    <2>1. t \notin DOMAIN ss
          BY <1>1, <1>5 DEF StartsOK
    <2> QED BY <2>1, <1>4, <1>5 DEF StartsOK
  <1>6. StartsOK(more, began')
    <2>1. StartsOK(starts, began)
          BY DEF AlertsInv
    <2>2. t \notin DOMAIN starts
          BY <1>1, <2>1 DEF StartsOK
    <2>3. DOMAIN more = DOMAIN starts \cup {t}
          OBVIOUS
    <2>4. ASSUME NEW u \in DOMAIN starts
          PROVE  /\ u \in LeadTurns /\ more[u] \in [after : SUBSET PeerTurns, overlap : BOOLEAN]
                 /\ more[u].after = began'[u] /\ began'[u] # None
      <3>1. u # t /\ more[u] = [starts[u] EXCEPT !.overlap = TRUE]
            BY <2>2
      <3> HIDE DEF more
      <3> QED BY <3>1, <2>1, <1>4 DEF StartsOK
    <2>5. more[t] = entry /\ entry \in [after : SUBSET PeerTurns, overlap : BOOLEAN] /\ entry.after = ended
          BY <1>3
    <2> HIDE DEF more, entry
    <2> QED BY <2>3, <2>4, <2>5, <1>3, <1>4 DEF StartsOK
  <1> HIDE DEF more, entry
  <1>7. StartsOK(starts, began) /\ Items(cases) /\ QueueOK(jobs, began, gen[Peer], tomb)
        BY CasesItems DEF AlertsInv
  <1>8. CASE HookGateDown /\ UNCHANGED known
    <2>1. /\ gateWasDown' = TRUE /\ NoBodies(cases', jobs')
          /\ QueueOK(jobs', began, gen[Peer], tomb) /\ Followed
          /\ pc = "idle" => jobs' = <<>>
          /\ DOMAIN cases' = DOMAIN cases /\ \A c \in DOMAIN cases : Mild(cases[c], cases'[c])
          /\ StartsOK(starts', began)
          /\ pc = "ask" /\ drift' = {} => drift = {} /\ \A c \in DOMAIN cases : Same(cases[c], cases'[c])
          BY <1>8, HookPurges
    <2>2. RegistersOK'
          BY <1>1, <1>8, <2>1 DEF AlertsInv, RegistersOK
    <2>3. StartsOK(starts', began')
          BY <2>1, <1>5
    <2> QED BY <1>1, <1>4, <2>1, <2>2, <2>3, QuietHook
  <1>9. CASE /\ GateUp
             /\ known' = (known \/ Lead \notin tomb)
             /\ starts' = IF Lead \in tomb \/ config = None THEN starts ELSE more
             /\ UNCHANGED <<jobs, cases, drift>>
    <2>1. StartsOK(starts', began')
          BY <1>5, <1>6, <1>7, <1>9
    <2>2. RegistersOK' /\ gateWasDown' = FALSE
          BY <1>1, <1>9 DEF AlertsInv, RegistersOK, GateUp
    <2>3. /\ QueueOK(jobs', began, gen[Peer], tomb) /\ Followed /\ DOMAIN cases' = DOMAIN cases
          BY <1>7, <1>9 DEF Followed
    <2>4. \A c \in DOMAIN cases : Mild(cases[c], cases'[c]) /\ Same(cases[c], cases'[c])
          BY <1>7, <1>9, AllMild
    <2>5. pc = "ask" /\ drift' = {} => drift = {} /\ \A c \in DOMAIN cases : Same(cases[c], cases'[c])
          BY <1>9, <2>4
    <2> QED BY <1>1, <1>4, <2>1, <2>2, <2>3, <2>4, <2>5, QuietHook
  <1> QED BY <1>2, <1>8, <1>9

LEMMA ViewStep ==
    ASSUME AlertsInv, View, UNCHANGED storeVars
    PROVE  HookShape /\ AlertsInv'
  <1>1. /\ HookGateDown \/ (GateUp /\ UNCHANGED <<jobs, cases, starts, drift>>)
        /\ UNCHANGED <<host, up, config, ended, began, over, spent, gen, tomb, known, member, seen,
                       fresh, pc, cur, timer, attempts, sent>>
        BY DEF View, world, storeVars
  <1>2. WorldOK' /\ known \in BOOLEAN /\ (known => Lead \notin tomb) /\ seen \subseteq Turns
        BY <1>1 DEF AlertsInv, WorldOK, RegistersOK
  <1>3. CASE HookGateDown
        BY <1>1, <1>2, <1>3, PurgingHook
  <1>4. CASE GateUp /\ UNCHANGED <<jobs, cases, starts, drift>>
    <2>1. /\ StartsOK(starts', began') /\ QueueOK(jobs', began, gen[Peer], tomb) /\ Followed
          /\ BeginsKept(began, began')
          BY <1>1, <1>4 DEF AlertsInv, Followed, BeginsKept
    <2>2. RegistersOK' /\ gateWasDown' = FALSE
          BY <1>1, <1>4 DEF AlertsInv, RegistersOK, GateUp
    <2>3. \A c \in DOMAIN cases : Mild(cases[c], cases'[c]) /\ Same(cases[c], cases'[c])
          BY <1>4, AllMild, CasesItems DEF AlertsInv
    <2>4. pc = "ask" /\ drift' = {} => drift = {} /\ \A c \in DOMAIN cases : Same(cases[c], cases'[c])
          BY <1>4, <2>3
    <2> QED BY <1>1, <1>2, <1>4, <2>1, <2>2, <2>3, <2>4, QuietHook
  <1> QED BY <1>1, <1>3, <1>4

\* A file that changes.
LEMMA FileStep ==
    ASSUME AlertsInv, NEW what, Moved(what), what # {}, WorldOK',
           UNCHANGED <<began, registers, turnVars, queueVars, cases, pc, cur, timer, storeVars>>
    PROVE  HookShape /\ AlertsInv'
  <1>1. UNCHANGED <<began, gateWasDown, gen, tomb, known, member, seen, starts, jobs, fresh, cases,
                    pc, cur, timer, attempts, sent>>
        BY DEF registers, turnVars, queueVars, storeVars
  <1>2. RegistersOK' /\ StartsOK(starts', began') /\ QueueOK(jobs', began, gen[Peer], tomb) /\ Followed
        /\ BeginsKept(began, began')
        BY <1>1 DEF AlertsInv, RegistersOK, Followed, BeginsKept
  <1>3. gateWasDown' => NoBodies(cases', jobs')
        BY <1>1 DEF AlertsInv
  <1>4. \A c \in DOMAIN cases : Mild(cases[c], cases'[c])
        BY <1>1, AllMild, CasesItems DEF AlertsInv
  <1>5. pc = "ask" => drift' # {}
        BY DEF Moved
  <1> QED BY <1>1, <1>2, <1>3, <1>4, <1>5, QuietHook

LEMMA GateFlipsStep ==
    ASSUME AlertsInv, GateFlips, UNCHANGED storeVars
    PROVE  HookShape /\ AlertsInv'
  <1>1. WorldOK'
        BY DEF GateFlips, AlertsInv, WorldOK
  <1>2. Moved({"gate"}) /\ UNCHANGED <<began, registers, turnVars, queueVars, cases, pc, cur, timer, storeVars>>
        BY DEF GateFlips
  <1> QED BY <1>1, <1>2, FileStep

LEMMA RouteEditedStep ==
    ASSUME AlertsInv, NEW route \in Routes \cup {None}, RouteEdited(route), UNCHANGED storeVars
    PROVE  HookShape /\ AlertsInv'
  <1>1. WorldOK'
        BY DEF RouteEdited, AlertsInv, WorldOK
  <1>2. Moved({"config"}) /\ UNCHANGED <<began, registers, turnVars, queueVars, cases, pc, cur, timer, storeVars>>
        BY DEF RouteEdited
  <1> QED BY <1>1, <1>2, FileStep

\* Queues of new jobs, one after the other.
LEMMA NewJobsJoin ==
    ASSUME NEW js, NEW ks, NEW b, NEW p, NEW buried, NewJobs(js, b, p, buried), NewJobs(ks, b, p, buried)
    PROVE  NewJobs(js \o ks, b, p, buried)
  <1>1. /\ js \in Seq(JobRow) /\ ks \in Seq(JobRow) /\ js \o ks \in Seq(JobRow)
        /\ Len(js) \in Nat /\ Len(ks) \in Nat /\ DOMAIN js = 1..Len(js) /\ DOMAIN ks = 1..Len(ks)
        /\ DOMAIN (js \o ks) = 1..(Len(js) + Len(ks))
        BY DEF NewJobs
  <1>2. ASSUME NEW i \in DOMAIN (js \o ks)
        PROVE  \/ \E k \in DOMAIN js : (js \o ks)[i] = js[k]
               \/ \E k \in DOMAIN ks : (js \o ks)[i] = ks[k]
    <2>1. CASE i <= Len(js)
          BY <1>1, <2>1
    <2>2. CASE i > Len(js)
      <3>1. (js \o ks)[i] = ks[i - Len(js)] /\ i - Len(js) \in 1..Len(ks)
            BY <1>1, <2>2
      <3> QED BY <1>1, <3>1
    <2> QED BY <1>1, <2>1, <2>2
  <1> QED BY <1>1, <1>2 DEF NewJobs

\* What a Peer turn queues.
LEMMA PeerTurnJobsOK ==
    ASSUME AlertsInv, NEW c \in PeerTurns
    PROVE  NewJobs(PeerTurnJobs(c), began, gen[Peer], tomb)
  <1> DEFINE j == [Job("turn", c, TRUE) EXCEPT !.text = c \notin History]
             first == IF VerifyFirst THEN <<Job("verify", Peer, TRUE)>> ELSE <<>>
             second == IF Peer \in tomb \/ c \in seen THEN <<>> ELSE <<j>>
  <1>1. NewJobs(first, began, gen[Peer], tomb)
    <2>1. NewJobs(<<Job("verify", Peer, TRUE)>>, began, gen[Peer], tomb)
          BY Kin, Notices DEF JobKinds
    <2> QED BY <2>1, NoJobs
  <1>2. /\ j \in JobRow /\ j.kind = "turn" /\ j.of = c /\ j.peer = gen[Peer] /\ gen[Peer] \in Nat
    <2>1. /\ Job("turn", c, TRUE) \in JobRow /\ Job("turn", c, TRUE).kind = "turn"
          /\ Job("turn", c, TRUE).of = c /\ Job("turn", c, TRUE).peer = gen[Peer]
          BY JobMade DEF AlertsInv, JobKinds, Turns
    <2>2. \A x \in JobRow, e \in BOOLEAN : [x EXCEPT !.text = e] \in JobRow
          BY DEF JobRow
    <2>3. gen[Peer] \in Nat
          BY Kin DEF AlertsInv, RegistersOK
    <2>4. j \in JobRow
          BY <2>1, <2>2
    <2>5. j.kind = "turn" /\ j.of = c /\ j.peer = gen[Peer]
          BY DEF Job
    <2> QED BY <2>3, <2>4, <2>5
  <1> HIDE DEF j
  <1>3. JobOK(j, began, gen[Peer], tomb)
        BY <1>2, ObserverAssumption DEF JobOK, TimelyJob, Turns
  <1>4. NewJobs(second, began, gen[Peer], tomb)
        BY <1>2, <1>3, OneJob, NoJobs
  <1> HIDE DEF first, second
  <1>5. NewJobs(first \o second, began, gen[Peer], tomb)
        BY <1>1, <1>4, NewJobsJoin
  <1>6. PeerTurnJobs(c) = IF ~CandidateLead THEN <<>> ELSE first \o second
        BY DEF PeerTurnJobs, first, second, j
  <1> QED BY <1>5, <1>6, NoJobs

LEMMA PeerTurnEndsStep ==
    ASSUME AlertsInv, NEW c \in PeerTurns, PeerTurnEnds(c), UNCHANGED storeVars
    PROVE  HookShape /\ AlertsInv'
  <1>1. /\ \/ HookGateDown /\ UNCHANGED <<fresh, pc, seen>>
           \/ /\ GateUp
              /\ Enqueue(PeerTurnJobs(c))
              /\ seen' = IF CandidateLead /\ Peer \notin tomb THEN seen \cup {c} ELSE seen
              /\ UNCHANGED <<cases, starts, drift>>
        /\ UNCHANGED <<host, up, config, began, over, spent, gen, tomb, known, member, cur, timer,
                       attempts, sent>>
        BY DEF PeerTurnEnds, storeVars
  <1>2. WorldOK'
        BY DEF PeerTurnEnds, AlertsInv, WorldOK
  <1>3. known' \in BOOLEAN /\ (known' => Lead \notin tomb) /\ timer' \in BOOLEAN /\ StartsOK(starts, began)
        BY <1>1 DEF AlertsInv, RegistersOK
  <1>4. seen' \subseteq Turns
        BY <1>1 DEF AlertsInv, RegistersOK, Turns
  <1>5. CASE HookGateDown /\ UNCHANGED <<fresh, pc, seen>>
        BY <1>1, <1>2, <1>3, <1>4, <1>5, PurgingHook
  <1>6. CASE GateUp /\ Enqueue(PeerTurnJobs(c)) /\ UNCHANGED <<cases, starts, drift>>
    <2>1. gateWasDown' = FALSE
          BY <1>6 DEF GateUp
    <2> QED BY <1>1, <1>2, <1>3, <1>4, <1>6, <2>1, PeerTurnJobsOK, QueueingHook
  <1> QED BY <1>1, <1>5, <1>6

\* The capture of a Lead turn.
LEMMA LeadTurnJobOK ==
    ASSUME AlertsInv, NEW t \in LeadTurns, began[t] # None
    PROVE  NewJobs(<<LeadTurnJob(t)>>, began, gen[Peer], tomb)
  <1> DEFINE base == Job("turn", t, TRUE)
             after == IF t \in DOMAIN starts THEN starts[t].after ELSE None
             text == t \notin History
             overlap == t \in DOMAIN starts /\ starts[t].overlap
             anchors == Anchors[t] \cap began[t]
             j == LeadTurnJob(t)
  <1>1. /\ base \in JobRow /\ base.kind = "turn" /\ base.of = t /\ base.peer = gen[Peer]
        BY JobMade DEF AlertsInv, JobKinds, Turns
  <1>2. gen[Peer] \in Nat /\ began[t] \in SUBSET PeerTurns
        BY Kin DEF AlertsInv, RegistersOK, WorldOK
  <1>3. after \in {None} \cup (SUBSET PeerTurns) /\ (after # None => after = began[t])
        BY <1>2 DEF AlertsInv, StartsOK
  <1>4. text \in BOOLEAN /\ overlap \in BOOLEAN /\ anchors \in SUBSET PeerTurns /\ anchors \subseteq began[t]
    <2>1. overlap \in BOOLEAN
          BY DEF AlertsInv, StartsOK
    <2> QED BY <1>2, <2>1
  <1>5. j = [base EXCEPT !.text = text, !.after = after, !.overlap = overlap, !.anchors = anchors]
        BY DEF LeadTurnJob
  <1> HIDE DEF base, after, text, overlap, anchors, j
  <1>6. /\ j \in JobRow /\ j.kind = "turn" /\ j.of = t /\ j.peer = gen[Peer]
        /\ j.after = after /\ j.anchors = anchors
    <2> DEFINE After == {None} \cup (SUBSET PeerTurns)
               Whose == Agents \cup Turns \cup {None}
    <2>1. JobRow = [kind : JobKinds, of : Whose, ours : BOOLEAN, lead : Nat, peer : Nat,
                    text : BOOLEAN, purged : BOOLEAN, after : After, overlap : BOOLEAN,
                    anchors : SUBSET PeerTurns]
          BY DEF JobRow
    <2>2. after \in After
          BY <1>3
    <2> HIDE DEF After, Whose
    <2> QED BY <1>1, <1>4, <1>5, <2>1, <2>2
  <1>7. JobOK(j, began, gen[Peer], tomb)
    <2>1. TimelyJob(j, began)
          BY <1>3, <1>4, <1>6 DEF TimelyJob, Turns
    <2> QED BY <1>2, <1>6, <2>1 DEF JobOK
  <1> QED BY <1>6, <1>7, OneJob DEF j

LEMMA LeadTurnEndsStep ==
    ASSUME AlertsInv, NEW t \in LeadTurns, LeadTurnEnds(t), UNCHANGED storeVars
    PROVE  HookShape /\ AlertsInv'
  <1> DEFINE capture == Lead \notin tomb /\ config # None
             js == CASE Lead \in tomb /\ RoutableLead -> <<Job("restore", Lead, TRUE)>>
                     [] capture                       -> <<LeadTurnJob(t)>>
                     [] OTHER                         -> <<>>
             rest == [u \in DOMAIN starts \ {t} |-> starts[u]]
             lost == capture /\ Lost(js)
  <1>1. /\ \/ HookGateDown /\ UNCHANGED <<fresh, pc, seen, known>>
           \/ /\ GateUp
              /\ known' = (known \/ Lead \notin tomb)
              /\ Enqueue(js)
              /\ seen' = IF capture THEN seen \cup {t} ELSE seen
              /\ starts' = IF capture THEN rest ELSE starts
              /\ cases' = IF lost THEN Gapped(cases) ELSE cases
              /\ Moved(IF lost THEN {"evidence"} ELSE {})
        /\ UNCHANGED <<host, up, config, ended, began, spent, gen, tomb, member, cur, timer,
                       attempts, sent>>
        BY DEF LeadTurnEnds, storeVars
  <1>2. WorldOK' /\ began[t] # None
        BY DEF LeadTurnEnds, AlertsInv, WorldOK
  <1>3. NewJobs(js, began, gen[Peer], tomb)
    <2>1. /\ NewJobs(<<Job("restore", Lead, TRUE)>>, began, gen[Peer], tomb)
          /\ NewJobs(<<>>, began, gen[Peer], tomb)
          BY Kin, Notices, NoJobs DEF JobKinds
    <2>2. NewJobs(<<LeadTurnJob(t)>>, began, gen[Peer], tomb)
          BY <1>2, LeadTurnJobOK
    <2> QED BY <2>1, <2>2
  <1>4. StartsOK(rest, began) /\ StartsOK(starts, began)
        BY DEF AlertsInv, StartsOK
  <1> HIDE DEF js, rest, lost, capture
  <1>5. known' \in BOOLEAN /\ (known' => Lead \notin tomb) /\ seen' \subseteq Turns
    <2>1. known \in BOOLEAN /\ (known => Lead \notin tomb) /\ seen \subseteq Turns /\ t \in Turns
          BY DEF AlertsInv, RegistersOK, Turns
    <2>2. seen' = seen \/ seen' = seen \cup {t}
          BY <1>1
    <2>3. known' = known \/ known' = (known \/ Lead \notin tomb)
          BY <1>1
    <2>4. known' \in BOOLEAN
          BY <2>1, <2>3
    <2>5. known' => Lead \notin tomb
          BY <2>1, <2>3
    <2> QED BY <2>1, <2>2, <2>4, <2>5
  <1>6. CASE HookGateDown /\ UNCHANGED <<fresh, pc, seen, known>>
        BY <1>1, <1>2, <1>5, <1>6, PurgingHook
  <1>7. CASE /\ GateUp
             /\ known' = (known \/ Lead \notin tomb)
             /\ Enqueue(js)
             /\ seen' = IF capture THEN seen \cup {t} ELSE seen
             /\ starts' = IF capture THEN rest ELSE starts
             /\ cases' = IF lost THEN Gapped(cases) ELSE cases
             /\ Moved(IF lost THEN {"evidence"} ELSE {})
    <2>1. /\ QueueOK(jobs', began, gen[Peer], tomb) /\ Followed /\ fresh' \in BOOLEAN
          /\ pc' = pc \/ (pc = "idle" /\ pc' = "drain")
          /\ pc' \in Awaits \cup {"idle", "drain", "evaluate", "pass"}
          /\ pc' = "idle" => jobs' = <<>>
          BY <1>3, <1>7, HookEnqueues
    <2>2. Items(cases)
          BY CasesItems DEF AlertsInv
    <2>3. DOMAIN cases' = DOMAIN cases /\ \A c \in DOMAIN cases : Mild(cases[c], cases'[c])
          BY <1>7, <2>2, AllMild
    <2>4. ~lost => \A c \in DOMAIN cases : Same(cases[c], cases'[c])
          BY <1>7, <2>2, AllMild
    <2>5. pc = "ask" /\ drift' = {} => drift = {} /\ \A c \in DOMAIN cases : Same(cases[c], cases'[c])
      <3>1. pc = "ask" => drift' = drift \cup (IF lost THEN {"evidence"} ELSE {})
            BY <1>7 DEF Moved
      <3>2. pc = "ask" /\ drift' = {} => drift = {} /\ ~lost
            BY <3>1
      <3> QED BY <3>2, <2>4
    <2>6. gateWasDown' = FALSE /\ RegistersOK'
          BY <1>1, <1>5, <1>7, <2>1 DEF AlertsInv, RegistersOK, GateUp
    <2>7. StartsOK(starts', began') /\ BeginsKept(began, began')
          BY <1>1, <1>4, <1>7 DEF BeginsKept
    <2> QED BY <1>1, <1>2, <2>1, <2>3, <2>5, <2>6, <2>7, QuietHook
  <1> QED BY <1>1, <1>6, <1>7

LEMMA TimerFiresStep ==
    ASSUME AlertsInv, TimerFires
    PROVE  HookShape /\ AlertsInv'
  <1> DEFINE js == <<Job("tick", None, FALSE)>>
  <1>1. NewJobs(js, began, gen[Peer], tomb) /\ \A k \in DOMAIN js : ~js[k].text
    <2>1. "tick" \in JobKinds \ {"turn"} /\ None \in Agents \cup {None} /\ FALSE \in BOOLEAN
          BY DEF JobKinds
    <2> QED BY <2>1, NoticeOK
  <1> HIDE DEF js
  <1>2. /\ Enqueue(js) /\ timer' = FALSE
        /\ UNCHANGED <<host, up, config, ended, began, over, spent, gateWasDown, gen, tomb, known, member,
                       seen, starts, cases, cur, drift, attempts, sent>>
        BY DEF TimerFires, js, world, registers, turnVars, storeVars
  <1>3. /\ QueueOK(jobs', began, gen[Peer], tomb) /\ Followed /\ fresh' \in BOOLEAN
        /\ pc' = pc \/ (pc = "idle" /\ pc' = "drain")
        /\ pc' \in Awaits \cup {"idle", "drain", "evaluate", "pass"}
        /\ pc' = "idle" => jobs' = <<>>
        /\ (\A i \in DOMAIN jobs : ~jobs[i].text) => \A i \in DOMAIN jobs' : ~jobs'[i].text
        BY <1>1, <1>2, HookEnqueues
  <1>4. Items(cases)
        BY CasesItems DEF AlertsInv
  <1>5. \A c \in DOMAIN cases : Mild(cases[c], cases'[c]) /\ Same(cases[c], cases'[c])
        BY <1>2, <1>4, AllMild
  <1>6. WorldOK' /\ RegistersOK' /\ StartsOK(starts', began') /\ BeginsKept(began, began')
        BY <1>2, <1>3 DEF AlertsInv, WorldOK, RegistersOK, BeginsKept
  <1>7. gateWasDown' => NoBodies(cases', jobs')
        BY <1>2, <1>3 DEF AlertsInv, NoBodies
  <1>8. pc = "ask" /\ drift' = {} => drift = {} /\ \A c \in DOMAIN cases : Same(cases[c], cases'[c])
        BY <1>2, <1>5
  <1>9. DOMAIN cases' = DOMAIN cases /\ UNCHANGED <<gen, tomb, cur, attempts, sent>>
        BY <1>2
  <1> QED BY <1>3, <1>5, <1>6, <1>7, <1>8, <1>9, QuietHook

\* A clock that edits one case.
LEMMA ClockStep ==
    ASSUME AlertsInv, NEW c \in DOMAIN cases, NEW x, cases' = [cases EXCEPT ![c] = x],
           Mild(cases[c], x), Same(cases[c], x),
           UNCHANGED <<world, registers, turnVars, queueVars, drainVars, storeVars>>
    PROVE  HookShape /\ AlertsInv'
  <1>1. UNCHANGED <<host, up, config, ended, began, over, gateWasDown, gen, tomb, known, member,
                    seen, starts, jobs, fresh, pc, cur, drift, timer, attempts, sent>>
        BY DEF world, registers, turnVars, queueVars, drainVars, storeVars
  <1>2. Items(cases)
        BY CasesItems DEF AlertsInv
  <1>3. /\ DOMAIN cases' = DOMAIN cases
        /\ \A d \in DOMAIN cases : Mild(cases[d], cases'[d]) /\ Same(cases[d], cases'[d])
        BY <1>2, AllMild
  <1>4. /\ WorldOK' /\ RegistersOK' /\ StartsOK(starts', began') /\ BeginsKept(began, began')
        /\ QueueOK(jobs', began, gen[Peer], tomb) /\ Followed
        BY <1>1 DEF AlertsInv, WorldOK, RegistersOK, BeginsKept, Followed
  <1>5. gateWasDown' => NoBodies(cases', jobs')
    <2>1. Faded(cases, cases')
          BY <1>3, MildFaded
    <2> QED BY <1>1, <2>1, NoBodiesKept DEF AlertsInv
  <1>6. pc = "ask" /\ drift' = {} => drift = {} /\ \A d \in DOMAIN cases : Same(cases[d], cases'[d])
        BY <1>1, <1>3
  <1> QED BY <1>1, <1>3, <1>4, <1>5, <1>6, QuietHook

LEMMA ClocksStep ==
    ASSUME AlertsInv, NEW c \in DOMAIN cases, Checkpoint(c) \/ Expires(c) \/ RetryDue(c)
    PROVE  HookShape /\ AlertsInv'
  <1>1. ItemOK(cases[c])
        BY CasesItems DEF AlertsInv, Items
  <1>2. CASE Checkpoint(c)
    <2>1. cases' = [cases EXCEPT ![c] = [cases[c] EXCEPT !.late = TRUE]]
          BY <1>2 DEF Checkpoint
    <2>2. UNCHANGED <<world, registers, turnVars, queueVars, drainVars, storeVars>>
          BY <1>2 DEF Checkpoint
    <2>3. Mild(cases[c], [cases[c] EXCEPT !.late = TRUE]) /\ Same(cases[c], [cases[c] EXCEPT !.late = TRUE])
          BY <1>1, MildEdits
    <2> QED BY <2>1, <2>2, <2>3, ClockStep
  <1>3. CASE Expires(c)
    <2>1. cases' = [cases EXCEPT ![c] = [cases[c] EXCEPT !.expired = TRUE]]
          BY <1>3 DEF Expires
    <2>2. UNCHANGED <<world, registers, turnVars, queueVars, drainVars, storeVars>>
          BY <1>3 DEF Expires
    <2>3. Mild(cases[c], [cases[c] EXCEPT !.expired = TRUE]) /\ Same(cases[c], [cases[c] EXCEPT !.expired = TRUE])
          BY <1>1, MildEdits
    <2> QED BY <2>1, <2>2, <2>3, ClockStep
  <1>4. CASE RetryDue(c)
    <2>1. cases' = [cases EXCEPT ![c] = [cases[c] EXCEPT !.verdict.waiting = FALSE]]
          BY <1>4 DEF RetryDue
    <2>2. UNCHANGED <<world, registers, turnVars, queueVars, drainVars, storeVars>>
          BY <1>4 DEF RetryDue
    <2>3. /\ Mild(cases[c], [cases[c] EXCEPT !.verdict.waiting = FALSE])
          /\ Same(cases[c], [cases[c] EXCEPT !.verdict.waiting = FALSE])
          BY <1>1, MildEdits
    <2> QED BY <2>1, <2>2, <2>3, ClockStep
  <1> QED BY <1>2, <1>3, <1>4

-----------------------------------------------------------------------------
(* The drain applies jobs *)

\* Nothing is awaited.
LEMMA Resumed ==
    ASSUME pc' \in {"idle", "drain", "evaluate", "pass"}
    PROVE  AwaitOK' /\ CurOK'
  BY DEF AwaitOK, CurOK, JobAwaits, CaseAwaits

\* What was sent stays on disk.
LEMMA SentStays == ASSUME SentOK, UNCHANGED storeVars PROVE SentOK'
  BY DEF SentOK, storeVars, Attempted

\* A step of the drain that leaves who is known and buried.
LEMMA DrainStays ==
    ASSUME AlertsInv, UNCHANGED <<world, gen, tomb, seen, storeVars>>, known' \in BOOLEAN,
           known' => Lead \notin tomb, fresh' \in BOOLEAN, timer' \in BOOLEAN, gateWasDown' \in BOOLEAN, member' \in BOOLEAN,
           member' => {Lead, Peer} \cap tomb = {}, pc' \in Awaits \cup {"drain", "evaluate", "pass"},
           QueueOK(jobs', began, gen[Peer], tomb), CasesOK(cases', gen[Lead], gen[Peer], began),
           StartsOK(starts', began), gateWasDown' => NoBodies(cases', jobs'), AwaitOK', CurOK'
    PROVE  AlertsInv'
  <1>1. UNCHANGED <<host, up, config, ended, began, over, spent, gen, tomb, seen>>
        BY DEF world
  <1>2. WorldOK'
        BY <1>1 DEF AlertsInv, WorldOK
  <1>3. pc' # "idle"
        BY DEF Awaits
  <1>4. RegistersOK'
        BY <1>1, <1>3 DEF AlertsInv, RegistersOK
  <1>5. SentOK'
        BY SentStays DEF AlertsInv
  <1> QED BY <1>1, <1>2, <1>4, <1>5 DEF AlertsInv

\* A step of the drain that takes nothing into a case and awaits nothing.
LEMMA DrainFades ==
    ASSUME AlertsInv, UNCHANGED <<world, gen, tomb, known, member, seen, storeVars>>,
           fresh' \in BOOLEAN, timer' \in BOOLEAN, gateWasDown' \in BOOLEAN, pc' \in {"drain", "evaluate", "pass"},
           QueueOK(jobs', began, gen[Peer], tomb), Faded(cases, cases'),
           (\A i \in DOMAIN jobs : ~jobs[i].text) => \A i \in DOMAIN jobs' : ~jobs'[i].text,
           gateWasDown' => gateWasDown, starts' = starts
    PROVE  AlertsInv'
  <1>1. CasesOK(cases', gen[Lead], gen[Peer], began)
        BY FadedOK DEF AlertsInv
  <1>2. gateWasDown' => NoBodies(cases', jobs')
        BY NoBodiesKept DEF AlertsInv
  <1>3. AwaitOK' /\ CurOK'
        BY Resumed
  <1>4. StartsOK(starts', began)
        BY DEF AlertsInv
  <1>5. /\ known' \in BOOLEAN /\ (known' => Lead \notin tomb)
        /\ member' \in BOOLEAN /\ (member' => {Lead, Peer} \cap tomb = {})
        BY DEF AlertsInv, RegistersOK
  <1> QED BY <1>1, <1>2, <1>3, <1>4, <1>5, DrainStays

\* A step of the drain that finds the gate down over queue q and cases cs.
LEMMA DrainPurges ==
    ASSUME AlertsInv, NEW q, NEW cs, QueueOK(q, began, gen[Peer], tomb), Faded(cases, cs),
           (\A i \in DOMAIN jobs : ~jobs[i].text) => \A i \in DOMAIN q : ~q[i].text,
           GateDown(q, cs), UNCHANGED <<world, gen, tomb, known, member, seen, fresh, timer, storeVars>>,
           pc' \in {"drain", "evaluate", "pass"}
    PROVE  AlertsInv'
  <1>1. CasesOK(cs, gen[Lead], gen[Peer], began)
        BY FadedOK DEF AlertsInv
  <1>2. gateWasDown => NoBodies(cs, q)
        BY NoBodiesKept DEF AlertsInv
  <1>3. /\ gateWasDown' = TRUE
        /\ QueueOK(jobs', began, gen[Peer], tomb)
        /\ Faded(cs, cases')
        /\ NoBodies(cases', jobs')
        /\ StartsOK(starts', began)
    <2>1. Items(cs) /\ StartsOK(starts, began)
          BY <1>1, CasesItems DEF AlertsInv
    <2> QED BY <2>1, <1>2, Purged
  <1>4. CasesOK(cases', gen[Lead], gen[Peer], began)
        BY <1>1, <1>3, FadedOK
  <1>5. AwaitOK' /\ CurOK'
        BY Resumed
  <1>6. /\ known' \in BOOLEAN /\ (known' => Lead \notin tomb)
        /\ member' \in BOOLEAN /\ (member' => {Lead, Peer} \cap tomb = {})
        /\ fresh' \in BOOLEAN /\ timer' \in BOOLEAN
        BY DEF AlertsInv, RegistersOK
  <1> QED BY <1>3, <1>4, <1>5, <1>6, DrainStays

\* A job that is taken from the queue.
LEMMA Taken ==
    ASSUME AlertsInv, NEW kind, Take(kind)
    PROVE  /\ QueueOK(Tail(jobs), began, gen[Peer], tomb)
           /\ JobOK(Head(jobs), began, gen[Peer], tomb) /\ Head(jobs).kind = kind
           /\ \A i \in DOMAIN Tail(jobs) : Head(jobs).peer <= Tail(jobs)[i].peer
           /\ (\A i \in DOMAIN jobs : ~jobs[i].text) => \A i \in DOMAIN Tail(jobs) : ~Tail(jobs)[i].text
           /\ pc = "drain"
  BY TailOK DEF AlertsInv, Take

LEMMA ApplyTickStep == ASSUME AlertsInv, ApplyTick, UNCHANGED storeVars PROVE AlertsInv'
  <1> DEFINE passed == [c \in DOMAIN cases |-> [cases[c] EXCEPT !.elapsed = @ \/ cases[c].late]]
             gone == {c \in DOMAIN cases : cases[c].expired}
  <1>1. /\ Take("tick") /\ jobs' = Tail(jobs) /\ cases' = Without(passed, gone)
        /\ UNCHANGED <<world, gateWasDown, gen, tomb, known, member, seen, starts, fresh, pc, timer, storeVars>>
        BY DEF ApplyTick, registers, turnVars, drainVars
  <1>2. Items(cases)
        BY CasesItems DEF AlertsInv
  <1>3. Faded(cases, passed)
        BY <1>2, SmallEdits DEF Faded, Items
  <1> HIDE DEF passed, gone
  <1>4. Faded(cases, cases')
        BY <1>1, <1>2, <1>3, FadedKeeps, WithoutFaded, FadedTwice
  <1>5. /\ QueueOK(jobs', began, gen[Peer], tomb) /\ pc = "drain"
        /\ (\A i \in DOMAIN jobs : ~jobs[i].text) => \A i \in DOMAIN jobs' : ~jobs'[i].text
        BY <1>1, Taken
  <1>6. fresh' \in BOOLEAN /\ gateWasDown' \in BOOLEAN /\ timer' \in BOOLEAN
        BY <1>1 DEF AlertsInv, RegistersOK
  <1> QED BY <1>1, <1>4, <1>5, <1>6, DrainFades

\* No cases.
LEMMA NoneFaded == ASSUME NEW cs PROVE Faded(cs, <<>>)
  BY DEF Faded

LEMMA ApplyArchiveStep == ASSUME AlertsInv, ApplyArchive, UNCHANGED storeVars PROVE AlertsInv'
  <1>1. /\ Take("archive") /\ jobs' = Tail(jobs) /\ (cases' = <<>> \/ cases' = cases)
        /\ UNCHANGED <<world, gateWasDown, gen, tomb, known, member, seen, starts, fresh, pc, timer, storeVars>>
        BY DEF ApplyArchive, registers, turnVars, drainVars
  <1>2. Faded(cases, cases')
        BY <1>1, NoneFaded, FadedSelf, CasesItems DEF AlertsInv
  <1>3. /\ QueueOK(jobs', began, gen[Peer], tomb) /\ pc = "drain"
        /\ (\A i \in DOMAIN jobs : ~jobs[i].text) => \A i \in DOMAIN jobs' : ~jobs'[i].text
        BY <1>1, Taken
  <1>4. fresh' \in BOOLEAN /\ gateWasDown' \in BOOLEAN /\ timer' \in BOOLEAN
        BY <1>1 DEF AlertsInv, RegistersOK
  <1> QED BY <1>1, <1>2, <1>3, <1>4, DrainFades

\* The drain takes job j, leaves queue q and awaits the host for it, or does
\* nothing with it.
LEMMA Awaiting ==
    ASSUME AlertsInv, NEW j, NEW q, NEW where \in {"restore", "verify lead", "verify peer"}, NEW found,
           QueueOK(q, began, gen[Peer], tomb), JobOK(j, began, gen[Peer], tomb),
           \A i \in DOMAIN q : j.peer <= q[i].peer,
           (\A i \in DOMAIN jobs : ~jobs[i].text) => \A i \in DOMAIN q : ~q[i].text,
           jobs' = q, pc \in Awaits \cup {"drain"},
           Await(where, j, found) \/ (pc = "drain" /\ UNCHANGED pc),
           UNCHANGED <<world, gateWasDown, gen, tomb, known, member, seen, starts, fresh, cases, timer, storeVars>>
    PROVE  AlertsInv'
  <1>1. /\ fresh' \in BOOLEAN /\ gateWasDown' \in BOOLEAN /\ timer' \in BOOLEAN
        /\ known' \in BOOLEAN /\ (known' => Lead \notin tomb)
        /\ member' \in BOOLEAN /\ (member' => {Lead, Peer} \cap tomb = {})
        /\ CasesOK(cases', gen[Lead], gen[Peer], began) /\ StartsOK(starts', began)
        BY DEF AlertsInv, RegistersOK
  <1>2. gateWasDown' => NoBodies(cases', jobs')
        BY DEF AlertsInv, NoBodies
  <1>3. UNCHANGED <<began, gen, tomb>>
        BY DEF world
  <1>4. CASE Await(where, j, found)
    <2>1. pc' = where /\ cur'.job = j
          BY <1>4 DEF Await
    <2>2. AwaitOK' /\ CurOK'
          BY <1>3, <2>1 DEF AwaitOK, CurOK, JobAwaits, CaseAwaits
    <2>3. pc' \in Awaits
          BY <2>1 DEF Awaits
    <2> QED BY <1>1, <1>2, <2>2, <2>3, DrainStays
  <1>5. CASE pc = "drain" /\ UNCHANGED pc
    <2>1. AwaitOK' /\ CurOK'
          BY <1>5, Resumed
    <2> QED BY <1>1, <1>2, <1>5, <2>1, DrainStays
  <1> QED BY <1>4, <1>5

LEMMA ApplyRestoreStep == ASSUME AlertsInv, ApplyRestore, UNCHANGED storeVars PROVE AlertsInv'
  <1>1. /\ Take("restore") /\ jobs' = Tail(jobs)
        /\ Await("restore", Head(jobs), FALSE) \/ UNCHANGED pc
        /\ UNCHANGED <<world, gateWasDown, gen, tomb, known, member, seen, starts, fresh, cases, timer, storeVars>>
        BY DEF ApplyRestore, registers, turnVars
  <1>2. /\ QueueOK(Tail(jobs), began, gen[Peer], tomb) /\ JobOK(Head(jobs), began, gen[Peer], tomb)
        /\ \A i \in DOMAIN Tail(jobs) : Head(jobs).peer <= Tail(jobs)[i].peer
        /\ (\A i \in DOMAIN jobs : ~jobs[i].text) => \A i \in DOMAIN Tail(jobs) : ~Tail(jobs)[i].text
        /\ pc = "drain"
        BY <1>1, Taken
  <1> QED BY <1>1, <1>2, Awaiting

LEMMA ApplyVerifyStep == ASSUME AlertsInv, ApplyVerify, UNCHANGED storeVars PROVE AlertsInv'
  <1> DEFINE where == IF known THEN "verify peer" ELSE "verify lead"
  <1>1. /\ Take("verify") /\ jobs' = Tail(jobs)
        /\ Await(where, Head(jobs), FALSE) \/ UNCHANGED pc
        /\ UNCHANGED <<world, gateWasDown, gen, tomb, known, member, seen, starts, fresh, cases, timer, storeVars>>
        BY DEF ApplyVerify, registers, turnVars
  <1>2. /\ QueueOK(Tail(jobs), began, gen[Peer], tomb) /\ JobOK(Head(jobs), began, gen[Peer], tomb)
        /\ \A i \in DOMAIN Tail(jobs) : Head(jobs).peer <= Tail(jobs)[i].peer
        /\ (\A i \in DOMAIN jobs : ~jobs[i].text) => \A i \in DOMAIN Tail(jobs) : ~Tail(jobs)[i].text
        /\ pc = "drain"
        BY <1>1, Taken
  <1>3. where \in {"restore", "verify lead", "verify peer"}
        OBVIOUS
  <1> HIDE DEF where
  <1> QED BY <1>1, <1>2, <1>3, Awaiting

LEMMA VerifyLeadAnsweredStep ==
    ASSUME AlertsInv, VerifyLeadAnswered, UNCHANGED storeVars PROVE AlertsInv'
  <1>1. /\ pc = "verify lead"
        /\ Await("verify peer", cur.job, TRUE) \/ Resume("drain")
        /\ UNCHANGED <<world, gateWasDown, gen, tomb, known, member, seen, starts, jobs, fresh, cases, timer, storeVars>>
        BY DEF VerifyLeadAnswered, registers, turnVars, queueVars
  <1>2. /\ QueueOK(jobs, began, gen[Peer], tomb) /\ JobOK(cur.job, began, gen[Peer], tomb)
        /\ \A i \in DOMAIN jobs : cur.job.peer <= jobs[i].peer
        /\ pc \in Awaits \cup {"drain"}
        BY <1>1 DEF AlertsInv, AwaitOK, JobAwaits, Awaits
  <1>3. CASE Await("verify peer", cur.job, TRUE)
    <2>1. "verify peer" \in {"restore", "verify lead", "verify peer"} /\ jobs' = jobs
          BY <1>1
    <2> QED BY <1>1, <1>2, <1>3, <2>1, Awaiting
  <1>4. CASE Resume("drain")
    <2>1. pc' = "drain"
          BY <1>4 DEF Resume
    <2>2. Faded(cases, cases')
          BY <1>1, FadedSelf, CasesItems DEF AlertsInv
    <2>3. fresh' \in BOOLEAN /\ gateWasDown' \in BOOLEAN /\ timer' \in BOOLEAN
          BY <1>1 DEF AlertsInv, RegistersOK
    <2> QED BY <1>1, <1>2, <2>1, <2>2, <2>3, DrainFades
  <1> QED BY <1>1, <1>3, <1>4

\* The drain resumes, having perhaps found a seat back.
LEMMA SeatFound ==
    ASSUME AlertsInv, UNCHANGED <<world, gateWasDown, gen, seen, starts, jobs, fresh, cases, timer, storeVars>>,
           Resume("drain"), tomb' \subseteq tomb, QueueOK(jobs, began, gen[Peer], tomb'),
           known' \in BOOLEAN, known' => Lead \notin tomb',
           member' \in BOOLEAN, member' => {Lead, Peer} \cap tomb' = {}
    PROVE  AlertsInv'
  <1>1. UNCHANGED <<host, up, config, ended, began, over, gateWasDown, gen, seen, starts, jobs, fresh, cases, timer>>
        BY DEF world
  <1>2. pc' = "drain"
        BY DEF Resume
  <1>3. WorldOK'
        BY <1>1 DEF AlertsInv, WorldOK
  <1>4. RegistersOK'
        BY <1>1, <1>2 DEF AlertsInv, RegistersOK
  <1>5. AwaitOK' /\ CurOK' /\ SentOK'
        BY <1>2, Resumed, SentStays DEF AlertsInv
  <1>6. StartsOK(starts', began') /\ CasesOK(cases', gen'[Lead], gen'[Peer], began')
        /\ QueueOK(jobs', began', gen'[Peer], tomb')
        BY <1>1 DEF AlertsInv
  <1>7. gateWasDown' => NoBodies(cases', jobs')
        BY <1>1 DEF AlertsInv
  <1> QED BY <1>3, <1>4, <1>5, <1>6, <1>7 DEF AlertsInv

LEMMA RestoreAnsweredStep == ASSUME AlertsInv, RestoreAnswered, UNCHANGED storeVars PROVE AlertsInv'
  <1>1. /\ UNCHANGED <<world, gateWasDown, gen, member, seen, starts, jobs, fresh, cases, timer>>
        /\ Resume("drain")
        /\ (tomb' = tomb \ {Lead} /\ known' = TRUE) \/ UNCHANGED <<tomb, known>>
        BY DEF RestoreAnswered, turnVars, queueVars
  <1>2. QueueOK(jobs, began, gen[Peer], tomb')
    <2>1. Peer \in tomb' <=> Peer \in tomb
          BY <1>1, Kin
    <2>2. \A i \in DOMAIN jobs : JobOK(jobs[i], began, gen[Peer], tomb')
          BY <2>1 DEF AlertsInv, QueueOK, JobOK
    <2> QED BY <2>2 DEF AlertsInv, QueueOK
  <1>3. known' \in BOOLEAN /\ (known' => Lead \notin tomb') /\ tomb' \subseteq tomb
    <2>1. known \in BOOLEAN /\ (known => Lead \notin tomb)
          BY DEF AlertsInv, RegistersOK
    <2>2. CASE tomb' = tomb \ {Lead} /\ known' = TRUE
          BY <2>2
    <2>3. CASE UNCHANGED <<tomb, known>>
          BY <2>1, <2>3
    <2> QED BY <1>1, <2>2, <2>3
  <1>4. member' \in BOOLEAN /\ (member' => {Lead, Peer} \cap tomb' = {})
        BY <1>1 DEF AlertsInv, RegistersOK
  <1> QED BY <1>1, <1>2, <1>3, <1>4, SeatFound

LEMMA VerifyPeerAnsweredStep ==
    ASSUME AlertsInv, VerifyPeerAnswered, UNCHANGED storeVars PROVE AlertsInv'
  <1>1. /\ UNCHANGED <<world, gateWasDown, gen, seen, starts, jobs, fresh, cases, timer>>
        /\ Resume("drain") /\ pc = "verify peer"
        /\ \/ /\ ~VerifyStale(cur.job)
              /\ tomb' = tomb \ {Peer} /\ member' = TRUE /\ known' = (known \/ cur.found)
           \/ UNCHANGED <<tomb, member, known>>
        BY DEF VerifyPeerAnswered, turnVars, queueVars
  <1>2. QueueOK(jobs, began, gen[Peer], tomb) /\ RegistersOK
        BY DEF AlertsInv
  <1>3. CASE UNCHANGED <<tomb, member, known>>
        BY <1>1, <1>2, <1>3, SeatFound DEF RegistersOK
  <1>4. CASE /\ ~VerifyStale(cur.job)
             /\ tomb' = tomb \ {Peer} /\ member' = TRUE /\ known' = (known \/ cur.found)
    <2>1. /\ JobOK(cur.job, began, gen[Peer], tomb) /\ cur.job.peer = gen[Peer] /\ Lead \notin tomb
          /\ \A i \in DOMAIN jobs : cur.job.peer <= jobs[i].peer
          BY <1>1, <1>4 DEF AlertsInv, AwaitOK, JobAwaits, VerifyStale
    <2>2. ASSUME NEW i \in DOMAIN jobs PROVE JobOK(jobs[i], began, gen[Peer], tomb')
      <3>1. JobOK(jobs[i], began, gen[Peer], tomb) /\ gen[Peer] <= jobs[i].peer /\ gen[Peer] \in Nat
            BY <1>2, <2>1, Kin DEF QueueOK, RegistersOK
      <3>2. jobs[i].peer = gen[Peer]
            BY <3>1 DEF JobOK, JobRow
      <3> QED BY <3>1, <3>2 DEF JobOK
    <2>3. QueueOK(jobs, began, gen[Peer], tomb')
          BY <1>2, <2>2 DEF QueueOK
    <2>4. tomb' \subseteq tomb /\ {Lead, Peer} \cap tomb' = {}
          BY <1>4, <2>1
    <2>5. known' \in BOOLEAN /\ member' \in BOOLEAN
          BY <1>4
    <2> QED BY <1>1, <2>3, <2>4, <2>5, SeatFound
  <1> QED BY <1>1, <1>3, <1>4

-----------------------------------------------------------------------------
(* The drain applies a turn *)

\* A new case is right.
LEMMA NewCaseOK ==
    ASSUME NEW j \in JobRow, NEW b, j.of \in PeerTurns
    PROVE  CaseOK(j.of, NewCase(j), j.lead, j.peer, b)
  <1> DEFINE x == NewCase(j)
             h == [of |-> Handback, lead |-> j.lead, peer |-> j.peer]
  <1>1. h \in Text
        BY DEF JobRow, Text
  <1>2. /\ DOMAIN x = ItemFields /\ x.held = (IF j.text THEN {h} ELSE {}) /\ x.room = <<>>
        /\ x.verdict = Unjudged
        BY DEF NewCase, ItemFields
  <1>3. DOMAIN Unjudged = VerdictFields /\ Unjudged.asked \in 0..MaxAssessments
        BY AlertsAssumption DEF Unjudged, VerdictFields
  <1>4. h.lead = j.lead /\ h.peer = j.peer
        OBVIOUS
  <1> HIDE DEF x, h
  <1>5. ItemOK(x)
        BY <1>1, <1>2, <1>3 DEF ItemOK
  <1>6. HeldIn(x, j.lead, j.peer) /\ LaterIn(j.of, x, b)
        BY <1>2, <1>4 DEF HeldIn, LaterIn
  <1> QED BY <1>5, <1>6 DEF CaseOK, x

\* A send reaches the room of a case only if its turn began after the case.
LEMMA AttachedOK ==
    ASSUME NEW j, NEW c, NEW x, NEW lane, NEW flagged, NEW b,
           j \in JobRow, j.kind = "turn", j.of \in LeadTurns, TimelyJob(j, b),
           CaseOK(c, x, j.lead, j.peer, b)
    PROVE  CaseOK(c, Attached(j, c, x, lane, flagged), j.lead, j.peer, b)
  <1> DEFINE y == Attached(j, c, x, lane, flagged)
             h == [of |-> j.of, lead |-> j.lead, peer |-> j.peer]
  <1>1. ItemOK(x) /\ c \in PeerTurns /\ HeldIn(x, j.lead, j.peer) /\ LaterIn(c, x, b)
        BY DEF CaseOK
  <1>2. h \in Text /\ h.lead = j.lead /\ h.peer = j.peer
        BY DEF JobRow, Text
  <1>3. /\ DOMAIN y = ItemFields /\ y.verdict = x.verdict
        /\ y.held = x.held \/ y.held = x.held \cup {h}
        /\ y.room = x.room \/ (Qualifies(j, c, x) /\ y.room = Append(x.room, j.of))
        BY <1>1 DEF Attached, ItemOK, ItemFields
  <1> HIDE DEF y, h
  <1>4. Qualifies(j, c, x) => b[j.of] # None /\ c \in b[j.of]
        BY DEF Qualifies, TimelyJob
  <1>5. y.room \in Seq(LeadTurns) /\ LaterIn(c, y, b)
    <2>1. x.room \in Seq(LeadTurns)
          BY <1>1 DEF ItemOK
    <2>2. CASE y.room = x.room
          BY <1>1, <2>1, <2>2 DEF LaterIn
    <2>3. CASE Qualifies(j, c, x) /\ y.room = Append(x.room, j.of)
      <3>1. y.room \in Seq(LeadTurns)
            BY <2>1, <2>3
      <3>2. ASSUME NEW i \in DOMAIN y.room
            PROVE  (i \in DOMAIN x.room /\ y.room[i] = x.room[i]) \/ y.room[i] = j.of
            BY <2>1, <2>3
      <3> QED BY <3>1, <3>2, <2>3, <1>1, <1>4 DEF LaterIn
    <2> QED BY <1>3, <2>2, <2>3
  <1>6. y.held \in SUBSET Text /\ HeldIn(y, j.lead, j.peer)
        BY <1>1, <1>2, <1>3 DEF HeldIn, ItemOK
  <1>7. ItemOK(y)
        BY <1>1, <1>3, <1>5, <1>6 DEF ItemOK
  <1> QED BY <1>1, <1>5, <1>6, <1>7 DEF CaseOK, y

\* The frame of a turn's application.
ApplyFrame == UNCHANGED <<world, gen, tomb, known, seen, fresh, timer, storeVars>>

\* The gate was up, and the drain resumes.
LEMMA ResumesUp ==
    ASSUME AlertsInv, ApplyFrame, GateUp, UNCHANGED starts, pc' \in {"drain", "evaluate", "pass"},
           QueueOK(jobs', began, gen[Peer], tomb), CasesOK(cases', gen[Lead], gen[Peer], began),
           member' \in BOOLEAN, member' => {Lead, Peer} \cap tomb = {}
    PROVE  AlertsInv'
  <1>1. gateWasDown' = FALSE /\ AwaitOK' /\ CurOK'
        BY Resumed DEF GateUp
  <1>2. /\ known' \in BOOLEAN /\ (known' => Lead \notin tomb) /\ fresh' \in BOOLEAN /\ timer' \in BOOLEAN
        /\ StartsOK(starts', began)
        BY DEF ApplyFrame, AlertsInv, RegistersOK
  <1>3. UNCHANGED <<world, gen, tomb, seen, storeVars>>
        BY DEF ApplyFrame
  <1> QED BY <1>1, <1>2, <1>3, DrainStays

LEMMA CommitStep ==
    ASSUME AlertsInv, ApplyFrame, GateUp, UNCHANGED starts,
           NEW j, NEW route, NEW q, NEW lane, NEW flagged, NEW staged, NEW purged,
           JobOK(j, began, gen[Peer], tomb), j.kind = "turn", j.of \in LeadTurns,
           QueueOK(q, began, gen[Peer], tomb), CommitGather(j, route, q, lane, flagged, staged, purged)
    PROVE  AlertsInv'
  <1> DEFINE gone == lane # "none" /\ Sends[j.of].to \in tomb
             kept == IF gone THEN "none" ELSE lane
             flag == flagged \/ gone
  <1>1. jobs' = q /\ pc' = "drain"
        BY DEF CommitGather, Resume
  <1>2. /\ CasesOK(cases, gen[Lead], gen[Peer], began) /\ Items(cases)
        /\ member \in BOOLEAN /\ (member => {Lead, Peer} \cap tomb = {})
        BY CasesItems DEF AlertsInv, RegistersOK
  <1>3. \/ cases' = Dirty(cases) /\ UNCHANGED member
        \/ /\ ~DeadEra(j)
           /\ cases' = [c \in DOMAIN cases |->
                          IF Peer \in tomb THEN cases[c] ELSE Attached(j, c, cases[c], kept, flag)]
           /\ member' = (member \/ (staged /\ Peer \notin tomb))
        BY DEF CommitGather
  <1> HIDE DEF gone, kept, flag
  <1>4. CASE cases' = Dirty(cases) /\ UNCHANGED member
    <2>1. Faded(cases, cases')
          BY <1>2, <1>4, AllFaded
    <2>2. CasesOK(cases', gen[Lead], gen[Peer], began)
          BY <1>2, <2>1, FadedOK
    <2> QED BY <1>1, <1>2, <1>4, <2>2, ResumesUp
  <1>5. CASE /\ ~DeadEra(j)
             /\ cases' = [c \in DOMAIN cases |->
                            IF Peer \in tomb THEN cases[c] ELSE Attached(j, c, cases[c], kept, flag)]
             /\ member' = (member \/ (staged /\ Peer \notin tomb))
    <2>1. Lead \notin tomb /\ j.lead = gen[Lead] /\ (Peer \notin tomb => j.peer = gen[Peer])
          /\ j \in JobRow /\ TimelyJob(j, began)
          BY <1>5 DEF DeadEra, JobOK
    <2>2. ASSUME NEW c \in DOMAIN cases PROVE CaseOK(c, cases'[c], gen[Lead], gen[Peer], began)
      <3>1. CaseOK(c, cases[c], gen[Lead], gen[Peer], began)
            BY <1>2 DEF CasesOK
      <3>2. CASE Peer \in tomb
            BY <1>5, <3>1, <3>2
      <3>3. CASE Peer \notin tomb
        <4>1. cases'[c] = Attached(j, c, cases[c], kept, flag)
              BY <1>5, <3>3
        <4>2. CaseOK(c, Attached(j, c, cases[c], kept, flag), j.lead, j.peer, began)
              BY <2>1, <3>1, <3>3, AttachedOK
        <4> QED BY <2>1, <3>3, <4>1, <4>2
      <3> QED BY <3>2, <3>3
    <2>3. CasesOK(cases', gen[Lead], gen[Peer], began)
      <3>1. DOMAIN cases' = DOMAIN cases
            BY <1>5
      <3> QED BY <3>1, <2>2 DEF CasesOK
    <2>4. member' \in BOOLEAN
          BY <1>5
    <2>5. member' => {Lead, Peer} \cap tomb = {}
      <3>1. member' => member \/ Peer \notin tomb
            BY <1>5
      <3> QED BY <1>2, <2>1, <3>1
    <2> QED BY <1>1, <2>3, <2>4, <2>5, ResumesUp
  <1> QED BY <1>3, <1>4, <1>5

LEMMA ApplyPeerTurnStep ==
    ASSUME AlertsInv, ApplyFrame, GateUp, UNCHANGED starts, NEW j, NEW q,
           JobOK(j, began, gen[Peer], tomb), j.of \in PeerTurns,
           QueueOK(q, began, gen[Peer], tomb), ApplyPeerTurn(j, q)
    PROVE  AlertsInv'
  <1>1. jobs' = q /\ pc' = "drain" /\ member' = member
        BY DEF ApplyPeerTurn, Resume
  <1>2. /\ CasesOK(cases, gen[Lead], gen[Peer], began)
        /\ member \in BOOLEAN /\ (member => {Lead, Peer} \cap tomb = {})
        BY DEF AlertsInv, RegistersOK
  <1>3. \/ cases' = cases
        \/ /\ ~DeadEra(j) /\ ~DeadPeer(j)
           /\ cases' = [c \in DOMAIN cases \cup {j.of} |-> IF c = j.of THEN NewCase(j) ELSE cases[c]]
        BY DEF ApplyPeerTurn
  <1>4. CasesOK(cases', gen[Lead], gen[Peer], began)
    <2>1. CASE cases' = cases
          BY <1>2, <2>1
    <2>2. CASE /\ ~DeadEra(j) /\ ~DeadPeer(j)
               /\ cases' = [c \in DOMAIN cases \cup {j.of} |-> IF c = j.of THEN NewCase(j) ELSE cases[c]]
      <3>1. j.lead = gen[Lead] /\ j.peer = gen[Peer] /\ j \in JobRow
            BY <2>2 DEF DeadEra, DeadPeer, JobOK
      <3>2. CaseOK(j.of, NewCase(j), gen[Lead], gen[Peer], began)
            BY <3>1, NewCaseOK
      <3> QED BY <1>2, <2>2, <3>2 DEF CasesOK
    <2> QED BY <1>3, <2>1, <2>2
  <1> QED BY <1>1, <1>2, <1>4, ResumesUp

LEMMA ApplyLeadTurnStep ==
    ASSUME AlertsInv, ApplyFrame, GateUp, UNCHANGED starts, NEW j, NEW q,
           JobOK(j, began, gen[Peer], tomb), j.kind = "turn", j.of \in LeadTurns,
           QueueOK(q, began, gen[Peer], tomb), \A i \in DOMAIN q : j.peer <= q[i].peer,
           ApplyLeadTurn(j, q)
    PROVE  AlertsInv'
  <1> DEFINE to == Sends[j.of].to
             lane == LaneOf(j.of)
  <1>1. \/ jobs' = q /\ Resume("drain") /\ UNCHANGED <<cases, member>>
        \/ CommitGather(j, RouteFor, q, lane, FALSE, FALSE, FALSE)
        \/ CommitGather(j, RouteFor, q, "none", TRUE, FALSE, FALSE)
        \/ /\ jobs' = q /\ pc' = "gather"
           /\ cur' = [job |-> j, route |-> RouteFor, gen |-> gen[to], saw |-> host]
           /\ UNCHANGED <<cases, member>>
        BY DEF ApplyLeadTurn
  <1> HIDE DEF to, lane
  <1>2. /\ CasesOK(cases, gen[Lead], gen[Peer], began) /\ StartsOK(starts, began)
        /\ member \in BOOLEAN /\ (member => {Lead, Peer} \cap tomb = {})
        BY DEF AlertsInv, RegistersOK
  <1>3. CASE jobs' = q /\ Resume("drain") /\ UNCHANGED <<cases, member>>
        BY <1>2, <1>3, ResumesUp DEF Resume
  <1>4. CASE CommitGather(j, RouteFor, q, lane, FALSE, FALSE, FALSE)
        BY <1>4, CommitStep
  <1>5. CASE CommitGather(j, RouteFor, q, "none", TRUE, FALSE, FALSE)
        BY <1>5, CommitStep
  <1>6. CASE /\ jobs' = q /\ pc' = "gather"
             /\ cur' = [job |-> j, route |-> RouteFor, gen |-> gen[to], saw |-> host]
             /\ UNCHANGED <<cases, member>>
    <2>1. UNCHANGED <<world, gen, tomb, known, seen, fresh, timer, storeVars, began>>
          BY DEF ApplyFrame, world
    <2>2. cur'.job = j /\ pc' = "gather"
          BY <1>6
    <2>3. AwaitOK' /\ CurOK'
          BY <1>6, <2>1, <2>2 DEF AwaitOK, CurOK, CaseAwaits
    <2>4. gateWasDown' = FALSE /\ pc' \in Awaits
          BY <2>2 DEF GateUp, Awaits
    <2>5. /\ known' \in BOOLEAN /\ (known' => Lead \notin tomb) /\ fresh' \in BOOLEAN /\ timer' \in BOOLEAN
          /\ StartsOK(starts', began)
          BY <1>2, <2>1 DEF AlertsInv, RegistersOK
    <2> QED BY <1>2, <1>6, <2>1, <2>3, <2>4, <2>5, DrainStays
  <1> QED BY <1>1, <1>3, <1>4, <1>5, <1>6

LEMMA ApplyCaptureStep ==
    ASSUME AlertsInv, ApplyFrame, NEW j, NEW q,
           JobOK(j, began, gen[Peer], tomb), j.kind = "turn",
           QueueOK(q, began, gen[Peer], tomb), \A i \in DOMAIN q : j.peer <= q[i].peer,
           (\A i \in DOMAIN jobs : ~jobs[i].text) => \A i \in DOMAIN q : ~q[i].text,
           ApplyCapture(j, q)
    PROVE  AlertsInv'
  <1>1. j.of \in Turns
        BY DEF JobOK, TimelyJob
  <1>2. CASE GateDown(q, cases) /\ Resume("drain") /\ UNCHANGED member
    <2>1. Faded(cases, cases) /\ pc' = "drain"
          BY <1>2, FadedSelf, CasesItems DEF AlertsInv, Resume
    <2>2. UNCHANGED <<world, gen, tomb, known, member, seen, fresh, timer, storeVars>>
          BY <1>2 DEF ApplyFrame
    <2> QED BY <1>2, <2>1, <2>2, DrainPurges
  <1>3. CASE GateUp /\ UNCHANGED starts /\ j.of \in PeerTurns /\ ApplyPeerTurn(j, q)
        BY <1>3, ApplyPeerTurnStep
  <1>4. CASE GateUp /\ UNCHANGED starts /\ j.of \notin PeerTurns /\ ApplyLeadTurn(j, q)
    <2>1. j.of \in LeadTurns
          BY <1>1, <1>4 DEF Turns
    <2> QED BY <1>4, <2>1, ApplyLeadTurnStep
  <1> QED BY <1>2, <1>3, <1>4 DEF ApplyCapture

LEMMA ApplyTurnStep == ASSUME AlertsInv, ApplyTurn, UNCHANGED storeVars PROVE AlertsInv'
  <1> DEFINE j == Head(jobs)
             q == Tail(jobs)
  <1>1. /\ Take("turn") /\ UNCHANGED <<world, gen, tomb, known, seen, fresh, timer>>
        /\ \/ ApplyCapture(j, q)
           \/ jobs' = q /\ UNCHANGED <<gateWasDown, starts, cases, drift, pc, cur, member>>
           \/ GateDown(q, cases) /\ UNCHANGED <<pc, cur, drift, member>>
           \/ GateUp /\ jobs' = q /\ Await("history", j, FALSE) /\ UNCHANGED <<starts, cases, member>>
        BY DEF ApplyTurn
  <1>2. /\ QueueOK(q, began, gen[Peer], tomb)
        /\ JobOK(j, began, gen[Peer], tomb) /\ j.kind = "turn"
        /\ \A i \in DOMAIN q : j.peer <= q[i].peer
        /\ (\A i \in DOMAIN jobs : ~jobs[i].text) => \A i \in DOMAIN q : ~q[i].text
        /\ pc = "drain"
        BY <1>1, Taken
  <1> HIDE DEF j, q
  <1>3. UNCHANGED <<world, gen, tomb, known, seen, fresh, timer, storeVars, began>>
        BY <1>1 DEF world
  <1>4. /\ Faded(cases, cases) /\ CasesOK(cases, gen[Lead], gen[Peer], began)
        /\ member \in BOOLEAN /\ (member => {Lead, Peer} \cap tomb = {})
        /\ known' \in BOOLEAN /\ (known' => Lead \notin tomb) /\ StartsOK(starts, began)
        /\ fresh' \in BOOLEAN /\ timer' \in BOOLEAN /\ gateWasDown \in BOOLEAN
        BY <1>3, FadedSelf, CasesItems DEF AlertsInv, RegistersOK
  <1>5. CASE ApplyCapture(j, q)
    <2>1. ApplyFrame
          BY <1>3 DEF ApplyFrame
    <2> QED BY <1>2, <1>5, <2>1, ApplyCaptureStep
  <1>6. CASE jobs' = q /\ UNCHANGED <<gateWasDown, starts, cases, drift, pc, cur, member>>
    <2>1. Faded(cases, cases') /\ pc' = "drain" /\ gateWasDown' \in BOOLEAN /\ (gateWasDown' => gateWasDown)
          BY <1>2, <1>4, <1>6
    <2> QED BY <1>2, <1>3, <1>4, <1>6, <2>1, DrainFades
  <1>7. CASE GateDown(q, cases) /\ UNCHANGED <<pc, cur, drift, member>>
    <2>1. pc' = "drain"
          BY <1>2, <1>7
    <2> QED BY <1>2, <1>3, <1>4, <1>7, <2>1, DrainPurges
  <1>8. CASE GateUp /\ jobs' = q /\ Await("history", j, FALSE) /\ UNCHANGED <<starts, cases, member>>
    <2>1. pc' = "history" /\ cur'.job = j
          BY <1>8 DEF Await
    <2>2. AwaitOK' /\ CurOK'
          BY <1>2, <1>3, <1>8, <2>1 DEF AwaitOK, CurOK, CaseAwaits
    <2>3. gateWasDown' = FALSE /\ pc' \in Awaits
          BY <1>8, <2>1 DEF GateUp, Awaits
    <2>4. StartsOK(starts', began) /\ CasesOK(cases', gen[Lead], gen[Peer], began)
          BY <1>4, <1>8
    <2> QED BY <1>2, <1>3, <1>4, <1>8, <2>2, <2>3, <2>4, DrainStays
  <1> QED BY <1>1, <1>5, <1>6, <1>7, <1>8

LEMMA HistoryAnsweredStep ==
    ASSUME AlertsInv, HistoryAnswered, UNCHANGED storeVars PROVE AlertsInv'
  <1> DEFINE j == cur.job
             full == [j EXCEPT !.text = TRUE]
  <1>1. /\ pc = "history" /\ UNCHANGED <<world, gen, tomb, known, seen, fresh, timer>>
        /\ \/ Resume("drain") /\ UNCHANGED <<gateWasDown, jobs, starts, cases, member>>
           \/ GateDown(jobs, cases) /\ Resume("drain") /\ UNCHANGED member
           \/ /\ GateUp /\ Resume("drain") /\ (cases' = Gapped(cases) \/ cases' = cases)
              /\ UNCHANGED <<jobs, starts, member>>
           \/ ApplyCapture(full, jobs)
        BY DEF HistoryAnswered
  <1>2. /\ QueueOK(jobs, began, gen[Peer], tomb)
        /\ JobOK(j, began, gen[Peer], tomb) /\ j.kind = "turn"
        /\ \A i \in DOMAIN jobs : j.peer <= jobs[i].peer
        BY <1>1 DEF AlertsInv, AwaitOK, JobAwaits
  <1>3. UNCHANGED <<world, gen, tomb, known, seen, fresh, timer, storeVars>> /\ ApplyFrame
        BY <1>1 DEF ApplyFrame
  <1>4. /\ Items(cases) /\ Faded(cases, cases) /\ CasesOK(cases, gen[Lead], gen[Peer], began)
        /\ member \in BOOLEAN /\ (member => {Lead, Peer} \cap tomb = {})
        /\ fresh' \in BOOLEAN /\ timer' \in BOOLEAN /\ gateWasDown \in BOOLEAN
        BY <1>3, FadedSelf, CasesItems DEF AlertsInv, RegistersOK
  <1>5. CASE Resume("drain") /\ UNCHANGED <<gateWasDown, jobs, starts, cases, member>>
    <2>1. Faded(cases, cases') /\ pc' = "drain" /\ gateWasDown' \in BOOLEAN /\ (gateWasDown' => gateWasDown)
          BY <1>4, <1>5 DEF Resume
    <2> QED BY <1>2, <1>3, <1>4, <1>5, <2>1, DrainFades
  <1>6. CASE GateDown(jobs, cases) /\ Resume("drain") /\ UNCHANGED member
    <2>1. pc' = "drain"
          BY <1>6 DEF Resume
    <2> QED BY <1>2, <1>3, <1>4, <1>6, <2>1, DrainPurges
  <1>7. CASE /\ GateUp /\ Resume("drain") /\ (cases' = Gapped(cases) \/ cases' = cases)
             /\ UNCHANGED <<jobs, starts, member>>
    <2>1. Faded(cases, cases')
          BY <1>4, <1>7, AllFaded
    <2>2. CasesOK(cases', gen[Lead], gen[Peer], began)
          BY <1>4, <2>1, FadedOK
    <2>3. pc' = "drain" /\ QueueOK(jobs', began, gen[Peer], tomb)
          BY <1>2, <1>7 DEF Resume
    <2> QED BY <1>3, <1>4, <1>7, <2>2, <2>3, ResumesUp
  <1>8. CASE ApplyCapture(full, jobs)
    <2>1. JobOK(full, began, gen[Peer], tomb) /\ full.kind = "turn" /\ full.peer = j.peer
      <3>1. j \in JobRow
            BY <1>2 DEF JobOK
      <3> HIDE DEF j
      <3>2. /\ full \in JobRow /\ full.kind = j.kind /\ full.of = j.of /\ full.after = j.after
            /\ full.anchors = j.anchors /\ full.peer = j.peer
            BY <3>1 DEF JobRow
      <3> HIDE DEF full
      <3> QED BY <1>2, <3>2 DEF JobOK, TimelyJob
    <2>2. \A i \in DOMAIN jobs : full.peer <= jobs[i].peer
          BY <1>2, <2>1
    <2> HIDE DEF j, full
    <2> QED BY <1>2, <1>3, <1>8, <2>1, <2>2, ApplyCaptureStep
  <1> QED BY <1>1, <1>5, <1>6, <1>7, <1>8

LEMMA GatherAnsweredStep ==
    ASSUME AlertsInv, GatherAnswered, UNCHANGED storeVars PROVE AlertsInv'
  <1> DEFINE j == cur.job
             lane == LaneOf(j.of)
             purged == "purge" \in drift
  <1>1. /\ pc = "gather" /\ UNCHANGED <<world, gen, tomb, known, seen, fresh, timer>>
        /\ \/ GateDown(jobs, Dirty(cases)) /\ Resume("drain") /\ UNCHANGED member
           \/ /\ GateUp /\ UNCHANGED starts
              /\ \/ CommitGather(j, cur.route, jobs, "none", TRUE, FALSE, purged)
                 \/ CommitGather(j, cur.route, jobs, lane, FALSE, TRUE, purged)
                 \/ CommitGather(j, cur.route, jobs, "none", FALSE, FALSE, purged)
        BY DEF GatherAnswered
  <1>2. /\ QueueOK(jobs, began, gen[Peer], tomb)
        /\ JobOK(j, began, gen[Peer], tomb) /\ j.kind = "turn" /\ j.of \in LeadTurns
        BY <1>1 DEF AlertsInv, AwaitOK, JobAwaits
  <1>3. UNCHANGED <<world, gen, tomb, known, seen, fresh, timer, storeVars>> /\ ApplyFrame
        BY <1>1 DEF ApplyFrame
  <1> HIDE DEF j, lane, purged
  <1>4. CASE GateDown(jobs, Dirty(cases)) /\ Resume("drain") /\ UNCHANGED member
    <2>1. pc' = "drain" /\ Faded(cases, Dirty(cases))
          BY <1>4, AllFaded, CasesItems DEF Resume, AlertsInv
    <2> QED BY <1>2, <1>3, <1>4, <2>1, DrainPurges
  <1>5. CASE /\ GateUp /\ UNCHANGED starts
             /\ CommitGather(j, cur.route, jobs, "none", TRUE, FALSE, purged)
        BY <1>2, <1>3, <1>5, CommitStep
  <1>6. CASE /\ GateUp /\ UNCHANGED starts
             /\ CommitGather(j, cur.route, jobs, lane, FALSE, TRUE, purged)
        BY <1>2, <1>3, <1>6, CommitStep
  <1>7. CASE /\ GateUp /\ UNCHANGED starts
             /\ CommitGather(j, cur.route, jobs, "none", FALSE, FALSE, purged)
        BY <1>2, <1>3, <1>7, CommitStep
  <1> QED BY <1>1, <1>4, <1>5, <1>6, <1>7

\* The drain applies a job.
LEMMA ApplySteps == ASSUME AlertsInv, ApplyNext, UNCHANGED storeVars PROVE AlertsInv'
  BY ApplyTickStep, ApplyArchiveStep, ApplyRestoreStep, ApplyVerifyStep, ApplyTurnStep,
     RestoreAnsweredStep, VerifyLeadAnsweredStep, VerifyPeerAnsweredStep, HistoryAnsweredStep,
     GatherAnsweredStep
  DEF ApplyNext

-----------------------------------------------------------------------------
(* The drain evaluates *)

\* A step that looks at cases and takes nothing in.
LEMMA Looks ==
    ASSUME AlertsInv, UNCHANGED <<world, gen, tomb, known, member, seen, jobs, starts, timer>>,
           fresh' \in BOOLEAN, gateWasDown' \in BOOLEAN, gateWasDown' => gateWasDown,
           Faded(cases, cases'), pc' \in CaseAwaits \cup {"drain", "evaluate", "pass"}, CurOK', SentOK'
    PROVE  AlertsInv'
  <1>1. UNCHANGED <<host, up, config, ended, began, over, spent>>
        BY DEF world
  <1>2. WorldOK' /\ QueueOK(jobs', began', gen'[Peer], tomb') /\ StartsOK(starts', began')
        BY <1>1 DEF AlertsInv, WorldOK
  <1>3. RegistersOK'
        BY DEF AlertsInv, RegistersOK, CaseAwaits, Awaits
  <1>4. CasesOK(cases', gen'[Lead], gen'[Peer], began')
    <2>1. CasesOK(cases', gen[Lead], gen[Peer], began)
          BY FadedOK DEF AlertsInv
    <2> QED BY <1>1, <2>1
  <1>5. gateWasDown' => NoBodies(cases', jobs')
        BY NoBodiesKept DEF AlertsInv
  <1>6. AwaitOK'
        BY DEF AwaitOK, JobAwaits, CaseAwaits
  <1> QED BY <1>2, <1>3, <1>4, <1>5, <1>6 DEF AlertsInv

\* And goes on.
LEMMA GoesOn ==
    ASSUME AlertsInv, UNCHANGED <<world, gen, tomb, known, member, seen, jobs, starts, timer, storeVars>>,
           fresh' \in BOOLEAN, gateWasDown' \in BOOLEAN, gateWasDown' => gateWasDown,
           Faded(cases, cases'), pc' \in {"drain", "evaluate", "pass"}
    PROVE  AlertsInv'
  <1>1. CurOK' /\ SentOK'
        BY Resumed, SentStays DEF AlertsInv
  <1> QED BY <1>1, Looks

LEMMA LookAtCasesStep == ASSUME AlertsInv, LookAtCases PROVE AlertsInv'
  <1>1. /\ UNCHANGED <<world, gen, tomb, known, member, seen, jobs, starts, timer, storeVars, gateWasDown, cases>>
        /\ fresh' = TRUE /\ pc' = "evaluate"
        BY DEF LookAtCases, registers, turnVars
  <1>2. Faded(cases, cases') /\ gateWasDown \in BOOLEAN
        BY <1>1, FadedSelf, CasesItems DEF AlertsInv, RegistersOK
  <1> QED BY <1>1, <1>2, GoesOn

LEMMA EvaluatedStep == ASSUME AlertsInv, Evaluated PROVE AlertsInv'
  <1>1. /\ UNCHANGED <<world, gen, tomb, known, member, seen, jobs, starts, timer, storeVars, gateWasDown, cases, fresh>>
        /\ pc' \in {"pass", "drain"}
        BY DEF Evaluated, registers, turnVars, queueVars
  <1>2. Faded(cases, cases') /\ gateWasDown \in BOOLEAN /\ fresh \in BOOLEAN
        BY <1>1, FadedSelf, CasesItems DEF AlertsInv, RegistersOK
  <1> QED BY <1>1, <1>2, GoesOn

\* The frame of a step that looks at cases.
LookFrame == UNCHANGED <<world, gen, tomb, known, member, seen, fresh, timer, storeVars>>

\* It finds the gate down.
LEMMA LookPurges ==
    ASSUME AlertsInv, LookFrame, NEW cs, Faded(cases, cs), GateDown(jobs, cs),
           pc' \in {"drain", "evaluate", "pass"}
    PROVE  AlertsInv'
  <1>1. UNCHANGED <<world, gen, tomb, known, member, seen, fresh, timer, storeVars>>
        BY DEF LookFrame
  <1>2. QueueOK(jobs, began, gen[Peer], tomb)
        BY DEF AlertsInv
  <1> QED BY <1>1, <1>2, DrainPurges

\* It leaves the queue alone and goes on.
LEMMA LookGoesOn ==
    ASSUME AlertsInv, LookFrame, UNCHANGED <<jobs, starts>>, Faded(cases, cases'),
           gateWasDown' \in BOOLEAN, gateWasDown' => gateWasDown, pc' \in {"drain", "evaluate", "pass"}
    PROVE  AlertsInv'
  <1>1. UNCHANGED <<world, gen, tomb, known, member, seen, jobs, starts, timer, storeVars>>
        BY DEF LookFrame
  <1>2. fresh' \in BOOLEAN
        BY DEF LookFrame, AlertsInv, RegistersOK
  <1> QED BY <1>1, <1>2, GoesOn

\* It leaves the queue alone and asks something.
LEMMA LookAwaits ==
    ASSUME AlertsInv, LookFrame, UNCHANGED <<jobs, starts>>, Faded(cases, cases'),
           gateWasDown' \in BOOLEAN, gateWasDown' => gateWasDown, pc' \in CaseAwaits, CurOK'
    PROVE  AlertsInv'
  <1>1. UNCHANGED <<world, gen, tomb, known, member, seen, jobs, starts, timer>>
        BY DEF LookFrame
  <1>2. fresh' \in BOOLEAN /\ SentOK'
        BY SentStays DEF LookFrame, AlertsInv, RegistersOK
  <1> QED BY <1>1, <1>2, Looks

LEMMA EvaluateStep == ASSUME AlertsInv, NEW c \in DOMAIN cases, Evaluate(c) PROVE AlertsInv'
  <1> DEFINE closing == Without(cases, {c})
             item == [cases[c] EXCEPT !.verdict.mode = RouteFor.mode]
  <1>1. /\ LookFrame
        /\ \/ cases' = closing /\ Proceed("evaluate", c) /\ UNCHANGED <<gateWasDown, jobs, starts>>
           \/ GateDown(jobs, closing) /\ Proceed("evaluate", c)
           \/ GateUp /\ cases' = closing /\ Proceed("evaluate", c) /\ UNCHANGED <<jobs, starts>>
           \/ /\ GateUp /\ cases' = Kept(cases, c, item) /\ UNCHANGED <<jobs, starts>>
              /\ pc' = "refresh" /\ cur' = [item |-> c, left |-> cur.left \ {c}, saw |-> host]
        BY DEF Evaluate, LookFrame
  <1>2. /\ Items(cases) /\ Faded(cases, closing)
        BY WithoutFaded, CasesItems DEF AlertsInv
  <1>3. Faded(cases, Kept(cases, c, item)) /\ DOMAIN Kept(cases, c, item) = DOMAIN cases
    <2>1. Fades(cases[c], item)
          BY <1>2, DrainEdits DEF Items
    <2> HIDE DEF item
    <2> QED BY <1>2, <2>1, KeptFaded
  <1> HIDE DEF closing, item
  <1>4. gateWasDown \in BOOLEAN /\ (Proceed("evaluate", c) => pc' = "evaluate")
        BY DEF AlertsInv, RegistersOK, Proceed
  <1>5. GateUp => gateWasDown' = FALSE
        BY DEF GateUp
  <1>6. CASE cases' = closing /\ Proceed("evaluate", c) /\ UNCHANGED <<gateWasDown, jobs, starts>>
        BY <1>1, <1>2, <1>4, <1>6, LookGoesOn
  <1>7. CASE GateDown(jobs, closing) /\ Proceed("evaluate", c)
        BY <1>1, <1>2, <1>4, <1>7, LookPurges
  <1>8. CASE GateUp /\ cases' = closing /\ Proceed("evaluate", c) /\ UNCHANGED <<jobs, starts>>
        BY <1>1, <1>2, <1>4, <1>5, <1>8, LookGoesOn
  <1>9. CASE /\ GateUp /\ cases' = Kept(cases, c, item) /\ UNCHANGED <<jobs, starts>>
             /\ pc' = "refresh" /\ cur' = [item |-> c, left |-> cur.left \ {c}, saw |-> host]
    <2>1. cur'.item \in DOMAIN cases' /\ pc' = "refresh"
          BY <1>3, <1>9
    <2>2. CurOK' /\ pc' \in CaseAwaits
          BY <2>1 DEF CurOK, CaseAwaits
    <2>3. Faded(cases, cases')
          BY <1>3, <1>9
    <2> QED BY <1>1, <1>5, <1>9, <2>2, <2>3, LookAwaits
  <1> QED BY <1>1, <1>6, <1>7, <1>8, <1>9

\* An answer is taken, and the case kept or closed.
LEMMA PutItem ==
    ASSUME NEW cs, Items(cs), NEW c \in DOMAIN cs, NEW x, Fades(cs[c], x)
    PROVE  /\ Faded(cs, Put(cs, c, x)) /\ Faded(cs, Kept(cs, c, x))
           /\ DOMAIN Kept(cs, c, x) = DOMAIN cs /\ Kept(cs, c, x)[c] = x
  BY PutFaded, KeptFaded DEF Kept

\* Fading twice is fading.
LEMMA FadesTwice == ASSUME NEW x, NEW y, NEW z, Fades(x, y), Fades(y, z) PROVE Fades(x, z)
  BY DEF Fades

LEMMA AssessStep ==
    ASSUME AlertsInv, LookFrame, UNCHANGED <<jobs, starts>>, gateWasDown' \in BOOLEAN,
           gateWasDown' => gateWasDown, NEW c \in DOMAIN cases, Assess(c, cases[c])
    PROVE  AlertsInv'
  <1> DEFINE x == cases[c]
             gates == AxisGates(x)
             same == Questions(x, gates) = {} \/ Packet(x, gates) = x.verdict.packet
             e == x.verdict.exhausted \/ ~same
             y == [x EXCEPT !.verdict.exhausted = e]
             z == [x EXCEPT !.verdict.asked = @ + 1, !.verdict.gates = gates]
  <1>1. Items(cases) /\ ItemOK(x)
        BY CasesItems DEF AlertsInv, Items
  <1>2. \/ cases' = Put(cases, c, Judged(y, gates)) /\ Proceed("evaluate", c)
        \/ /\ x.verdict.asked < MaxAssessments
           /\ cases' = Kept(cases, c, z) /\ pc' = "ask"
           /\ cur' = [item |-> c, left |-> cur.left, view |-> EvidenceView(x),
                      eras |-> <<gen[Lead], gen[Peer]>>]
    <2>1. ~(x.verdict.asked >= MaxAssessments) => x.verdict.asked < MaxAssessments
          BY <1>1, AlertsAssumption DEF ItemOK
    <2> QED BY <2>1 DEF Assess
  <1>3. CASE cases' = Put(cases, c, Judged(y, gates)) /\ Proceed("evaluate", c)
    <2>1. Fades(x, y)
          BY <1>1, DrainEdits
    <2> HIDE DEF y, gates
    <2>2. Fades(x, Judged(y, gates))
          BY <2>1, JudgedFades, FadesTwice DEF Fades
    <2>3. Faded(cases, cases') /\ pc' = "evaluate"
          BY <1>1, <1>3, <2>2, PutItem DEF Proceed
    <2> QED BY <2>3, LookGoesOn
  <1>4. CASE /\ x.verdict.asked < MaxAssessments
             /\ cases' = Kept(cases, c, z) /\ pc' = "ask"
             /\ cur' = [item |-> c, left |-> cur.left, view |-> EvidenceView(x),
                        eras |-> <<gen[Lead], gen[Peer]>>]
    <2>1. Fades(x, z)
          BY <1>1, <1>4, DrainEdits
    <2>2. EvidenceView(z) = EvidenceView(x)
          BY <1>1 DEF EvidenceView, ItemOK, ItemFields
    <2> HIDE DEF z
    <2>3. Faded(cases, cases') /\ DOMAIN cases' = DOMAIN cases /\ cases'[c] = z
          BY <1>1, <1>4, <2>1, PutItem
    <2>4. cur'.item = c /\ cur'.view = EvidenceView(x) /\ cur'.eras = <<gen[Lead], gen[Peer]>> /\ gen' = gen
          BY <1>4 DEF LookFrame
    <2>5. CurOK' /\ pc' \in CaseAwaits
          BY <1>4, <2>2, <2>3, <2>4 DEF CurOK, CaseAwaits
    <2> QED BY <2>3, <2>5, LookAwaits
  <1> QED BY <1>2, <1>3, <1>4

LEMMA RefreshedStep == ASSUME AlertsInv, Refreshed PROVE AlertsInv'
  <1> DEFINE c == cur.item
             closing == Without(cases, {c})
             soiled == Kept(cases, c, [cases[c] EXCEPT !.dirty = TRUE])
  <1>1. /\ pc = "refresh" /\ LookFrame
        /\ \/ GateDown(jobs, closing) /\ Proceed("evaluate", c)
           \/ /\ gateWasDown' = FALSE \/ gateWasDown' = gateWasDown
              /\ UNCHANGED <<jobs, starts>>
              /\ \/ cases' \in {cases, closing, soiled} /\ Proceed("evaluate", c)
                 \/ Assess(c, cases[c])
    <2>1. pc = "refresh" /\ LookFrame
          BY DEF Refreshed, LookFrame
    <2>2. \/ GateDown(jobs, closing) /\ Proceed("evaluate", c)
          \/ \E l \in Answers(Lead), p \in Answers(Peer) :
                 /\ gateWasDown' = (gateWasDown /\ (DeadSeat \/ "failed" \in {l, p}))
                 /\ UNCHANGED <<jobs, starts>>
                 /\ \/ cases' \in {cases, closing, soiled} /\ Proceed("evaluate", c)
                    \/ Assess(c, cases[c])
          BY DEF Refreshed
    <2>3. CASE GateDown(jobs, closing) /\ Proceed("evaluate", c)
          BY <2>1, <2>3
    <2>4. ASSUME NEW l, NEW p,
                 /\ gateWasDown' = (gateWasDown /\ (DeadSeat \/ "failed" \in {l, p}))
                 /\ UNCHANGED <<jobs, starts>>
                 /\ \/ cases' \in {cases, closing, soiled} /\ Proceed("evaluate", c)
                    \/ Assess(c, cases[c])
          PROVE  gateWasDown' = FALSE \/ gateWasDown' = gateWasDown
          BY <2>4 DEF AlertsInv, RegistersOK
    <2> QED BY <2>1, <2>2, <2>3, <2>4
  <1>2. c \in DOMAIN cases /\ Items(cases) /\ gateWasDown \in BOOLEAN
        BY <1>1, CasesItems DEF AlertsInv, CurOK, CaseAwaits, RegistersOK
  <1>3. Faded(cases, cases) /\ Faded(cases, closing)
        BY <1>2, WithoutFaded, FadedSelf
  <1>4. Faded(cases, soiled)
    <2>1. Fades(cases[c], [cases[c] EXCEPT !.dirty = TRUE])
          BY <1>2, SmallEdits DEF Items
    <2> QED BY <1>2, <2>1, PutItem
  <1> HIDE DEF c, closing, soiled
  <1>5. Proceed("evaluate", c) => pc' = "evaluate"
        BY DEF Proceed
  <1>6. CASE GateDown(jobs, closing) /\ Proceed("evaluate", c)
        BY <1>1, <1>3, <1>5, <1>6, LookPurges
  <1>7. CASE /\ gateWasDown' = FALSE \/ gateWasDown' = gateWasDown
             /\ UNCHANGED <<jobs, starts>>
             /\ \/ cases' \in {cases, closing, soiled} /\ Proceed("evaluate", c)
                \/ Assess(c, cases[c])
    <2>1. gateWasDown' \in BOOLEAN /\ (gateWasDown' => gateWasDown)
      <3>1. CASE gateWasDown' = FALSE
            BY <3>1
      <3>2. CASE gateWasDown' = gateWasDown
            BY <1>2, <3>2
      <3> QED BY <1>7, <3>1, <3>2
    <2>2. CASE Assess(c, cases[c])
          BY <1>1, <1>2, <1>7, <2>1, <2>2, AssessStep
    <2>3. CASE cases' \in {cases, closing, soiled} /\ Proceed("evaluate", c)
      <3>1. Faded(cases, cases') /\ pc' = "evaluate"
            BY <1>3, <1>4, <1>5, <2>3
      <3> QED BY <1>1, <1>7, <2>1, <3>1, LookGoesOn
    <2> QED BY <1>7, <2>2, <2>3
  <1> QED BY <1>1, <1>6, <1>7

LEMMA AnsweredStep == ASSUME AlertsInv, Answered PROVE AlertsInv'
  <1> DEFINE c == cur.item
             x == cases[c]
             gates == x.verdict.gates
             closing == Without(cases, {c})
             soiled == [x EXCEPT !.dirty = TRUE]
             e == x.verdict.exhausted \/ x.verdict.asked >= MaxAssessments
             unanswered == [x EXCEPT !.dirty = FALSE, !.verdict.exhausted = e]
  <1>1. /\ pc = "ask" /\ LookFrame /\ Proceed("evaluate", c)
        /\ \/ GateDown(jobs, closing)
           \/ /\ GateUp /\ UNCHANGED <<jobs, starts>>
              /\ \/ cases' = closing
                 \/ cases' = Kept(cases, c, soiled)
                 \/ cases' = Put(cases, c, unanswered)
                 \/ \E v \in Replies(x, gates) :
                       cases' = Put(cases, c, Judged([x EXCEPT !.verdict = v], gates))
        BY DEF Answered, LookFrame
  <1>2. c \in DOMAIN cases /\ Items(cases) /\ gateWasDown \in BOOLEAN
        BY <1>1, CasesItems DEF AlertsInv, CurOK, CaseAwaits, RegistersOK
  <1>3. ItemOK(x) /\ Faded(cases, closing) /\ pc' = "evaluate"
        BY <1>1, <1>2, WithoutFaded DEF Items, Proceed
  <1>4. Faded(cases, Kept(cases, c, soiled))
    <2>1. Fades(x, soiled)
          BY <1>3, SmallEdits
    <2> HIDE DEF soiled
    <2> QED BY <1>2, <2>1, PutItem
  <1>5. Faded(cases, Put(cases, c, unanswered))
    <2>1. Fades(x, unanswered)
          BY <1>3, DrainEdits
    <2> HIDE DEF unanswered
    <2> QED BY <1>2, <2>1, PutItem
  <1>6. ASSUME NEW v \in Replies(x, gates)
        PROVE  Faded(cases, Put(cases, c, Judged([x EXCEPT !.verdict = v], gates)))
    <2> DEFINE y == Judged([x EXCEPT !.verdict = v], gates)
    <2>1. Fades(x, y)
          BY <1>3, RepliesFade
    <2> HIDE DEF y
    <2>2. Faded(cases, Put(cases, c, y))
          BY <1>2, <2>1, PutItem
    <2> QED BY <2>2 DEF y
  <1>7. CASE GateDown(jobs, closing)
        BY <1>1, <1>3, <1>7, LookPurges
  <1>8. CASE /\ GateUp /\ UNCHANGED <<jobs, starts>>
             /\ \/ cases' = closing
                \/ cases' = Kept(cases, c, soiled)
                \/ cases' = Put(cases, c, unanswered)
                \/ \E v \in Replies(x, gates) :
                      cases' = Put(cases, c, Judged([x EXCEPT !.verdict = v], gates))
    <2>1. Faded(cases, cases')
          BY <1>3, <1>4, <1>5, <1>6, <1>8
    <2>2. gateWasDown' = FALSE
          BY <1>8 DEF GateUp
    <2> QED BY <1>1, <1>3, <1>8, <2>1, <2>2, LookGoesOn
  <1> QED BY <1>1, <1>7, <1>8

-----------------------------------------------------------------------------
(* The drain tells the Supervisor *)

\* A case as it is dispatched.
LEMMA Dispatched ==
    ASSUME NEW x, ItemOK(x), NEW m
    PROVE  /\ Fades(x, [x EXCEPT !.verdict.mode = m])
           /\ \A state, to : Fades(x, Delivery([x EXCEPT !.verdict.mode = m], state, to))
  <1>1. Fades(x, [x EXCEPT !.verdict.mode = m])
        BY DrainEdits
  <1> DEFINE y == [x EXCEPT !.verdict.mode = m]
  <1> HIDE DEF y
  <1>2. \A state, to : Fades(y, Delivery(y, state, to))
        BY <1>1, DrainEdits DEF Fades, y
  <1> QED BY <1>1, <1>2, FadesTwice DEF y

LEMMA DispatchStep == ASSUME AlertsInv, NEW c \in DOMAIN cases, Dispatch(c) PROVE AlertsInv'
  <1> DEFINE item == [cases[c] EXCEPT !.verdict.mode = RouteFor.mode]
             axes == Eligible(c, item, RouteFor.to)
             blocked == Delivery(item, "blocked", RouteFor.to)
  <1>1. /\ LookFrame
        /\ \/ /\ cases' \in {cases, Without(cases, {c}), Put(cases, c, item)}
              /\ Proceed("pass", c) /\ UNCHANGED <<gateWasDown, jobs, starts>>
           \/ GateDown(jobs, Put(cases, c, item)) /\ Proceed("pass", c)
           \/ /\ GateUp /\ cases' \in {Put(cases, c, item), Put(cases, c, blocked)}
              /\ Proceed("pass", c) /\ UNCHANGED <<jobs, starts>>
           \/ /\ GateUp /\ cases' = Kept(cases, c, item) /\ UNCHANGED <<jobs, starts>>
              /\ RouteFor # None /\ MayDispatch(item) /\ pc' = "recipient"
              /\ cur' = [item |-> c, left |-> cur.left \ {c}, route |-> RouteFor,
                         axes |-> axes, saw |-> host]
    <2>1. LookFrame
          BY DEF Dispatch, LookFrame
    <2> HIDE DEF item, axes, blocked
    <2> QED BY <2>1 DEF Dispatch, item, axes, blocked
  <1>2. Items(cases) /\ ItemOK(cases[c]) /\ gateWasDown \in BOOLEAN
        BY CasesItems DEF AlertsInv, Items, RegistersOK
  <1>3. Fades(cases[c], item) /\ Fades(cases[c], blocked)
        BY <1>2, Dispatched
  <1> HIDE DEF item, axes, blocked
  <1>4. /\ Faded(cases, cases) /\ Faded(cases, Without(cases, {c}))
        /\ Faded(cases, Put(cases, c, item)) /\ Faded(cases, Put(cases, c, blocked))
        /\ Faded(cases, Kept(cases, c, item)) /\ DOMAIN Kept(cases, c, item) = DOMAIN cases
        BY <1>2, <1>3, PutItem, FadedSelf, WithoutFaded
  <1>5. Proceed("pass", c) => pc' = "pass"
        BY DEF Proceed
  <1>6. GateUp => gateWasDown' = FALSE
        BY DEF GateUp
  <1>7. CASE /\ cases' \in {cases, Without(cases, {c}), Put(cases, c, item)}
             /\ Proceed("pass", c) /\ UNCHANGED <<gateWasDown, jobs, starts>>
    <2>1. Faded(cases, cases')
          BY <1>4, <1>7
    <2> QED BY <1>1, <1>2, <1>5, <1>7, <2>1, LookGoesOn
  <1>8. CASE GateDown(jobs, Put(cases, c, item)) /\ Proceed("pass", c)
        BY <1>1, <1>4, <1>5, <1>8, LookPurges
  <1>9. CASE /\ GateUp /\ cases' \in {Put(cases, c, item), Put(cases, c, blocked)}
             /\ Proceed("pass", c) /\ UNCHANGED <<jobs, starts>>
    <2>1. Faded(cases, cases')
          BY <1>4, <1>9
    <2> QED BY <1>1, <1>5, <1>6, <1>9, <2>1, LookGoesOn
  <1>10. CASE /\ GateUp /\ cases' = Kept(cases, c, item) /\ UNCHANGED <<jobs, starts>>
              /\ RouteFor # None /\ MayDispatch(item) /\ pc' = "recipient"
              /\ cur' = [item |-> c, left |-> cur.left \ {c}, route |-> RouteFor,
                         axes |-> axes, saw |-> host]
    <2>1. cur'.item \in DOMAIN cases' /\ cur'.route = RouteFor
          BY <1>4, <1>10
    <2>2. RouteFor \in Routes /\ RouteFor.mode = "notify"
          BY <1>10 DEF RouteFor, AlertsInv, WorldOK, MayDispatch
    <2>3. CurOK' /\ pc' \in CaseAwaits
          BY <1>10, <2>1, <2>2 DEF CurOK, CaseAwaits
    <2>4. Faded(cases, cases')
          BY <1>4, <1>10
    <2> QED BY <1>1, <1>6, <1>10, <2>3, <2>4, LookAwaits
  <1> QED BY <1>1, <1>7, <1>8, <1>9, <1>10

\* An attempt that is reserved for what was never attempted.
LEMMA ReservedOK ==
    ASSUME SentOK, NEW c \in PeerTurns, NEW to \in Supervisors, NEW axes \in SUBSET Axes,
           axes \cap Attempted(c, to) = {},
           attempts' = attempts \cup {[case |-> c, axes |-> axes, to |-> to, state |-> "reserved"]},
           sent' = [s \in DOMAIN sent |->
                      IF s[1] = c /\ s[2] \in axes /\ s[3] = to THEN sent[s] + 1 ELSE sent[s]]
    PROVE  /\ SentOK'
           /\ \A s \in DOMAIN sent : sent'[s] # sent[s] =>
                 s[1] = c /\ s[2] \in axes /\ s[3] = to /\ s[2] \in (Attempted(s[1], s[3]))'
  <1> DEFINE row == [case |-> c, axes |-> axes, to |-> to, state |-> "reserved"]
             S == PeerTurns \X Axes \X Supervisors
  <1>1. row \in Attempt /\ row.case = c /\ row.axes = axes /\ row.to = to
        BY DEF Attempt
  <1>2. attempts' \subseteq Attempt
        BY <1>1 DEF SentOK
  <1>3. sent \in [S -> Nat] /\ DOMAIN sent = S
        /\ \A s \in S : sent[s] <= 1 /\ (sent[s] > 0 => s[2] \in Attempted(s[1], s[3]))
        BY DEF SentOK
  <1>4. \A d, by : Attempted(d, by) \subseteq (Attempted(d, by))'
        BY DEF Attempted
  <1>5. axes \subseteq (Attempted(c, to))'
    <2>1. row \in attempts'
          OBVIOUS
    <2> HIDE DEF row
    <2> QED BY <2>1, <1>1 DEF Attempted
  <1> HIDE DEF row, S
  <1>6. ASSUME NEW s \in S
        PROVE  /\ sent'[s] \in Nat /\ sent'[s] <= 1
               /\ sent'[s] > 0 => s[2] \in (Attempted(s[1], s[3]))'
               /\ sent'[s] # sent[s] =>
                    s[1] = c /\ s[2] \in axes /\ s[3] = to /\ s[2] \in (Attempted(s[1], s[3]))'
    <2>1. sent[s] \in Nat /\ sent[s] <= 1 /\ (sent[s] > 0 => s[2] \in Attempted(s[1], s[3]))
          BY <1>3
    <2>2. sent'[s] = IF s[1] = c /\ s[2] \in axes /\ s[3] = to THEN sent[s] + 1 ELSE sent[s]
          BY <1>3
    <2>3. CASE s[1] = c /\ s[2] \in axes /\ s[3] = to
      <3>1. s[2] \notin Attempted(s[1], s[3]) /\ s[2] \in (Attempted(s[1], s[3]))'
            BY <2>3, <1>5
      <3>2. sent[s] = 0 /\ sent'[s] = 1
            BY <2>1, <2>2, <2>3, <3>1
      <3> QED BY <3>1, <3>2, <2>3
    <2>4. CASE ~(s[1] = c /\ s[2] \in axes /\ s[3] = to)
          BY <2>1, <2>2, <2>4, <1>4
    <2> QED BY <2>3, <2>4
  <1>7. sent' \in [S -> Nat]
    <2>1. DOMAIN sent' = S /\ sent' = [s \in DOMAIN sent' |-> sent'[s]]
          BY <1>3
    <2> QED BY <2>1, <1>6
  <1> QED BY <1>2, <1>3, <1>6, <1>7 DEF SentOK, S

LEMMA RecipientStep ==
    ASSUME AlertsInv, Recipient
    PROVE  /\ AlertsInv'
           /\ \A s \in DOMAIN sent : sent'[s] # sent[s] =>
                 /\ up /\ ~RouteMoved /\ s[1] = cur.item /\ s[3] = cur.route.to
                 /\ s[2] \in OpenFindings(cases[cur.item]) /\ s[2] \in (Attempted(s[1], s[3]))'
  <1> DEFINE c == cur.item
             to == cur.route.to
             x == cases[c]
             still == Eligible(c, x, to) \cap cur.axes
             canceled == Delivery(x, "canceled", to)
             blocked == Delivery(x, "blocked", to)
             deferred == Delivery(x, "deferred", to)
             reserved == Delivery(x, "reserved", to)
             Send == /\ attempts' = attempts \cup {[case |-> c, axes |-> still, to |-> to, state |-> "reserved"]}
                     /\ sent' = [s \in DOMAIN sent |->
                                  IF s[1] = c /\ s[2] \in still /\ s[3] = to THEN sent[s] + 1 ELSE sent[s]]
                     /\ cases' = Kept(cases, c, reserved)
                     /\ pc' = "send"
                     /\ cur' = [item |-> c, left |-> cur.left, axes |-> still, to |-> to]
  <1>1. /\ pc = "recipient" /\ UNCHANGED <<world, gen, tomb, known, member, seen, fresh, timer>>
        /\ \/ /\ cases' = Put(cases, c, deferred) /\ Proceed("pass", c) /\ UNCHANGED storeVars
              /\ UNCHANGED <<gateWasDown, jobs, starts>>
           \/ GateDown(jobs, Put(cases, c, x)) /\ Proceed("pass", c) /\ UNCHANGED storeVars
           \/ /\ GateUp /\ UNCHANGED <<jobs, starts>>
              /\ cases' \in {Put(cases, c, canceled), Put(cases, c, blocked), Put(cases, c, deferred),
                             Put(cases, c, x)}
              /\ Proceed("pass", c) /\ UNCHANGED storeVars
           \/ GateUp /\ UNCHANGED <<jobs, starts>> /\ ~RouteMoved /\ Send
    <2> HIDE DEF x, still, canceled, blocked, deferred, reserved
    <2> QED BY DEF Recipient, Reserve, x, still, canceled, blocked, deferred, reserved
  <1>2. /\ c \in DOMAIN cases /\ Items(cases) /\ gateWasDown \in BOOLEAN /\ fresh' \in BOOLEAN
        /\ cur.route \in Routes
        BY <1>1, CasesItems DEF AlertsInv, CurOK, CaseAwaits, RegistersOK
  <1>3. to \in Supervisors /\ c \in PeerTurns
    <2>1. c \in PeerTurns
          BY <1>2 DEF AlertsInv, CasesOK, CaseOK
    <2> QED BY <1>2, <2>1, ObserverAssumption
  <1>4. /\ Fades(x, x) /\ Fades(x, canceled) /\ Fades(x, blocked) /\ Fades(x, deferred)
        /\ Fades(x, reserved)
    <2>1. ItemOK(x)
          BY <1>2 DEF Items
    <2> HIDE DEF x
    <2> QED BY <2>1, SmallEdits, DrainEdits
  <1>5. still \in SUBSET Axes /\ still \subseteq OpenFindings(x) /\ still \cap Attempted(c, to) = {}
        BY DEF Eligible, OpenFindings
  <1> HIDE DEF x, still, canceled, blocked, deferred, reserved
  <1>6. /\ Faded(cases, Put(cases, c, x)) /\ Faded(cases, Put(cases, c, canceled))
        /\ Faded(cases, Put(cases, c, blocked)) /\ Faded(cases, Put(cases, c, deferred))
        /\ Faded(cases, Kept(cases, c, reserved)) /\ DOMAIN Kept(cases, c, reserved) = DOMAIN cases
        BY <1>2, <1>4, PutItem DEF x
  <1>7. Proceed("pass", c) => pc' = "pass"
        BY DEF Proceed
  <1>8. GateUp => gateWasDown' = FALSE /\ up
        BY DEF GateUp
  <1>9. UNCHANGED storeVars => LookFrame /\ sent' = sent
        BY <1>1 DEF LookFrame, storeVars
  <1>10. CASE /\ cases' = Put(cases, c, deferred) /\ Proceed("pass", c) /\ UNCHANGED storeVars
              /\ UNCHANGED <<gateWasDown, jobs, starts>>
    <2>1. Faded(cases, cases')
          BY <1>6, <1>10
    <2>2. AlertsInv'
          BY <1>2, <1>7, <1>9, <1>10, <2>1, LookGoesOn
    <2> QED BY <1>9, <1>10, <2>2
  <1>11. CASE GateDown(jobs, Put(cases, c, x)) /\ Proceed("pass", c) /\ UNCHANGED storeVars
    <2>1. AlertsInv'
          BY <1>6, <1>7, <1>9, <1>11, LookPurges
    <2> QED BY <1>9, <1>11, <2>1
  <1>12. CASE /\ GateUp /\ UNCHANGED <<jobs, starts>>
              /\ cases' \in {Put(cases, c, canceled), Put(cases, c, blocked), Put(cases, c, deferred),
                             Put(cases, c, x)}
              /\ Proceed("pass", c) /\ UNCHANGED storeVars
    <2>1. Faded(cases, cases')
          BY <1>6, <1>12
    <2>2. AlertsInv'
          BY <1>7, <1>8, <1>9, <1>12, <2>1, LookGoesOn
    <2> QED BY <1>9, <1>12, <2>2
  <1>13. CASE GateUp /\ UNCHANGED <<jobs, starts>> /\ ~RouteMoved /\ Send
    <2> HIDE DEF c, to
    <2>1. /\ SentOK'
          /\ \A s \in DOMAIN sent : sent'[s] # sent[s] =>
                s[1] = c /\ s[2] \in still /\ s[3] = to /\ s[2] \in (Attempted(s[1], s[3]))'
          BY <1>3, <1>5, <1>13, ReservedOK DEF AlertsInv
    <2>2. Faded(cases, cases') /\ cur'.item \in DOMAIN cases' /\ cur'.axes = still /\ cur'.to = to
          /\ pc' = "send"
          BY <1>2, <1>6, <1>13
    <2>3. CurOK' /\ pc' \in CaseAwaits
          BY <2>2, <1>3, <1>5 DEF CurOK, CaseAwaits
    <2>4. AlertsInv'
          BY <1>1, <1>2, <1>8, <1>13, <2>1, <2>2, <2>3, Looks
    <2> QED BY <1>5, <1>8, <1>13, <2>1, <2>4 DEF c, to, x
  <1> QED BY <1>1, <1>10, <1>11, <1>12, <1>13

\* A row that is settled counts as it did.
LEMMA SettledOK ==
    ASSUME SentOK, sent' = sent, NEW c, NEW axes, NEW to, NEW o \in {"accepted", "uncertain"},
           [case |-> c, axes |-> axes, to |-> to, state |-> o] \in Attempt,
           attempts' = (attempts \ {[case |-> c, axes |-> axes, to |-> to, state |-> "reserved"]})
                       \cup {[case |-> c, axes |-> axes, to |-> to, state |-> o]}
    PROVE  SentOK'
  <1> DEFINE row(state) == [case |-> c, axes |-> axes, to |-> to, state |-> state]
  <1>1. /\ row(o).case = c /\ row(o).axes = axes /\ row(o).to = to
        /\ row("reserved").case = c /\ row("reserved").axes = axes /\ row("reserved").to = to
        OBVIOUS
  <1>2. attempts' = (attempts \ {row("reserved")}) \cup {row(o)} /\ row(o) \in Attempt
        OBVIOUS
  <1> HIDE DEF row
  <1>3. attempts' \subseteq Attempt
        BY <1>2 DEF SentOK
  <1>4. ASSUME NEW d, NEW by, NEW a \in Attempted(d, by) PROVE a \in (Attempted(d, by))'
    <2>1. PICK r \in attempts : r.case = d /\ r.to = by /\ a \in r.axes
          BY DEF Attempted
    <2>2. CASE r = row("reserved")
      <3>1. row(o) \in attempts' /\ row(o).case = d /\ row(o).to = by /\ a \in row(o).axes
            BY <1>1, <1>2, <2>1, <2>2
      <3> QED BY <3>1 DEF Attempted
    <2>3. CASE r # row("reserved")
      <3>1. r \in attempts'
            BY <1>2, <2>1, <2>3
      <3> QED BY <2>1, <3>1 DEF Attempted
    <2> QED BY <2>2, <2>3
  <1> QED BY <1>3, <1>4 DEF SentOK

LEMMA DeliveredStep == ASSUME AlertsInv, Delivered PROVE AlertsInv' /\ sent' = sent
  <1> DEFINE c == cur.item
             row(state) == [case |-> c, axes |-> cur.axes, to |-> cur.to, state |-> state]
  <1>1. /\ pc = "send" /\ Proceed("pass", c)
        /\ UNCHANGED <<world, gateWasDown, gen, tomb, known, member, seen, starts, jobs, fresh, timer, sent>>
        /\ \E o \in {"accepted", "uncertain"} :
              /\ \/ attempts' = attempts
                 \/ attempts' = (attempts \ {row("reserved")}) \cup {row(o)}
              /\ cases' = Put(cases, c, Delivery(cases[c], o, cur.to))
        BY DEF Delivered, registers, turnVars, queueVars
  <1>2. PICK o \in {"accepted", "uncertain"} :
              /\ \/ attempts' = attempts
                 \/ attempts' = (attempts \ {row("reserved")}) \cup {row(o)}
              /\ cases' = Put(cases, c, Delivery(cases[c], o, cur.to))
        BY <1>1
  <1>3. /\ c \in DOMAIN cases /\ Items(cases) /\ cur.axes \in SUBSET Axes /\ cur.to \in Supervisors
        /\ fresh' \in BOOLEAN /\ gateWasDown' \in BOOLEAN /\ (gateWasDown' => gateWasDown)
        BY <1>1, CasesItems DEF AlertsInv, CurOK, CaseAwaits, RegistersOK
  <1>4. c \in PeerTurns
        BY <1>3 DEF AlertsInv, CasesOK, CaseOK
  <1>5. SentOK'
    <2>1. CASE attempts' = attempts
          BY <1>1, <2>1, SentStays DEF AlertsInv, storeVars
    <2>2. CASE attempts' = (attempts \ {row("reserved")}) \cup {row(o)}
      <3>1. row(o) \in Attempt
            BY <1>3, <1>4 DEF Attempt
      <3>2. SentOK /\ sent' = sent
            BY <1>1 DEF AlertsInv
      <3> QED BY <2>2, <3>1, <3>2, SettledOK
    <2> QED BY <1>2, <2>1, <2>2
  <1>6. Faded(cases, cases')
    <2>1. Fades(cases[c], Delivery(cases[c], o, cur.to))
          BY <1>3, DrainEdits DEF Items
    <2> QED BY <1>2, <1>3, <2>1, PutItem
  <1>7. pc' = "pass"
        BY <1>1 DEF Proceed
  <1>8. CurOK'
        BY <1>7, Resumed
  <1> QED BY <1>1, <1>3, <1>5, <1>6, <1>7, <1>8, Looks

LEMMA DrainEndsStep == ASSUME AlertsInv, DrainEnds PROVE AlertsInv' /\ sent' = sent
  <1>1. /\ UNCHANGED <<world, gateWasDown, gen, tomb, known, member, seen, starts, jobs, fresh, cases, storeVars>>
        /\ (pc' = "drain" /\ UNCHANGED timer) \/ (pc' = "idle" /\ jobs = <<>> /\ timer' = (cases # <<>>))
        BY DEF DrainEnds, registers, turnVars, queueVars
  <1>2. UNCHANGED <<host, up, config, ended, began, over, spent, attempts, sent>>
        BY <1>1 DEF world, storeVars
  <1>3. timer' \in BOOLEAN
        BY <1>1 DEF AlertsInv, RegistersOK
  <1>4. WorldOK' /\ RegistersOK'
        BY <1>1, <1>2, <1>3 DEF AlertsInv, WorldOK, RegistersOK
  <1>5. AwaitOK' /\ CurOK' /\ SentOK'
        BY <1>1, Resumed, SentStays DEF AlertsInv
  <1>6. /\ StartsOK(starts', began') /\ QueueOK(jobs', began', gen'[Peer], tomb')
        /\ CasesOK(cases', gen'[Lead], gen'[Peer], began')
        BY <1>1, <1>2 DEF AlertsInv
  <1>7. gateWasDown' => NoBodies(cases', jobs')
        BY <1>1 DEF AlertsInv
  <1> QED BY <1>2, <1>4, <1>5, <1>6, <1>7 DEF AlertsInv

\* A row after a restart.
Uncertain(r) == [r EXCEPT !.state = IF @ = "reserved" THEN "uncertain" ELSE @]

\* An observer with nothing in it is right.
LEMMA EmptyOK ==
    ASSUME NEW b, NEW l, NEW p, NEW buried
    PROVE  /\ QueueOK(<<>>, b, p, buried) /\ CasesOK(<<>>, l, p, b) /\ StartsOK(<<>>, b)
           /\ NoBodies(<<>>, <<>>)
  <1>1. <<>> \in Seq(JobRow) /\ Len(<<>>) = 0 /\ DOMAIN <<>> = {}
        OBVIOUS
  <1> QED BY <1>1, ObserverAssumption DEF QueueOK, CasesOK, StartsOK, NoBodies

LEMMA RestartStep == ASSUME AlertsInv, Restart PROVE AlertsInv' /\ sent' = sent
  <1>1. /\ gateWasDown' = FALSE /\ gen' = [a \in Agents |-> 0] /\ tomb' = {}
        /\ known' = FALSE /\ member' = FALSE
        /\ seen' = {} /\ starts' = <<>> /\ jobs' = <<>> /\ fresh' = TRUE /\ cases' = <<>>
        /\ pc' = "idle" /\ timer' = FALSE
        /\ UNCHANGED <<host, up, config, ended, began, over, sent>>
        BY DEF Restart
  <1>2. attempts' = {Uncertain(r) : r \in attempts}
        BY DEF Restart, Uncertain
  <1>3. ASSUME NEW r \in Attempt
        PROVE  Uncertain(r) \in Attempt /\ Uncertain(r).case = r.case /\ Uncertain(r).axes = r.axes
               /\ Uncertain(r).to = r.to
        BY DEF Attempt, Uncertain
  <1> HIDE DEF Uncertain
  <1>4. attempts \subseteq Attempt /\ attempts' \subseteq Attempt
        BY <1>2, <1>3 DEF AlertsInv, SentOK
  <1>5. ASSUME NEW d, NEW by, NEW a \in Attempted(d, by) PROVE a \in (Attempted(d, by))'
    <2>1. PICK r \in attempts : r.case = d /\ r.to = by /\ a \in r.axes
          BY DEF Attempted
    <2>2. /\ Uncertain(r) \in attempts' /\ Uncertain(r).case = d /\ Uncertain(r).to = by
          /\ a \in Uncertain(r).axes
          BY <1>2, <1>3, <1>4, <2>1
    <2> QED BY <2>2 DEF Attempted
  <1>6. SentOK'
        BY <1>1, <1>4, <1>5 DEF AlertsInv, SentOK
  <1>7. WorldOK' /\ RegistersOK'
        BY <1>1 DEF AlertsInv, WorldOK, RegistersOK
  <1>8. AwaitOK' /\ CurOK'
        BY <1>1, Resumed
  <1>9. /\ QueueOK(jobs', began', gen'[Peer], tomb') /\ CasesOK(cases', gen'[Lead], gen'[Peer], began')
        /\ StartsOK(starts', began')
        BY <1>1, EmptyOK
  <1> QED BY <1>1, <1>6, <1>7, <1>8, <1>9 DEF AlertsInv

-----------------------------------------------------------------------------
(* The invariant is inductive *)

LEMMA InitInv == Init => AlertsInv
  <1> SUFFICES ASSUME Init PROVE AlertsInv
      OBVIOUS
  <1>1. WorldOK
        BY DEF Init, WorldOK
  <1>2. RegistersOK
        BY DEF Init, RegistersOK
  <1>3. /\ QueueOK(jobs, began, gen[Peer], tomb) /\ CasesOK(cases, gen[Lead], gen[Peer], began)
        /\ StartsOK(starts, began)
        BY EmptyOK DEF Init
  <1>4. AwaitOK /\ CurOK
        BY DEF Init, AwaitOK, CurOK, JobAwaits, CaseAwaits
  <1>5. SentOK
        BY DEF Init, SentOK
  <1>6. ~gateWasDown
        BY DEF Init
  <1> QED BY <1>1, <1>2, <1>3, <1>4, <1>5, <1>6 DEF AlertsInv

\* Hooks and clocks keep the invariant, and what they may do to a question
\* that is being asked.
LEMMA HookSteps ==
    ASSUME AlertsInv,
           \/ HookNext /\ UNCHANGED storeVars
           \/ TimerFires
           \/ \E c \in DOMAIN cases : Checkpoint(c) \/ Expires(c) \/ RetryDue(c)
    PROVE  HookShape /\ AlertsInv'
  <1>1. CASE HookNext /\ UNCHANGED storeVars
    <2>1. ASSUME NEW a \in Agents, Archived(a) \/ Created(a) PROVE HookShape /\ AlertsInv'
          BY <1>1, <2>1, ArchivedStep, CreatedStep
    <2>2. ASSUME NEW t \in LeadTurns, Start(t) \/ LeadTurnEnds(t) PROVE HookShape /\ AlertsInv'
          BY <1>1, <2>2, StartStep, LeadTurnEndsStep
    <2>3. ASSUME NEW c \in PeerTurns, PeerTurnEnds(c) PROVE HookShape /\ AlertsInv'
          BY <1>1, <2>3, PeerTurnEndsStep
    <2>4. ASSUME View \/ GateFlips PROVE HookShape /\ AlertsInv'
          BY <1>1, <2>4, ViewStep, GateFlipsStep
    <2>5. ASSUME NEW route \in Routes \cup {None}, RouteEdited(route) PROVE HookShape /\ AlertsInv'
          BY <1>1, <2>5, RouteEditedStep
    <2> QED BY <1>1, <2>1, <2>2, <2>3, <2>4, <2>5 DEF HookNext
  <1>2. CASE TimerFires
        BY <1>2, TimerFiresStep
  <1>3. CASE \E c \in DOMAIN cases : Checkpoint(c) \/ Expires(c) \/ RetryDue(c)
        BY <1>3, ClocksStep
  <1> QED BY <1>1, <1>2, <1>3

\* So does the drain.
LEMMA DrainSteps == ASSUME AlertsInv, DrainNext PROVE AlertsInv'
  BY ApplySteps, LookAtCasesStep, RefreshedStep, AnsweredStep, EvaluatedStep, RecipientStep,
     DeliveredStep, DrainEndsStep, EvaluateStep, DispatchStep
  DEF DrainNext

LEMMA StepInv == AlertsInv /\ [Next]_vars => AlertsInv'
  <1> SUFFICES ASSUME AlertsInv, [Next]_vars PROVE AlertsInv'
      OBVIOUS
  <1>1. CASE Next
        BY <1>1, HookSteps, DrainSteps, RestartStep DEF Next
  <1>2. CASE UNCHANGED vars
    <2>1. UNCHANGED <<host, up, config, ended, began, over, spent, gateWasDown, gen, tomb, known, member,
                      seen, starts, jobs, fresh, cases, pc, cur, drift, timer, attempts, sent>>
          BY <1>2 DEF vars, observerVars, storeVars, world, registers, turnVars, queueVars, drainVars
    <2>2. WorldOK' /\ RegistersOK' /\ AwaitOK' /\ CurOK' /\ SentOK'
          BY <2>1 DEF AlertsInv, WorldOK, RegistersOK, AwaitOK, CurOK, SentOK, Attempted
    <2> QED BY <2>1, <2>2 DEF AlertsInv
  <1> QED BY <1>1, <1>2

\* Every reachable state satisfies the invariant.
THEOREM Invariance == Spec => []AlertsInv
  BY InitInv, StepInv, PTL DEF Spec

-----------------------------------------------------------------------------
(* What it means *)

(***************************************************************************)
(* The observer's registers, queue and cases have their types, and its     *)
(* queue and its questions their ceilings.                                 *)
(***************************************************************************)
THEOREM TypeCorrect == Spec => []TypeOK
  <1>1. AlertsInv => TypeOK
    <2> SUFFICES ASSUME AlertsInv PROVE TypeOK
        OBVIOUS
    <2>1. Len(jobs) <= MaxQueue /\ \A i \in DOMAIN jobs : jobs[i] \in JobRow
          BY DEF AlertsInv, QueueOK, JobOK
    <2>2. \A c \in DOMAIN cases : /\ c \in PeerTurns /\ cases[c].held \subseteq Text
                                  /\ cases[c].verdict.asked \in 0..MaxAssessments
          BY DEF AlertsInv, CasesOK, CaseOK, ItemOK
    <2>3. \A n \in 0..MaxAssessments : n <= MaxAssessments
          BY AlertsAssumption
    <2>4. {known, member, gateWasDown, fresh, timer} \subseteq BOOLEAN
          BY DEF AlertsInv, RegistersOK
    <2> QED BY <2>1, <2>2, <2>3, <2>4 DEF TypeOK, AlertsInv, WorldOK, RegistersOK
  <1> QED BY <1>1, Invariance, PTL

(***************************************************************************)
(* No finding of a case is sent twice to a Supervisor, whatever fails,     *)
(* stops or is delivered twice in between: an attempt is on disk before it *)
(* is made, and what was attempted is never eligible again (dispatch,      *)
(* delivery.ts).                                                           *)
(***************************************************************************)
THEOREM SentOnce == Spec => []AlertedOnce
  <1>1. AlertsInv => AlertedOnce
        BY DEF AlertsInv, SentOK, AlertedOnce
  <1> QED BY <1>1, Invariance, PTL

(***************************************************************************)
(* No message body outlives a gate that was seen down or the archive of a  *)
(* seat, in a case or in the queue, and nobody buried is taken for known   *)
(* or for a member (onGateDown, onArchived, apply).                        *)
(***************************************************************************)
THEOREM NoBodyOutlivesItsWelcome == Spec => []HeldBodiesAreWanted
  <1>1. AlertsInv => HeldBodiesAreWanted
    <2> SUFFICES ASSUME AlertsInv PROVE HeldBodiesAreWanted
        OBVIOUS
    <2>1. gateWasDown => /\ \A c \in DOMAIN cases : cases[c].held = {}
                         /\ \A i \in DOMAIN jobs : ~jobs[i].text
          BY DEF AlertsInv, NoBodies
    <2>2. \A c \in DOMAIN cases : \A h \in cases[c].held : h.lead = gen[Lead] /\ h.peer = gen[Peer]
          BY DEF AlertsInv, CasesOK, CaseOK, HeldIn
    <2>3. (member => {Lead, Peer} \cap tomb = {}) /\ (known => Lead \notin tomb)
          BY DEF AlertsInv, RegistersOK
    <2> QED BY <2>1, <2>2, <2>3 DEF HeldBodiesAreWanted
  <1> QED BY <1>1, Invariance, PTL

(***************************************************************************)
(* A message that may carry the disposition of a handback was sent in a    *)
(* turn that began after it (the chronology rule of apply).                *)
(***************************************************************************)
THEOREM Chronology == Spec => []RoomIsLater
  <1>1. AlertsInv => RoomIsLater
        BY DEF AlertsInv, CasesOK, CaseOK, LaterIn, RoomIsLater
  <1> QED BY <1>1, Invariance, PTL

\* Only the recipient's answer sends.
LEMMA OnlyRecipientSends == AlertsInv /\ Next => sent' = sent \/ Recipient
  <1> SUFFICES ASSUME AlertsInv, Next PROVE sent' = sent \/ Recipient
      OBVIOUS
  <1>1. CASE DrainNext
        BY <1>1, DeliveredStep, DrainEndsStep
        DEF DrainNext, LookAtCases, Refreshed, Answered, Evaluated, Evaluate, Dispatch, storeVars
  <1>2. CASE Restart
        BY <1>2, RestartStep
  <1>3. CASE \/ HookNext /\ UNCHANGED storeVars
             \/ TimerFires
             \/ \E c \in DOMAIN cases : Checkpoint(c) \/ Expires(c) \/ RetryDue(c)
        BY <1>3, HookSteps DEF HookShape
  <1> QED BY <1>1, <1>2, <1>3 DEF Next

(***************************************************************************)
(* An alert leaves only while the gate is up, for the recipient the route  *)
(* names then, about live seats and a finding that is still open, and      *)
(* after its attempt is on disk, however much moved while the recipient    *)
(* was awaited (dispatch's revalidation after its await).                  *)
(***************************************************************************)
THEOREM AlertsRevalidated == Spec => AlertsAreCurrent
  <1>1. AlertsInv /\ [Next]_vars => [CurrentAlert]_vars
    <2> SUFFICES ASSUME AlertsInv, Next, NEW s \in DOMAIN sent, sent'[s] # sent[s]
                 PROVE  /\ up /\ RouteFor # None /\ RouteFor.mode = "notify" /\ RouteFor.to = s[3]
                        /\ {Lead, Peer, s[3]} \cap tomb = {}
                        /\ s[1] \in DOMAIN cases /\ s[2] \in OpenFindings(cases[s[1]])
                        /\ s[2] \in UNION {r.axes : r \in {r \in attempts' : r.case = s[1] /\ r.to = s[3]}}
        BY DEF CurrentAlert
    <2>1. Recipient
          BY OnlyRecipientSends
    <2>2. /\ up /\ ~RouteMoved /\ s[1] = cur.item /\ s[3] = cur.route.to
          /\ s[2] \in OpenFindings(cases[cur.item]) /\ s[2] \in (Attempted(s[1], s[3]))'
          BY <2>1, RecipientStep
    <2>3. pc = "recipient"
          BY <2>1 DEF Recipient
    <2>4. cur.item \in DOMAIN cases /\ cur.route \in Routes /\ cur.route.mode = "notify"
          BY <2>3 DEF AlertsInv, CurOK, CaseAwaits
    <2>5. RouteFor = cur.route /\ cur.route.to \notin tomb /\ Lead \notin tomb /\ Peer \notin tomb
          BY <2>2 DEF RouteMoved, DeadSeat
    <2>6. RouteFor # None
          BY <2>4, <2>5, ObserverAssumption
    <2>7. s[2] \in UNION {r.axes : r \in {r \in attempts' : r.case = s[1] /\ r.to = s[3]}}
          BY <2>2 DEF Attempted
    <2> QED BY <2>2, <2>4, <2>5, <2>6, <2>7
  <1> QED BY <1>1, Invariance, PTL DEF Spec, AlertsAreCurrent

(***************************************************************************)
(* An answer is taken only for the evidence it was asked about, in the     *)
(* same lives, with nothing queued for the Lead, the gate up and the Lead  *)
(* still routed, whatever the hooks did while the judge was awaited        *)
(* (evaluateCase's basis).                                                 *)
(***************************************************************************)
THEOREM AnswersFit == Spec => AnswersFitTheirEvidence
  <1>1. AlertsInv /\ [Next]_vars => [FittingAnswer]_vars
    <2> DEFINE c == cur.item
               x == cases[c]
               gates == x.verdict.gates
    <2> SUFFICES ASSUME AlertsInv, Next, pc = "ask", c \in DOMAIN cases', ~cases'[c].dirty,
                        cases'[c].verdict.packet # x.verdict.packet
                 PROVE  /\ EvidenceView(cases'[c]) = cur.view
                        /\ cur.eras = <<gen[Lead], gen[Peer]>> /\ ~Pending
                        /\ up /\ RouteFor # None /\ ~DeadSeat
        BY DEF FittingAnswer
    <2>1. c \in DOMAIN cases /\ Items(cases)
          BY CasesItems DEF AlertsInv, CurOK, CaseAwaits
    <2>2. Answered
      <3>1. CASE \/ HookNext /\ UNCHANGED storeVars
                 \/ TimerFires
                 \/ \E d \in DOMAIN cases : Checkpoint(d) \/ Expires(d) \/ RetryDue(d)
            BY <3>1, <2>1, HookSteps DEF HookShape, Mild
      <3>2. CASE Restart
            BY <3>2 DEF Restart
      <3>3. CASE DrainNext
            BY <3>3 DEF DrainNext, ApplyNext, ApplyTick, ApplyArchive, ApplyRestore, ApplyVerify, ApplyTurn,
                        Take, RestoreAnswered, VerifyLeadAnswered, VerifyPeerAnswered, HistoryAnswered,
                        GatherAnswered, LookAtCases, Refreshed, Evaluated, Recipient, Delivered, DrainEnds,
                        Evaluate, Dispatch
      <3> QED BY <3>1, <3>2, <3>3 DEF Next
    <2>3. ~GateDown(jobs, Without(cases, {c}))
      <3>1. GateDown(jobs, Without(cases, {c})) => DOMAIN cases' = DOMAIN cases \ {c}
            BY DEF GateDown, Without, PurgedCases
      <3> QED BY <3>1
    <2>4. cases' # Without(cases, {c})
          BY DEF Without
    <2>5. ItemOK(x)
          BY <2>1 DEF Items
    <2>6. ASSUME NEW y, cases' = Put(cases, c, y) \/ cases' = Kept(cases, c, y)
          PROVE  cases'[c] = y
          BY <2>1, <2>4, <2>6 DEF Put, Kept
    <2>7. /\ up /\ RouteFor # None /\ ~DeadSeat /\ ~BasisStale
          /\ \E v \in Replies(x, gates) : cases'[c] = Judged([x EXCEPT !.verdict = v], gates)
      <3> DEFINE soiled == [x EXCEPT !.dirty = TRUE]
                 e == x.verdict.exhausted \/ x.verdict.asked >= MaxAssessments
                 unanswered == [x EXCEPT !.dirty = FALSE, !.verdict.exhausted = e]
      <3>1. soiled.dirty /\ unanswered.verdict.packet = x.verdict.packet
            BY <2>5 DEF ItemOK, ItemFields, VerdictFields
      <3>2. /\ GateUp
            /\ \/ ~(RouteFor = None \/ DeadSeat) /\ BasisStale /\ cases' = Kept(cases, c, soiled)
               \/ /\ ~(RouteFor = None \/ DeadSeat) /\ ~BasisStale
                  /\ \/ cases' = Put(cases, c, unanswered)
                     \/ \E v \in Replies(x, gates) :
                           cases' = Put(cases, c, Judged([x EXCEPT !.verdict = v], gates))
            BY <2>2, <2>3, <2>4 DEF Answered
      <3> HIDE DEF soiled, unanswered
      <3>3. cases' # Kept(cases, c, soiled) /\ cases' # Put(cases, c, unanswered)
            BY <2>6, <3>1
      <3> HIDE DEF x, gates, c
      <3> QED BY <2>6, <3>2, <3>3 DEF GateUp
    <2>8. EvidenceView(cases'[c]) = EvidenceView(x)
      <3>1. PICK v \in Replies(x, gates) : cases'[c] = Judged([x EXCEPT !.verdict = v], gates)
            BY <2>7
      <3> QED BY <2>5, <3>1, RepliesFade DEF Same
    <2>9. drift = {} /\ ~Pending
          BY <2>7 DEF BasisStale
    <2>10. cur.view = EvidenceView(x) /\ cur.eras = <<gen[Lead], gen[Peer]>>
          BY <2>9 DEF AlertsInv, CurOK
    <2> QED BY <2>7, <2>8, <2>9, <2>10
  <1> QED BY <1>1, Invariance, PTL DEF Spec, AnswersFitTheirEvidence

=============================================================================
