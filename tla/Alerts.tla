------------------------------- MODULE Alerts -------------------------------
(***************************************************************************)
(* What the observer makes of its cases: it asks the judge, records        *)
(* findings, and tells the Supervisor of the route                         *)
(* (plugin/server/supervision/observer.ts from evaluateCase on,            *)
(* assessment.ts, delivery.ts).                                            *)
(*                                                                         *)
(* Every answer is asked of a snapshot and may come back to another world; *)
(* an alert goes to an agent who may be gone when it is sent; and an       *)
(* attempt is on disk before it is made, so that a process that dies in    *)
(* the middle never repeats it.                                            *)
(*                                                                         *)
(* Brief and handback are judged alike and are the one axis "body".  The   *)
(* confidence threshold is fixed: an answer below it is "unknown".  The    *)
(* display-only probe of a recipient is left out.  The judge and the host  *)
(* are not under our control and answer anything of the right shape.       *)
(***************************************************************************)
EXTENDS Observer

CONSTANTS
    MaxAssessments,         \* MAX_ASSESSMENTS
    MaxAttempts             \* MAX_ATTEMPTS_PER_CASE

ASSUME AlertsAssumption == {MaxAssessments, MaxAttempts} \subseteq Nat \ {0}

VARIABLES
    attempts,       \* the attempts on disk: [case, axes, to, state]
    sent            \* alerts handed to the host, each axis counted on its own

storeVars == <<attempts, sent>>
vars == <<observerVars, storeVars>>

Axes == {"body", "handling"}

-----------------------------------------------------------------------------
\* Judging: axisGates, buildQuestions, judge and applyJudgment.

AxisGates(item) ==
    [body |-> HoldsHandback(item), handling |-> HoldsHandback(item) /\ ~item.gap /\ ~item.unsure]

OpenFindings(item) == {a \in Axes : item.verdict.findings[a] = "open"}

Questions(item, gates) ==
    LET plan == {q \in Axes : gates[q]} \ (IF item.verdict.body # None THEN {"body"} ELSE {})
        links == (IF "handling" \in plan THEN {"link"} ELSE {})
                 \cup (IF "body" \in OpenFindings(item) THEN {"fix"} ELSE {})
    IN  plan \cup (IF item.room # <<>> THEN links ELSE {})

EvidenceView(item) == [held |-> item.held, room |-> item.room, unsure |-> item.unsure, gap |-> item.gap]

Packet(item, gates) == <<EvidenceView(item), OpenFindings(item), Questions(item, gates)>>


\* Append order of two confirmed messages.
Later(item, t, u) ==
    \E i, j \in DOMAIN item.room : i > j /\ item.room[i] = t /\ item.room[j] = u

HandlingStatus(v, gates) ==
    CASE ~gates.handling                                         -> "unjudged"
      [] v.handling = "none_required"                            -> "clean"
      [] v.handling = "pending"                                  -> "open"
      [] v.handling = "handled" /\ v.link # None                 -> "clean"
      [] v.handling = "drift" /\ v.link # None                   -> "gap"
      [] OTHER                                                   -> "unjudged"

Judged(item, gates) ==
    LET v == item.verdict
        status == HandlingStatus(v, gates)
        disposition == IF v.handling = "none_required" THEN None ELSE v.link
        body == IF v.findings["body"] = "none" /\ gates.body /\ v.body = "gap" THEN "open"
                ELSE v.findings["body"]
        new == v.findings["handling"] = "none" /\ status = "gap"
        mishandled == IF new THEN disposition ELSE v.mishandled
        handling == IF new THEN "open" ELSE v.findings["handling"]
        repaired == /\ handling = "open" /\ status = "clean" /\ disposition # None
                    /\ Later(item, disposition, mishandled)
    IN  [item EXCEPT
            !.dirty = FALSE,
            !.verdict = [v EXCEPT
                !.status = status, !.gates = gates, !.mishandled = mishandled,
                !.findings = [a \in Axes |->
                    IF a = "body" THEN IF body = "open" /\ v.fix # None THEN "resolved" ELSE body
                    ELSE IF repaired THEN "resolved" ELSE handling]]]

\* What the judge may answer to the questions asked, over what is held.  A
\* body is found wanting or not; a claim that names no listed message is
\* worth as much as "unknown".
Reply(item, gates, body, claim, fix) ==
    [item.verdict EXCEPT !.body = body, !.handling = claim[1], !.link = claim[2], !.fix = fix,
                         !.packet = Packet(item, gates)]

Replies(item, gates) ==
    LET q == Questions(item, gates)
        messages == {item.room[i] : i \in DOMAIN item.room}
        claims == ({"none_required", "pending", "unknown"} \X {None})
                  \cup (IF "link" \in q THEN {"handled", "drift"} \X messages ELSE {})
    IN  { Reply(item, gates, b, claim, f) :
            b \in IF "body" \in q THEN {"gap", "clean"} ELSE {item.verdict.body},
            claim \in IF "handling" \in q THEN claims ELSE {<<item.verdict.handling, None>>},
            f \in IF "fix" \in q THEN messages \cup {None} ELSE {None} }

-----------------------------------------------------------------------------
\* Closing.

\* Mutant: an attempt of unknown outcome does not count.
AttemptedForSure(c, to) ==
    UNION {r.axes : r \in {r \in attempts : r.case = c /\ r.to = to /\ r.state = "accepted"}}

Attempted(c, to) == UNION {r.axes : r \in {r \in attempts : r.case = c /\ r.to = to}}

DeliverySettled(c, item) ==
    \/ item.verdict.mode # "notify"
    \/ item.verdict.delivery \in {"blocked", "canceled"}
    \/ RouteFor = None
    \/ OpenFindings(item) \subseteq Attempted(c, RouteFor.to)

\* settle: nothing more can change the case's outcome or its delivery.
Settled(c, item) ==
    LET v == item.verdict
        bodiesDone == ~v.gates.body \/ v.body # None
    IN  /\ v.gates # None
        /\ IF OpenFindings(item) = {}
           THEN \/ bodiesDone /\ (v.status = "clean" \/ ~v.gates.handling)
                \/ v.exhausted
           ELSE (v.status = "clean" \/ v.exhausted) /\ item.late /\ DeliverySettled(c, item)

Kept(cs, c, item) == [cs EXCEPT ![c] = item]

Put(cs, c, item) == IF Settled(c, item) THEN Without(cs, {c}) ELSE Kept(cs, c, item)

-----------------------------------------------------------------------------
\* The drain evaluates.

LookAtCases ==
    /\ pc = "drain" /\ jobs = <<>>
    /\ fresh' = TRUE
    /\ pc' = "evaluate" /\ cur' = [left |-> DOMAIN cases]
    /\ UNCHANGED <<world, registers, turnVars, jobs, cases, drift, timer, storeVars>>

Dirties == {c \in cur.left : cases[c].dirty}

Proceed(phase, c) == pc' = phase /\ cur' = [left |-> cur.left \ {c}] /\ drift' = {}

DeadSeat == Lead \in tomb \/ Peer \in tomb

\* Mutant: what is queued for the Lead is not looked at.
BasisIgnoresQueue == drift # {}

\* What moved since the basis of the evaluation was sampled.
BasisStale == drift # {} \/ Pending

Evaluate(c) ==
    LET closing == Without(cases, {c})
        item == [cases[c] EXCEPT !.verdict.mode = RouteFor.mode]
    IN  /\ pc = "evaluate" /\ fresh /\ c \in Dirties
        /\ \/ /\ RouteFor = None
              /\ cases' = closing /\ Proceed("evaluate", c)
              /\ UNCHANGED <<gateWasDown, jobs, starts>>
           \/ /\ RouteFor # None
              /\ GateDown(jobs, closing) /\ Proceed("evaluate", c)
           \/ /\ RouteFor # None
              /\ GateUp
              /\ IF cases[c].expired \/ DeadSeat
                 THEN cases' = closing /\ Proceed("evaluate", c)
                 ELSE /\ cases' = Kept(cases, c, item)
                      /\ drift' = {}
                      /\ pc' = "refresh"
                      /\ cur' = [item |-> c, left |-> cur.left \ {c}, saw |-> host]
              /\ UNCHANGED <<jobs, starts>>
        /\ UNCHANGED <<world, gen, tomb, known, member, seen, fresh, timer, storeVars>>

\* With both seats live: nothing to ask, no asking any more, or a question.
Assess(c, item) ==
    LET gates == AxisGates(item)
        v == item.verdict
        same == Questions(item, gates) = {} \/ Packet(item, gates) = v.packet
        worn == v.asked >= MaxAssessments
    IN  IF same \/ worn
        THEN /\ cases' = Put(cases, c, Judged([item EXCEPT !.verdict.exhausted = @ \/ ~same], gates))
             /\ Proceed("evaluate", c)
        ELSE /\ cases' = Kept(cases, c, [item EXCEPT !.verdict.asked = @ + 1, !.verdict.gates = gates])
             /\ pc' = "ask"
             /\ cur' = [item |-> c, left |-> cur.left, view |-> EvidenceView(item),
                        eras |-> <<gen[Lead], gen[Peer]>>]
             /\ UNCHANGED drift

\* Lead and Peer answer.
Refreshed ==
    LET c == cur.item
        item == cases[c]
        closing == Without(cases, {c})
    IN  /\ pc = "refresh"
        /\ \/ /\ ~DeadSeat /\ GateDown(jobs, closing)
              /\ Proceed("evaluate", c)
           \/ \E l \in Answers(Lead), p \in Answers(Peer) :
                 /\ DeadSeat \/ "failed" \in {l, p} \/ up
                 /\ gateWasDown' = (gateWasDown /\ (DeadSeat \/ "failed" \in {l, p}))
                 /\ IF "failed" \in {l, p} THEN cases' = cases /\ Proceed("evaluate", c)
                    ELSE IF DeadSeat \/ RouteFor = None THEN cases' = closing /\ Proceed("evaluate", c)
                    ELSE IF BasisStale
                         THEN cases' = Kept(cases, c, [item EXCEPT !.dirty = TRUE]) /\ Proceed("evaluate", c)
                    ELSE IF "gone" \in {l, p} \/ item.paused THEN cases' = closing /\ Proceed("evaluate", c)
                    ELSE Assess(c, item)
                 /\ UNCHANGED <<jobs, starts>>
        /\ UNCHANGED <<world, gen, tomb, known, member, seen, fresh, timer, storeVars>>

\* The judge answers, or fails; a credential the guard found closes the case.
Answered ==
    LET c == cur.item
        item == cases[c]
        gates == item.verdict.gates
        closing == Without(cases, {c})
        unanswered == [item EXCEPT !.dirty = FALSE,
                          !.verdict.exhausted = @ \/ item.verdict.asked >= MaxAssessments]
    IN  /\ pc = "ask"
        /\ \/ GateDown(jobs, closing)
           \/ /\ GateUp
              /\ IF RouteFor = None \/ DeadSeat THEN cases' = closing
                 ELSE IF BasisStale THEN cases' = Kept(cases, c, [item EXCEPT !.dirty = TRUE])
                 ELSE \/ cases' = closing
                      \/ cases' = Put(cases, c, unanswered)
                      \/ \E v \in Replies(item, gates) :
                            cases' = Put(cases, c, Judged([item EXCEPT !.verdict = v], gates))
              /\ UNCHANGED <<jobs, starts>>
        /\ Proceed("evaluate", c)
        /\ UNCHANGED <<world, gen, tomb, known, member, seen, fresh, timer, storeVars>>

Evaluated ==
    /\ pc = "evaluate"
    /\ ~fresh \/ Dirties = {}
    /\ IF fresh THEN pc' = "pass" /\ cur' = [left |-> DOMAIN cases]
       ELSE pc' = "drain" /\ cur' = Idle
    /\ UNCHANGED <<world, registers, turnVars, queueVars, cases, drift, timer, storeVars>>

-----------------------------------------------------------------------------
\* The drain tells the Supervisor.

Eligible(c, item, to) ==
    {a \in OpenFindings(item) \ Attempted(c, to) : a = "handling" \/ item.late}

Delivery(item, state, to) ==
    [item EXCEPT !.verdict.delivery = state, !.verdict.to = to,
                 !.verdict.waiting = @ \/ state = "deferred"]

MayDispatch(item) ==
    LET v == item.verdict
    IN  /\ RouteFor.mode = "notify"
        /\ ~(v.delivery = "blocked" /\ v.to = RouteFor.to)
        /\ ~v.waiting

Dispatch(c) ==
    LET item == [cases[c] EXCEPT !.verdict.mode = RouteFor.mode]
        axes == Eligible(c, item, RouteFor.to)
        Leave(i) == cases' = Put(cases, c, i) /\ Proceed("pass", c)
    IN  /\ pc = "pass" /\ c \in cur.left
        /\ IF DeadSeat \/ RouteFor = None
           THEN /\ cases' = IF DeadSeat THEN cases ELSE Without(cases, {c})
                /\ Proceed("pass", c)
                /\ UNCHANGED <<gateWasDown, jobs, starts>>
           ELSE IF ~MayDispatch(item)
           THEN Leave(item) /\ UNCHANGED <<gateWasDown, jobs, starts>>
           ELSE \/ GateDown(jobs, Put(cases, c, item)) /\ Proceed("pass", c)
                \/ /\ GateUp
                   /\ IF axes = {} THEN Leave(item)
                      ELSE IF RouteFor.to \in tomb THEN Leave(Delivery(item, "blocked", RouteFor.to))
                      ELSE /\ cases' = Kept(cases, c, item)
                           /\ pc' = "recipient" /\ drift' = {}
                           /\ cur' = [item |-> c, left |-> cur.left \ {c}, route |-> RouteFor,
                                      axes |-> axes, saw |-> host]
                   /\ UNCHANGED <<jobs, starts>>
        /\ UNCHANGED <<world, gen, tomb, known, member, seen, fresh, timer, storeVars>>

\* A reservation is on disk, or there is no alert.
Reserve(c, axes, to) ==
    /\ Cardinality({r \in attempts : r.case = c}) < MaxAttempts
    /\ attempts' = attempts \cup {[case |-> c, axes |-> axes, to |-> to, state |-> "reserved"]}

\* Mutant: only the recipient is looked at again.
RouteKept == cur.route.to \in tomb

\* The route names another recipient now, or somebody concerned is gone.
RouteMoved == RouteFor # cur.route \/ cur.route.to \in tomb \/ DeadSeat

\* The recipient answers.
Recipient ==
    LET c == cur.item
        to == cur.route.to
        item == cases[c]
        still == Eligible(c, item, to) \cap cur.axes
        Leave(i) == cases' = Put(cases, c, i) /\ Proceed("pass", c) /\ UNCHANGED storeVars
        Send == /\ Reserve(c, still, to)
                /\ sent' = [s \in DOMAIN sent |->
                              IF s[1] = c /\ s[2] \in still /\ s[3] = to THEN sent[s] + 1 ELSE sent[s]]
                /\ cases' = Kept(cases, c, Delivery(item, "reserved", to))
                /\ pc' = "send" /\ drift' = {}
                /\ cur' = [item |-> c, left |-> cur.left, axes |-> still, to |-> to]
    IN  /\ pc = "recipient"
        /\ \/ /\ "failed" \in Answers(to)
              /\ Leave(Delivery(item, "deferred", to))
              /\ UNCHANGED <<gateWasDown, jobs, starts>>
           \/ /\ GateDown(jobs, Put(cases, c, item))
              /\ Proceed("pass", c) /\ UNCHANGED storeVars
           \/ /\ GateUp
              /\ \E o \in (Answers(to) \ {"failed"}) \cup {"running"} :
                    IF RouteMoved THEN Leave(Delivery(item, "canceled", to))
                    ELSE IF o = "gone" THEN Leave(Delivery(item, "blocked", to))
                    ELSE IF o = "running" THEN Leave(Delivery(item, "deferred", to))
                    ELSE IF still = {} THEN Leave(item)
                    ELSE Send \/ Leave(Delivery(item, "blocked", to))
              /\ UNCHANGED <<jobs, starts>>
        /\ UNCHANGED <<world, gen, tomb, known, member, seen, fresh, timer>>

\* The send returns or times out; what it became may not reach the disk.
Delivered ==
    LET c == cur.item
        row(state) == [case |-> c, axes |-> cur.axes, to |-> cur.to, state |-> state]
    IN  /\ pc = "send"
        /\ \E o \in {"accepted", "uncertain"}, written \in BOOLEAN :
              /\ attempts' = IF written THEN (attempts \ {row("reserved")}) \cup {row(o)} ELSE attempts
              /\ cases' = Put(cases, c, Delivery(cases[c], o, cur.to))
        /\ Proceed("pass", c)
        /\ UNCHANGED <<world, registers, turnVars, queueVars, timer, sent>>

DrainEnds ==
    /\ pc = "pass" /\ cur.left = {}
    /\ IF jobs # <<>> THEN pc' = "drain" /\ UNCHANGED timer
       ELSE pc' = "idle" /\ timer' = (cases # <<>>)
    /\ cur' = Idle
    /\ UNCHANGED <<world, registers, turnVars, queueVars, cases, drift, storeVars>>

-----------------------------------------------------------------------------
\* Clocks, and the end of a process.

Checkpoint(c) ==
    /\ Yielded /\ c \in DOMAIN cases /\ ~cases[c].late
    /\ cases' = [cases EXCEPT ![c].late = TRUE]
    /\ UNCHANGED <<world, registers, turnVars, queueVars, drainVars, storeVars>>

Expires(c) ==
    /\ Yielded /\ c \in DOMAIN cases /\ cases[c].late /\ ~cases[c].expired
    /\ cases' = [cases EXCEPT ![c].expired = TRUE]
    /\ UNCHANGED <<world, registers, turnVars, queueVars, drainVars, storeVars>>

RetryDue(c) ==
    /\ Yielded /\ c \in DOMAIN cases /\ cases[c].verdict.waiting
    /\ cases' = [cases EXCEPT ![c].verdict.waiting = FALSE]
    /\ UNCHANGED <<world, registers, turnVars, queueVars, drainVars, storeVars>>

\* Mutant: nobody waits for the end of a case.
DueForgetsEnd(item) == \/ item.late /\ ~item.elapsed
                       \/ item.verdict.delivery = "deferred" /\ ~item.verdict.waiting

\* A time the scheduler waits for has come.
Due(item) == \/ item.late /\ ~item.elapsed
             \/ item.verdict.delivery = "deferred" /\ ~item.verdict.waiting
             \/ item.expired

TimerFires ==
    /\ Yielded /\ timer
    /\ \E c \in DOMAIN cases : Due(cases[c])
    /\ timer' = FALSE
    /\ Enqueue(<<Job("tick", None, FALSE)>>)
    /\ UNCHANGED <<world, registers, turnVars, cases, cur, drift, storeVars>>

\* The process stops anywhere and starts anew: cases, tombstones and dedupe
\* windows are gone, the attempts are what the disk has.
Restart ==
    /\ Yielded /\ Disturb
    /\ gateWasDown' = FALSE /\ gen' = [a \in Agents |-> 0] /\ tomb' = {}
    /\ known' = FALSE /\ member' = FALSE
    /\ seen' = {} /\ starts' = <<>>
    /\ jobs' = <<>> /\ fresh' = TRUE /\ cases' = <<>>
    /\ pc' = "idle" /\ cur' = Idle /\ drift' = {} /\ timer' = FALSE
    /\ attempts' = {[r EXCEPT !.state = IF @ = "reserved" THEN "uncertain" ELSE @] : r \in attempts}
    /\ UNCHANGED <<host, up, config, ended, began, over, sent>>

-----------------------------------------------------------------------------
\* The system.

Init ==
    /\ host = Agents /\ up = TRUE /\ config \in Routes
    /\ ended = {} /\ began = [t \in LeadTurns |-> None] /\ over = {} /\ spent = 0
    /\ gateWasDown = FALSE /\ gen = [a \in Agents |-> 0] /\ tomb = {}
    /\ known = FALSE /\ member = FALSE
    /\ seen = {} /\ starts = <<>>
    /\ jobs = <<>> /\ fresh = TRUE /\ cases = <<>>
    /\ pc = "idle" /\ cur = Idle /\ drift = {} /\ timer = FALSE
    /\ attempts = {} /\ sent = [s \in PeerTurns \X Axes \X Supervisors |-> 0]

DrainNext == \/ ApplyNext /\ UNCHANGED storeVars
             \/ LookAtCases \/ Refreshed \/ Answered \/ Evaluated
             \/ Recipient \/ Delivered \/ DrainEnds
             \/ \E c \in DOMAIN cases : Evaluate(c) \/ Dispatch(c)

Next == \/ HookNext /\ UNCHANGED storeVars
        \/ DrainNext \/ TimerFires \/ Restart
        \/ \E c \in DOMAIN cases : Checkpoint(c) \/ Expires(c) \/ RetryDue(c)

Spec == Init /\ [][Next]_vars
Fairness == /\ WF_vars(DrainNext) /\ WF_vars(TimerFires)
            /\ \A c \in PeerTurns : SF_vars(Checkpoint(c)) /\ SF_vars(Expires(c))

-----------------------------------------------------------------------------
\* Properties.

TypeOK ==
    /\ host \subseteq Agents /\ up \in BOOLEAN /\ config \in Routes \cup {None}
    /\ tomb \subseteq Agents /\ gen \in [Agents -> Nat]
    /\ {known, member, gateWasDown, fresh, timer} \subseteq BOOLEAN
    /\ seen \subseteq Turns /\ Len(jobs) <= MaxQueue /\ \A i \in DOMAIN jobs : jobs[i] \in JobRow
    /\ DOMAIN cases \subseteq PeerTurns
    /\ \A c \in DOMAIN cases : cases[c].held \subseteq Text /\ cases[c].verdict.asked <= MaxAssessments
    /\ pc \in Awaits \cup {"idle", "drain", "evaluate", "pass"}
    /\ (pc = "idle" => jobs = <<>>)

\* Each finding of a case is sent to a Supervisor at most once, whatever
\* fails, stops or is delivered twice in between (delivery.ts: "each finding
\* is delivered at most once to a recipient, across restarts").
AlertedOnce == \A s \in DOMAIN sent : sent[s] <= 1

\* Once the gate was seen down no open case and no queued capture holds a
\* message body (onGateDown).  A body that a case holds was captured in the
\* lives of Lead and Peer that are still going on: neither a queued turn nor
\* a slow refresh carries one over an archive, even if the seat is back.  Nor
\* does membership survive.
HeldBodiesAreWanted ==
    /\ gateWasDown => /\ \A c \in DOMAIN cases : cases[c].held = {}
                      /\ \A i \in DOMAIN jobs : ~jobs[i].text
    /\ \A c \in DOMAIN cases : \A h \in cases[c].held : h.lead = gen[Lead] /\ h.peer = gen[Peer]
    /\ member => {Lead, Peer} \cap tomb = {}
    /\ known => Lead \notin tomb

\* A message that may carry the disposition of a handback was sent in a turn
\* that really began after that handback (the chronology rule of apply).
RoomIsLater ==
    \A c \in DOMAIN cases : \A i \in DOMAIN cases[c].room :
        c \in began[cases[c].room[i]]

\* Answers are taken only for the evidence they were asked about, in the
\* same lives, with nothing queued for the Lead, the gate up and the Lead
\* still routed (the evaluation basis).
FittingAnswer ==
    (pc = "ask" /\ cur.item \in DOMAIN cases' /\ ~cases'[cur.item].dirty
     /\ cases'[cur.item].verdict.packet # cases[cur.item].verdict.packet)
    => /\ EvidenceView(cases'[cur.item]) = cur.view
       /\ cur.eras = <<gen[Lead], gen[Peer]>> /\ ~Pending
       /\ up /\ RouteFor # None /\ ~DeadSeat

AnswersFitTheirEvidence == [][FittingAnswer]_vars

\* An alert leaves only while the gate is up, for the recipient the Lead's
\* route names then, about live seats and a finding that is still open, and
\* after its attempt is on disk (dispatch's revalidation after its await).
CurrentAlert ==
    \A s \in DOMAIN sent : sent'[s] # sent[s] =>
        /\ up /\ RouteFor # None /\ RouteFor.mode = "notify" /\ RouteFor.to = s[3]
        /\ {Lead, Peer, s[3]} \cap tomb = {}
        /\ s[1] \in DOMAIN cases /\ s[2] \in OpenFindings(cases[s[1]])
        /\ s[2] \in UNION {r.axes : r \in {r \in attempts' : r.case = s[1] /\ r.to = s[3]}}

AlertsAreCurrent == [][CurrentAlert]_vars

\* Every case closes: no await, deferral or lost timer keeps one open for
\* ever.
EveryCaseCloses == \A c \in PeerTurns : c \in DOMAIN cases ~> c \notin DOMAIN cases
=============================================================================
