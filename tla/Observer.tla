------------------------------ MODULE Observer ------------------------------
(***************************************************************************)
(* What the supervision observer knows of one Lead and its Peer            *)
(* (plugin/server/supervision/observer.ts: the hooks, the queue, the gate, *)
(* and apply).                                                             *)
(*                                                                         *)
(* The observer is one thread.  Host hooks run to their end and put jobs   *)
(* on a bounded queue; one drain takes the jobs in order, and gives way to *)
(* hooks only where it awaits the host.  An action is one stretch between  *)
(* two awaits.  Files change without telling anyone.                       *)
(*                                                                         *)
(* Message bodies are what must not outlive a gate that is down or an      *)
(* archived seat: a case holds a set of them, each marked with the archive *)
(* generations it was captured under.  A Lead turn has one send.  Counters *)
(* that are only compared for "moved since" are the set drift.  The        *)
(* metadata ring, diagnostics and the reasons shown by the Manager decide  *)
(* nothing here and are left out, as are the ceilings on open cases and    *)
(* packet size, and the ageing of dedupe windows.                          *)
(***************************************************************************)
EXTENDS Integers, Sequences, FiniteSets

CONSTANTS
    Lead, Peer, Supervisors,        \* the agents
    PeerTurns, LeadTurns,           \* turns that may happen
    Sends,                          \* the send of each Lead turn: [to, accepted]
    Anchors,                        \* Peer turns whose handback, if there is one, opens a Lead turn
    History,                        \* turns whose hook comes without a timeline
    Routes,                         \* what the configuration may say of the Lead
    None,
    MaxQueue,                       \* MAX_QUEUE
    MaxSpent                        \* bound: disturbances of the story

Agents == {Lead, Peer} \cup Supervisors
Turns == PeerTurns \cup LeadTurns

ASSUME ObserverAssumption ==
    /\ Lead # Peer /\ {Lead, Peer} \cap Supervisors = {}
    /\ PeerTurns \cap LeadTurns = {} /\ History \subseteq Turns
    /\ Sends \in [LeadTurns -> [to : {Peer} \cup Supervisors, accepted : BOOLEAN]]
    /\ Anchors \in [LeadTurns -> SUBSET PeerTurns]
    /\ Routes \subseteq [mode : {"shadow", "notify"}, to : Supervisors]
    /\ None \notin Routes /\ \A ts \in SUBSET PeerTurns : ts # None
    /\ MaxQueue \in Nat \ {0} /\ MaxSpent \in Nat

VARIABLES
    host,           \* the seats the host has, archived ones included
    up, config,     \* the gate's files and the route's, as they are on disk
    ended, began,   \* Peer turns that ended; those each Lead turn began after
    over,           \* Lead turns that ended
    spent,          \* disturbances so far
    gateWasDown, gen, tomb, known, member,      \* the observer's registers
    seen, starts,   \* captures taken; Lead starts on record
    jobs, fresh,    \* the queue; nothing was queued since the last look
    cases,          \* open cases
    pc, cur, drift, timer       \* the drain: where it is, its locals, what moved

world == <<host, up, config, ended, began, over, spent>>
registers == <<gateWasDown, gen, tomb, known, member>>
turnVars == <<seen, starts>>
queueVars == <<jobs, fresh>>
drainVars == <<pc, cur, drift, timer>>
observerVars == <<world, registers, turnVars, queueVars, cases, drainVars>>

Handback == "handback"

Text == [of : {Handback} \cup LeadTurns, lead : Nat, peer : Nat]

\* What is judged of a case and done about it, before anything is.
Unjudged ==
    [asked |-> 0, packet |-> None, gates |-> None, body |-> None, handling |-> None,
     link |-> None, fix |-> None, status |-> "unjudged", exhausted |-> FALSE,
     findings |-> [a \in {"body", "handling"} |-> "none"], mishandled |-> None,
     mode |-> None, delivery |-> "none", to |-> None, waiting |-> FALSE]

JobKinds == {"tick", "archive", "restore", "verify", "turn"}

JobRow == [kind : JobKinds, of : Agents \cup Turns \cup {None}, ours : BOOLEAN,
           lead : Nat, peer : Nat, text : BOOLEAN, purged : BOOLEAN,
           after : {None} \cup SUBSET PeerTurns, overlap : BOOLEAN, anchors : SUBSET PeerTurns]

Job(kind, of, ours) ==
    [kind |-> kind, of |-> of, ours |-> ours, lead |-> gen[Lead], peer |-> gen[Peer],
     text |-> FALSE, purged |-> FALSE, after |-> None, overlap |-> FALSE,
     anchors |-> {}]

Awaits == {"restore", "verify lead", "verify peer", "history", "gather",
           "refresh", "ask", "recipient", "send"}

\* Hooks, timers and files get their turn only when the drain has none.
Yielded == pc \in Awaits \cup {"idle"}

Disturb == spent < MaxSpent /\ spent' = spent + 1

-----------------------------------------------------------------------------
\* Routes and registers.

RouteFor == IF known THEN config ELSE None
RoutableLead == config # None
CandidateLead == Lead \notin tomb /\ RoutableLead

Pending == \E i \in DOMAIN jobs : jobs[i].ours

\* Mutant: the bodies stay.
KeepsBodies(item) == item

Cleared(item) == [item EXCEPT !.held = {}]

Dirty(cs) == [c \in DOMAIN cs |-> [cs[c] EXCEPT !.dirty = TRUE]]

Gapped(cs) == [c \in DOMAIN cs |-> [cs[c] EXCEPT !.gap = TRUE, !.dirty = TRUE]]

Without(cs, gone) == [c \in DOMAIN cs \ gone |-> cs[c]]

HoldsHandback(item) == \E h \in item.held : h.of = Handback

-----------------------------------------------------------------------------
\* The queue.

Fits(q, js) == SubSeq(js, 1, IF Len(js) < MaxQueue - Len(q) THEN Len(js) ELSE MaxQueue - Len(q))

Enqueue(js) ==
    /\ jobs' = jobs \o Fits(jobs, js)
    /\ fresh' = (fresh /\ js = <<>>)
    /\ pc' = IF pc = "idle" /\ js # <<>> THEN "drain" ELSE pc

\* A dropped Lead turn is a gap in every case, and moves their evidence.
Lost(js) == Fits(jobs, js) # js

-----------------------------------------------------------------------------
\* The gate.  Whoever sees it down first purges for everyone.

ScrubbedJobs(q) ==
    [i \in DOMAIN q |-> IF q[i].kind = "turn" THEN [q[i] EXCEPT !.text = FALSE, !.purged = TRUE]
                        ELSE q[i]]

PurgedCases(cs) ==
    [c \in DOMAIN cs |-> [Cleared(cs[c]) EXCEPT !.paused = TRUE, !.dirty = TRUE]]

\* What moved while the drain awaits something that rests on it.
Moved(what) ==
    drift' = IF pc \in {"history", "gather", "refresh", "ask"} THEN drift \cup what ELSE {}

\* observeGate finding it up, and finding it down over queue q and cases cs.
GateUp == up /\ gateWasDown' = FALSE

GateDown(q, cs) ==
    /\ ~up
    /\ gateWasDown' = TRUE
    /\ jobs' = IF gateWasDown THEN q ELSE ScrubbedJobs(q)
    /\ cases' = IF gateWasDown THEN cs ELSE PurgedCases(cs)
    /\ starts' = IF gateWasDown THEN starts ELSE <<>>

\* The same from a hook.
HookGateDown == GateDown(jobs, cases) /\ Moved(IF gateWasDown THEN {} ELSE {"purge", "evidence"})

-----------------------------------------------------------------------------
\* Hooks.

\* The host archives a seat; onArchived.
Archived(a) ==
    LET ours == a = Lead \/ (a = Peer /\ member)
        touched == a \in {Lead, Peer}
        js == <<Job("archive", a, ours)>>
    IN  /\ Yielded /\ Disturb
        /\ a \in host
        /\ host' = host \ {a}
        /\ gen' = [gen EXCEPT ![a] = @ + 1]
        /\ tomb' = tomb \cup {a}
        /\ known' = (known /\ a # Lead)
        /\ member' = (member /\ ~touched)
        /\ Enqueue(js)
        /\ cases' = IF touched THEN Dirty([c \in DOMAIN cases |-> Cleared(cases[c])]) ELSE cases
        /\ Moved(IF touched THEN {"gen", "evidence"} ELSE {})
        /\ starts' = IF a = Lead THEN <<>> ELSE starts
        /\ UNCHANGED <<up, config, ended, began, over, gateWasDown, seen, cur, timer>>

\* The host brings a seat back and reports it; onCreated.
Created(a) ==
    LET js == CASE a = Lead /\ Lead \in tomb /\ RoutableLead -> <<Job("restore", Lead, TRUE)>>
                [] a = Peer /\ CandidateLead                 -> <<Job("verify", Peer, TRUE)>>
                [] OTHER                                     -> <<>>
    IN  /\ Yielded
        /\ a \in {Lead, Peer} /\ a \notin host
        /\ host' = host \cup {a}
        /\ known' = (known \/ (a = Lead /\ Lead \notin tomb))
        /\ \/ HookGateDown /\ UNCHANGED <<fresh, pc>>
           \/ GateUp /\ Enqueue(js) /\ UNCHANGED <<cases, starts, drift>>
        /\ UNCHANGED <<up, config, ended, began, over, spent, gen, tomb, member, seen, cur, timer>>

\* A Lead turn begins; onStart keeps the first start it sees of a turn and
\* marks turns that overlap.
Start(t) ==
    LET open == {u \in DOMAIN starts : u # t}
        entry == [after |-> ended, overlap |-> open # {}]
    IN  /\ Yielded
        /\ Lead \in host /\ began[t] = None
        /\ began' = [began EXCEPT ![t] = ended]
        /\ \/ /\ HookGateDown
              /\ UNCHANGED known
           \/ /\ GateUp
              /\ known' = (known \/ Lead \notin tomb)
              /\ starts' = IF Lead \in tomb \/ config = None THEN starts
                           ELSE [u \in DOMAIN starts \cup {t} |->
                                   IF u = t THEN entry ELSE [starts[u] EXCEPT !.overlap = TRUE]]
              /\ UNCHANGED <<jobs, cases, drift>>
        /\ UNCHANGED <<host, up, config, ended, over, spent, gen, tomb, member, seen, fresh,
                       pc, cur, timer>>

VerifyFirst == Peer \in tomb \/ ~member

PeerTurnJobs(c) ==
    IF ~CandidateLead THEN <<>>
    ELSE (IF VerifyFirst THEN <<Job("verify", Peer, TRUE)>> ELSE <<>>)
         \o (IF Peer \in tomb \/ c \in seen THEN <<>>
             ELSE <<[Job("turn", c, TRUE) EXCEPT !.text = c \notin History]>>)

\* A Peer turn ends, or its hook is delivered again; onTurn.
PeerTurnEnds(c) ==
    /\ Yielded
    /\ Peer \in host
    /\ c \notin ended \/ spent > 0
    /\ ended' = ended \cup {c}
    /\ \/ HookGateDown /\ UNCHANGED <<fresh, pc, seen>>
       \/ /\ GateUp
          /\ Enqueue(PeerTurnJobs(c))
          /\ seen' = IF CandidateLead /\ Peer \notin tomb THEN seen \cup {c} ELSE seen
          /\ UNCHANGED <<cases, starts, drift>>
    /\ UNCHANGED <<host, up, config, began, over, spent, gen, tomb, known, member, cur, timer>>

LeadTurnJob(t) ==
    [Job("turn", t, TRUE) EXCEPT !.text = t \notin History,
        !.after = IF t \in DOMAIN starts THEN starts[t].after ELSE None,
        !.overlap = t \in DOMAIN starts /\ starts[t].overlap,
        !.anchors = Anchors[t] \cap began[t]]

\* A Lead turn ends; onTurn.
LeadTurnEnds(t) ==
    LET capture == Lead \notin tomb /\ config # None
        js == CASE Lead \in tomb /\ RoutableLead -> <<Job("restore", Lead, TRUE)>>
                [] capture                       -> <<LeadTurnJob(t)>>
                [] OTHER                         -> <<>>
    IN  /\ Yielded
        /\ Lead \in host /\ began[t] # None /\ t \notin over
        /\ over' = over \cup {t}
        /\ \/ HookGateDown /\ UNCHANGED <<fresh, pc, seen, known>>
           \/ /\ GateUp
              /\ known' = (known \/ Lead \notin tomb)
              /\ Enqueue(js)
              /\ seen' = IF capture THEN seen \cup {t} ELSE seen
              /\ starts' = IF capture THEN [u \in DOMAIN starts \ {t} |-> starts[u]] ELSE starts
              /\ cases' = IF capture /\ Lost(js) THEN Gapped(cases) ELSE cases
              /\ Moved(IF capture /\ Lost(js) THEN {"evidence"} ELSE {})
        /\ UNCHANGED <<host, up, config, ended, began, spent, gen, tomb, member, cur, timer>>

\* The Manager asks for the view; shadow reads the gate like everyone else.
View ==
    /\ Yielded
    /\ \/ HookGateDown
       \/ GateUp /\ UNCHANGED <<jobs, cases, starts, drift>>
    /\ UNCHANGED <<world, gen, tomb, known, member, seen, fresh, pc, cur, timer>>

\* Somebody edits the files: key, provider or switch; the route.  Undoing a
\* disturbance is free.
GateFlips ==
    /\ Yielded
    /\ IF up THEN Disturb ELSE UNCHANGED spent
    /\ up' = ~up
    /\ Moved({"gate"})
    /\ UNCHANGED <<host, config, ended, began, over, registers, turnVars, queueVars, cases,
                   pc, cur, timer>>

RouteEdited(r) ==
    /\ Yielded /\ Disturb
    /\ r \in (Routes \cup {None}) \ {config}
    /\ config' = r
    /\ Moved({"config"})
    /\ UNCHANGED <<host, up, ended, began, over, registers, turnVars, queueVars, cases,
                   pc, cur, timer>>

-----------------------------------------------------------------------------
\* The drain applies jobs.

\* What a refresh of agent a may answer: an error, or the seat as it was at
\* some time of the await.
Answers(a) ==
    {"failed"} \cup {IF a \in host THEN "live" ELSE "gone", IF a \in cur.saw THEN "live" ELSE "gone"}

Idle == [job |-> None, found |-> FALSE, saw |-> {}]

Resume(next) == pc' = next /\ cur' = Idle /\ drift' = {}

Await(where, job, found) ==
    pc' = where /\ cur' = [job |-> job, found |-> found, saw |-> host] /\ drift' = {}

Take(kind) == pc = "drain" /\ jobs # <<>> /\ Head(jobs).kind = kind

ApplyTick ==
    LET passed == [c \in DOMAIN cases |-> [cases[c] EXCEPT !.elapsed = @ \/ cases[c].late]]
    IN  /\ Take("tick")
        /\ jobs' = Tail(jobs)
        /\ cases' = Without(passed, {c \in DOMAIN cases : cases[c].expired})
        /\ UNCHANGED <<world, registers, turnVars, fresh, drainVars>>

ApplyArchive ==
    /\ Take("archive")
    /\ jobs' = Tail(jobs)
    /\ cases' = IF Head(jobs).of \in {Lead, Peer} THEN <<>> ELSE cases
    /\ UNCHANGED <<world, registers, turnVars, fresh, drainVars>>

ApplyRestore ==
    /\ Take("restore")
    /\ jobs' = Tail(jobs)
    /\ IF Head(jobs).lead = gen[Lead] THEN Await("restore", Head(jobs), FALSE)
       ELSE UNCHANGED <<pc, cur, drift>>
    /\ UNCHANGED <<world, registers, turnVars, fresh, cases, timer>>

RestoreAnswered ==
    /\ pc = "restore"
    /\ \E o \in Answers(Lead) :
          IF o = "live" /\ cur.job.lead = gen[Lead]
          THEN tomb' = tomb \ {Lead} /\ known' = TRUE
          ELSE UNCHANGED <<tomb, known>>
    /\ Resume("drain")
    /\ UNCHANGED <<world, gateWasDown, gen, member, turnVars, queueVars, cases, timer>>

VerifyStale(j) == j.peer # gen[Peer] \/ j.lead # gen[Lead] \/ Lead \in tomb

ApplyVerify ==
    /\ Take("verify")
    /\ jobs' = Tail(jobs)
    /\ IF VerifyStale(Head(jobs)) THEN UNCHANGED <<pc, cur, drift>>
       ELSE Await(IF known THEN "verify peer" ELSE "verify lead", Head(jobs), FALSE)
    /\ UNCHANGED <<world, registers, turnVars, fresh, cases, timer>>

VerifyLeadAnswered ==
    /\ pc = "verify lead"
    /\ \E o \in Answers(Lead) :
          IF o = "live" /\ ~VerifyStale(cur.job) THEN Await("verify peer", cur.job, TRUE)
          ELSE Resume("drain")
    /\ UNCHANGED <<world, registers, turnVars, queueVars, cases, timer>>

VerifyPeerAnswered ==
    /\ pc = "verify peer"
    /\ \E o \in Answers(Peer) :
          IF o = "live" /\ ~VerifyStale(cur.job)
          THEN tomb' = tomb \ {Peer} /\ member' = TRUE /\ known' = (known \/ cur.found)
          ELSE UNCHANGED <<tomb, member, known>>
    /\ Resume("drain")
    /\ UNCHANGED <<world, gateWasDown, gen, turnVars, queueVars, cases, timer>>

-----------------------------------------------------------------------------
\* A turn is applied.

DeadEra(j) == Lead \in tomb \/ j.lead # gen[Lead]
DeadPeer(j) == Peer \in tomb \/ j.peer # gen[Peer]

TurnStale(j) == j.purged \/ DeadEra(j) \/ (j.of \in PeerTurns /\ DeadPeer(j))

NewCase(j) ==
    [held |-> IF j.text THEN {[of |-> Handback, lead |-> j.lead, peer |-> j.peer]} ELSE {},
     room |-> <<>>, unsure |-> FALSE, gap |-> FALSE, paused |-> j.purged,
     elapsed |-> FALSE, late |-> FALSE, expired |-> FALSE, dirty |-> TRUE, verdict |-> Unjudged]

\* Mutant: any recorded start will do.
QualifiesByStart(j, c, item) == j.after # None /\ ~j.overlap

\* A Lead turn orders its send after a handback by its recorded start, or by
\* opening with that handback.
Qualifies(j, c, item) ==
    \/ j.after # None /\ ~j.overlap /\ c \in j.after
    \/ c \in j.anchors /\ j.text /\ HoldsHandback(item)

\* The send of Lead turn j as case c takes it: lane is "sent", "unproven" or
\* "none", flagged says that the gather met a gap.
Attached(j, c, item, lane, flagged) ==
    LET proven == Qualifies(j, c, item)
        text == [of |-> j.of, lead |-> j.lead, peer |-> j.peer]
        mutated == lane # "none" \/ (flagged /\ ~item.gap) \/ (j.purged /\ ~item.paused)
    IN  [item EXCEPT
            !.room = IF lane = "sent" /\ proven THEN Append(@, j.of) ELSE @,
            !.held = IF lane = "sent" /\ j.text THEN @ \cup {text} ELSE @,
            !.unsure = @ \/ lane = "unproven" \/ (lane = "sent" /\ ~proven),
            !.gap = @ \/ flagged \/ lane = "unproven" \/ (lane # "none" /\ ~proven),
            !.paused = @ \/ j.purged,
            !.dirty = @ \/ mutated]

\* The end of the gather, with nothing awaited since the last look at the
\* world: recipient's room, unless what it rests on moved.
CommitGather(j, route, q, lane, flagged, staged, purged) ==
    LET to == Sends[j.of].to
        gone == lane # "none" /\ to \in tomb
        kept == IF gone THEN "none" ELSE lane
    IN  /\ jobs' = q
        /\ IF purged \/ DeadEra(j) \/ RouteFor = None \/ RouteFor.to # route.to
           THEN cases' = Dirty(cases) /\ UNCHANGED member
           ELSE /\ cases' = [c \in DOMAIN cases |->
                               IF Peer \in tomb THEN cases[c]
                               ELSE Attached(j, c, cases[c], kept, flagged \/ gone)]
                /\ member' = (member \/ (staged /\ Peer \notin tomb))
        /\ Resume("drain")

LaneOf(t) == IF Sends[t].accepted THEN "sent" ELSE "unproven"

\* A capture with its bodies reaches its case, from queue q on.
ApplyPeerTurn(j, q) ==
    /\ jobs' = q
    /\ cases' = IF DeadEra(j) \/ DeadPeer(j) \/ ~member \/ RouteFor = None \/ j.of \in DOMAIN cases
                THEN cases
                ELSE [c \in DOMAIN cases \cup {j.of} |-> IF c = j.of THEN NewCase(j) ELSE cases[c]]
    /\ Resume("drain")
    /\ UNCHANGED member

ApplyLeadTurn(j, q) ==
    LET to == Sends[j.of].to
        route == RouteFor
        direct == to = Peer /\ member /\ Peer \notin tomb
    IN  IF DeadEra(j) \/ route = None
        THEN jobs' = q /\ Resume("drain") /\ UNCHANGED <<cases, member>>
        ELSE IF to = route.to \/ direct THEN CommitGather(j, route, q, LaneOf(j.of), FALSE, FALSE, FALSE)
        ELSE IF to \in tomb THEN CommitGather(j, route, q, "none", TRUE, FALSE, FALSE)
        ELSE /\ jobs' = q
             /\ pc' = "gather" /\ drift' = {}
             /\ cur' = [job |-> j, route |-> route, gen |-> gen[to], saw |-> host]
             /\ UNCHANGED <<cases, member>>

ApplyCapture(j, q) ==
    \/ GateDown(q, cases) /\ Resume("drain") /\ UNCHANGED member
    \/ GateUp /\ UNCHANGED starts
       /\ IF j.of \in PeerTurns THEN ApplyPeerTurn(j, q) ELSE ApplyLeadTurn(j, q)

ApplyTurn ==
    LET j == Head(jobs) IN
    /\ Take("turn")
    /\ IF j.of \notin History THEN ApplyCapture(j, Tail(jobs))
       ELSE \/ /\ TurnStale(j)
               /\ jobs' = Tail(jobs)
               /\ UNCHANGED <<gateWasDown, starts, cases, drift, pc, cur, member>>
            \/ /\ ~TurnStale(j)
               /\ GateDown(Tail(jobs), cases)
               /\ UNCHANGED <<pc, cur, drift, member>>
            \/ /\ ~TurnStale(j)
               /\ GateUp
               /\ jobs' = Tail(jobs)
               /\ Await("history", j, FALSE)
               /\ UNCHANGED <<starts, cases, member>>
    /\ UNCHANGED <<world, gen, tomb, known, seen, fresh, timer>>

\* readTurnHistory answers, with the bodies or without.
HistoryAnswered ==
    LET j == cur.job
        stale == TurnStale(j) \/ "purge" \in drift
    IN  /\ pc = "history"
        /\ \/ /\ stale
              /\ Resume("drain")
              /\ UNCHANGED <<gateWasDown, jobs, starts, cases, member>>
           \/ /\ ~stale /\ ~up
              /\ GateDown(jobs, cases)
              /\ Resume("drain") /\ UNCHANGED member
           \/ /\ ~stale /\ GateUp
              /\ Resume("drain")
              /\ cases' = IF j.of \in LeadTurns THEN Gapped(cases) ELSE cases
              /\ UNCHANGED <<jobs, starts, member>>
           \/ /\ ~stale /\ up
              /\ ApplyCapture([j EXCEPT !.text = TRUE], jobs)
        /\ UNCHANGED <<world, gen, tomb, known, seen, fresh, timer>>

\* The recipient of a send answers, and the gather ends.
GatherAnswered ==
    LET j == cur.job
        to == Sends[j.of].to
        purged == "purge" \in drift
        Commit(lane, flagged, staged) ==
            GateUp /\ CommitGather(j, cur.route, jobs, lane, flagged, staged, purged)
                   /\ UNCHANGED starts
    IN  /\ pc = "gather"
        /\ \/ GateDown(jobs, Dirty(cases)) /\ Resume("drain") /\ UNCHANGED member
           \/ \E o \in Answers(to) :
                 IF o # "live" \/ gen[to] # cur.gen THEN Commit("none", TRUE, FALSE)
                 ELSE IF to = Peer THEN Commit(LaneOf(j.of), FALSE, TRUE)
                 ELSE Commit("none", FALSE, FALSE)
        /\ UNCHANGED <<world, gen, tomb, known, seen, fresh, timer>>

ApplyNext == \/ ApplyTick \/ ApplyArchive \/ ApplyRestore \/ ApplyVerify \/ ApplyTurn
             \/ RestoreAnswered \/ VerifyLeadAnswered \/ VerifyPeerAnswered
             \/ HistoryAnswered \/ GatherAnswered

HookNext == \/ \E a \in Agents : Archived(a) \/ Created(a)
            \/ \E t \in LeadTurns : Start(t) \/ LeadTurnEnds(t)
            \/ \E c \in PeerTurns : PeerTurnEnds(c)
            \/ View \/ GateFlips
            \/ \E r \in Routes \cup {None} : RouteEdited(r)
=============================================================================
