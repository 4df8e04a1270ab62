-------------------------------- MODULE Task --------------------------------
(***************************************************************************)
(* Managed task execution (plugin/server/desk-task.ts decides,             *)
(* desk-task-execution.ts runs): a Lead reserves an attempt of a task,     *)
(* places it, creates or reuses a worker, binds the worker's desk          *)
(* membership, sends it messages and archives it.                          *)
(*                                                                         *)
(* Every external effect is an action of its attempt: an intent commits    *)
(* to the ledger, an issue commits and yields one permit, the runner calls *)
(* the host, an observation commits.  A ledger commit is one step (the     *)
(* Desk modules show that the store makes it one); the host performs a     *)
(* call at any later time, also after the runner that made it is gone.     *)
(*                                                                         *)
(* A request is named by what it asks for: a bootstrap by the attempt it   *)
(* reserves, a send or an archive by its member of Sends or Archives.      *)
(***************************************************************************)
EXTENDS Naturals, Sequences, FiniteSets

CONSTANTS
    Tasks, Paths,       \* declared tasks and the surfaces they may own
    Asked,              \* tasks on which questions are raised
    Placements,         \* kinds of placement asked for
    Leads,              \* agents that may own the assignment
    Workers, Seats,     \* agents the host may run; Seats run already
    Sends, Archives,    \* send and archive requests, for each attempt
    Runners,            \* concurrent tool calls
    None,
    MaxAttempts, MaxRev, MaxBrief, MaxOwnership     \* bounds

VARIABLES
    task,       \* declarations of each task; its revision is their number
    brief,      \* the assignment's brief revision
    owner,      \* the Lead that owns the assignment
    ownership,  \* the assignment's ownership revision
    held,       \* tasks with an open question or a retained hold
    att,        \* attempts, at their latest revision
    act,        \* state of every action
    last,       \* the action whose intent is the ledger's last commit
    run,        \* tool calls in progress
    calls,      \* permits used: calls made to the host, for each action
    done,       \* calls the host has performed
    made,       \* what a worker was created for, or the Lead that formed it
    seat,       \* membership of a worker
    archived    \* workers the host has archived

ledger == <<task, brief, owner, ownership, held, att, act, last>>
host   == <<calls, done, made, archived>>
vars   == <<ledger, run, host, seat>>

Attempts == Tasks \X (1..MaxAttempts)
Effects  == {"place", "create"} \cup Sends \cup Archives
Actions  == Attempts \X Effects

ASSUME TaskAssumption ==
    /\ Seats \subseteq Workers
    /\ Asked \subseteq Tasks
    /\ Placements \subseteq {"shared", "isolated"}
    /\ Sends \cap Archives = {} /\ {"place", "create"} \cap (Sends \cup Archives) = {}
    /\ None \notin Leads \cup Workers \cup Attempts \cup Actions
    /\ Leads \cap Attempts = {}
    /\ MaxAttempts \in Nat /\ MaxRev \in Nat
    /\ MaxBrief \in Nat \ {0} /\ MaxOwnership \in Nat \ {0}

Kind(e) == IF e \in Sends THEN "send" ELSE IF e \in Archives THEN "archive" ELSE e

Declarations == [surfaces: SUBSET Paths, state: {"open", "withdrawn"},
                 brief: 1..MaxBrief, by: Leads]

\* The attempt row.  No state of the code's union but "settled" is missing:
\* settling needs an accepted result, which this module does not have.
AttemptRows ==
    [state: {"none", "reserved", "bound", "dispatched", "running",
             "reconciliation-required", "stop-requested", "stopped"},
     rev: 0..MaxRev, by: Leads \cup {None}, ownership: 0..MaxOwnership,
     placement: {"shared", "isolated"}, reuse: Workers \cup {None},
     tree: BOOLEAN, agent: Workers \cup {None}, member: Workers \cup {None},
     stop: BOOLEAN]

NoAttempt ==
    [state |-> "none", rev |-> 0, by |-> None, ownership |-> 0,
     placement |-> "shared", reuse |-> None, tree |-> FALSE, agent |-> None,
     member |-> None, stop |-> FALSE]

ActionStates == {"none", "intended", "issued", "observed", "uncertain",
                 "failed", "held", "abandoned"}
SeatStates   == {"none", "minted", "confirmed", "registered", "revoked"}

NoRun == [pc |-> "idle", x |-> None, by |-> None]

TypeOK ==
    /\ task \in [Tasks -> Seq(Declarations)]
    /\ \A t \in Tasks : Len(task[t]) <= MaxRev
    /\ brief \in 1..MaxBrief /\ ownership \in 1..MaxOwnership
    /\ owner \in Leads
    /\ held \subseteq Tasks
    /\ att \in [Attempts -> AttemptRows]
    /\ act \in [Actions -> ActionStates]
    /\ last \in Actions \cup {None}
    /\ run \in [Runners -> [pc: {"idle", "intent", "issue", "observe", "bind"},
                            x: Actions \cup {None}, by: Leads \cup {None}]]
    /\ calls \in [Actions -> Nat]
    /\ done \subseteq Actions
    /\ made \in [Workers -> Attempts \cup Leads \cup {None}]
    /\ seat \in [Workers -> SeatStates]
    /\ archived \subseteq Workers

Init ==
    /\ task = [t \in Tasks |-> <<>>]
    /\ brief = 1 /\ ownership = 1
    /\ owner \in Leads
    /\ held = {}
    /\ att = [a \in Attempts |-> NoAttempt]
    /\ act = [x \in Actions |-> "none"]
    /\ last = None
    /\ run = [r \in Runners |-> NoRun]
    /\ calls = [x \in Actions |-> 0]
    /\ done = {}
    /\ made = [w \in Workers |-> IF w \in Seats THEN owner ELSE None]
    /\ seat = [w \in Workers |-> IF w \in Seats THEN "registered" ELSE "none"]
    /\ archived = {}

-----------------------------------------------------------------------------
(* Reading the ledger *)

Live(a)         == att[a].state \notin {"none", "stopped"}
Reserved(t)     == {n \in 1..MaxAttempts : att[<<t, n>>].state # "none"}
Declared(t)     == task[t][Len(task[t])]
Parent(w)       == IF made[w] \in Leads THEN made[w] ELSE att[made[w]].by

\* reservationSurfaces of a live attempt: those of the revision it reserved.
Surfaces(a) == task[a[1]][att[a].rev].surfaces

\* currentTaskReadiness: a declaration of the current brief, not withdrawn,
\* no live attempt and no hold.
Ready(t) ==
    /\ task[t] # <<>>
    /\ Declared(t).brief = brief
    /\ Declared(t).state # "withdrawn"
    /\ ~ \E n \in 1..MaxAttempts : Live(<<t, n>>)
    /\ t \notin held

\* Mutant: an attempt holds its surfaces once it has a worker.
OverlapsWorking(t) ==
    \E b \in Attempts :
        Live(b) /\ att[b].member # None /\ Surfaces(b) \cap Declared(t).surfaces # {}

\* surfacesOverlap with the reservation of any live attempt.
Overlaps(t) ==
    \E b \in Attempts : Live(b) /\ Surfaces(b) \cap Declared(t).surfaces # {}

\* Mutant: the stop of an attempt is not looked at.
GateStopIgnored(a, row, acts, kind) ==
    /\ row.rev = Len(task[a[1]]) /\ Declared(a[1]).brief = brief
    /\ a[1] \notin held
    /\ row.by = owner
    /\ kind = "send" => row.member # None /\ seat[row.member] = "registered"
    /\ row.state \notin {"reconciliation-required", "stopped"}
    /\ ~ \E e \in Effects : Kind(e) = kind /\ acts[<<a, e>>] = "uncertain"

\* attemptEffectGate, on the attempt row and the actions a command has got to.
Gate(a, row, acts, kind) ==
    /\ row.rev = Len(task[a[1]]) /\ Declared(a[1]).brief = brief
    /\ a[1] \notin held
    /\ row.by = owner
    /\ kind = "send" => row.member # None /\ seat[row.member] = "registered"
    /\ row.stop \/ row.state = "stop-requested" => kind = "archive"
    /\ row.state \notin {"reconciliation-required", "stopped"}
    /\ ~ \E e \in Effects : Kind(e) = kind /\ acts[<<a, e>>] = "uncertain"

\* Mutant: a seat that works for another attempt is bound again.
MayBindShared(a, row, acts, w) ==
    /\ Gate(a, row, acts, "bind")
    /\ row.state = "reserved" /\ row.member = None
    /\ seat[w] = "registered"
    /\ row.reuse = None => row.agent # None /\ acts[<<a, "create">>] = "observed"
    /\ row.agent \in {None, w}

\* decideDeskTask "task.effect.bind".
MayBind(a, row, acts, w) ==
    /\ Gate(a, row, acts, "bind")
    /\ row.state = "reserved" /\ row.member = None
    /\ seat[w] = "registered"
    /\ row.reuse = None => row.agent # None /\ acts[<<a, "create">>] = "observed"
    /\ row.agent \in {None, w}
    /\ ~ \E b \in Attempts \ {a} : Live(b) /\ att[b].member = w

Bound(row, w) == [row EXCEPT !.state = "bound", !.member = w, !.agent = w]

\* decideDeskTask "task.effect.observe": what an observation of an action
\* does to its attempt.  Only the runner's receipt of a create names the agent.
Observed(row, kind, status, w) ==
    LET state == CASE status = "uncertain" -> "reconciliation-required"
                   [] status = "observed" /\ kind = "send" -> "running"
                   [] status = "observed" /\ kind = "archive" -> "stop-requested"
                   [] status = "failed" /\ kind = "send" -> "bound"
                   [] OTHER -> row.state
    IN  [row EXCEPT
            !.state = IF row.state = "stopped" THEN @ ELSE state,
            !.agent = IF kind = "create" /\ status = "observed" /\ w # None
                        THEN w ELSE @,
            !.tree = @ \/ (/\ kind = "place" /\ row.placement = "isolated"
                           /\ status \in {"observed", "held"})]

\* A commit moves the ledger revision, so it makes the pins of a send or an
\* archive stale whose intent is not recorded yet: that request is refused,
\* unless the intent that commits is its own, which it then replays.
Repinned(calling, intent) ==
    [r \in Runners |->
        IF calling[r].pc # "intent" \/ calling[r].x[2] = "create" THEN calling[r]
        ELSE IF calling[r].x = intent THEN [calling[r] EXCEPT !.pc = "issue"]
        ELSE NoRun]

Committed(intent, calling) == last' = intent /\ run' = Repinned(calling, intent)

-----------------------------------------------------------------------------
(* The owner's commands *)

\* task.define, and task.update amending, withdrawing or reopening.
Declare(t, surfaces, state) ==
    /\ Len(task[t]) < MaxRev
    /\ task' = [task EXCEPT ![t] = Append(@,
                    [surfaces |-> surfaces, state |-> state,
                     brief |-> brief, by |-> owner])]
    /\ Committed(None, run)
    /\ UNCHANGED <<brief, owner, ownership, held, att, act, host, seat>>

\* The assignment's brief is revised, or its ownership passes on.
Rebrief ==
    /\ brief < MaxBrief
    /\ brief' = brief + 1
    /\ Committed(None, run)
    /\ UNCHANGED <<task, owner, ownership, held, att, act, host, seat>>

Succeed(l) ==
    /\ ownership < MaxOwnership /\ l # owner
    /\ ownership' = ownership + 1
    /\ owner' = l
    /\ Committed(None, run)
    /\ UNCHANGED <<task, brief, held, att, act, host, seat>>

\* task.hold: a question is raised, or ruled.  Another open one, or a ruling
\* to retain, keeps the task held.
Hold(t) ==
    /\ task[t] # <<>>
    /\ held' = held \cup {t}
    /\ Committed(None, run)
    /\ UNCHANGED <<task, brief, owner, ownership, att, act, host, seat>>

Rule(t) ==
    /\ t \in held
    /\ held' \in {held, held \ {t}}
    /\ Committed(None, run)
    /\ UNCHANGED <<task, brief, owner, ownership, att, act, host, seat>>

\* task.stop.
Stop(a) ==
    /\ Live(a)
    /\ att' = [att EXCEPT ![a].state = "stop-requested", ![a].stop = TRUE]
    /\ Committed(None, run)
    /\ UNCHANGED <<task, brief, owner, ownership, held, act, host, seat>>

\* Targets of task.reconcile: unresolved actions, and the create of an
\* attempt that waits for its worker to register.
Targets(a) ==
    {e \in Effects :
        \/ act[<<a, e>>] \in {"issued", "uncertain", "held"}
        \/ /\ e = "create" /\ act[<<a, e>>] = "observed"
           /\ att[a].state = "reserved" /\ att[a].member = None}

\* createTaskObserver.observeAction: a create and a send have an identity to
\* look for on the host; a placement and an archive have none.
Observable(a, e) == Kind(e) \in {"create", "send"} /\ <<a, e>> \in done

Marked(a, targets, positive) ==
    [x \in Actions |->
        IF x[1] # a \/ x[2] \notin targets \/ act[x] = "observed" THEN act[x]
        ELSE IF x[2] \in positive THEN "observed" ELSE "uncertain"]

\* The marks are applied one after the other: the last one that moves the
\* attempt decides its state.
AfterMarks(a, targets, positive) ==
    LET unresolved == {e \in targets \ positive : act[<<a, e>>] # "observed"}
        moved == (IF unresolved # {} THEN {"reconciliation-required"} ELSE {})
                 \cup (IF positive \cap Sends # {} THEN {"running"} ELSE {})
    IN  IF moved = {} THEN {att[a]}
        ELSE {[att[a] EXCEPT !.state = s] : s \in moved}

\* Mutant: reconciliation records what it sees and binds nothing.
ToBindNothing(a, positive) == {}

\* The worker a positive create is to be bound to, if its seat is confirmed.
ToBind(a, positive) ==
    {w \in Workers :
        /\ "create" \in positive
        /\ att[a].state = "reserved" /\ att[a].member = None
        /\ made[w] = a /\ seat[w] \in {"confirmed", "registered"}}

\* task.reconcile, with observations of `targets' of which `positive' were
\* found on the host.  A bind that is not admissible refuses all of it.
Reconcile(a, targets, positive) ==
    /\ Live(a)
    /\ targets # {} /\ targets \subseteq Targets(a)
    /\ positive \subseteq {e \in targets : Observable(a, e)}
    /\ act' = Marked(a, targets, positive)
    /\ \E row \in AfterMarks(a, targets, positive) :
          IF ToBind(a, positive) = {}
            THEN att' = [att EXCEPT ![a] = row]
            ELSE \E w \in ToBind(a, positive) :
                    /\ MayBind(a, row, act', w)
                    /\ att' = [att EXCEPT ![a] = Bound(row, w)]
    /\ Committed(None, run)
    /\ UNCHANGED <<task, brief, owner, ownership, held, host, seat>>

\* Mutant: only sends count as work.
NeverSent(a) ==
    \A e \in Sends : act[<<a, e>>] \in {"none", "intended", "abandoned"}

\* No row of a create or a send was ever issued.
NeverAuthorized(a) ==
    \A e \in {"create"} \cup Sends :
        act[<<a, e>>] \in {"none", "intended", "abandoned"}

\* task.reconcile with a ruling that the attempt is stopped.  No observation
\* proves that a worker is quiescent or that a worktree is gone, so it takes
\* an attempt that was never allowed a worker and retains nothing.
Discharge(a) ==
    /\ Live(a)
    /\ \A e \in Effects : act[<<a, e>>] \notin {"issued", "uncertain", "held"}
    /\ ~ att[a].tree /\ att[a].member = None
    /\ NeverAuthorized(a)
    /\ act' = [x \in Actions |-> IF x[1] = a /\ act[x] = "intended"
                                   THEN "abandoned" ELSE act[x]]
    /\ att' = [att EXCEPT ![a].state = "stopped"]
    /\ Committed(None, run)
    /\ UNCHANGED <<task, brief, owner, ownership, held, host, seat>>

-----------------------------------------------------------------------------
(* Tool calls: dispatchBootstrap, dispatchReuse, dispatchSend, dispatchArchive *)

Calling(r, pc, x) == [run EXCEPT ![r] = [@ EXCEPT !.pc = pc, !.x = x]]

\* verifySeat: a fresh snapshot of the worker, which must not be archived.
Verified(w) == w \notin archived

\* A bootstrap or a reuse, up to its reservation.  A bootstrap whose
\* reservation exists already reports it and has no effect (replayBootstrap).
Reserve(r, t, placement, w) ==
    LET a == <<t, Cardinality(Reserved(t)) + 1>>
    IN  /\ run[r].pc = "idle"
        /\ a \in Attempts
        /\ Ready(t) /\ ~ Overlaps(t)
        /\ w # None => /\ placement = "shared"
                       /\ made[w] # None /\ Parent(w) = owner /\ Verified(w)
        /\ att' = [att EXCEPT ![a] =
                     [NoAttempt EXCEPT !.state = "reserved",
                        !.rev = Len(task[t]), !.by = owner,
                        !.ownership = ownership,
                        !.placement = placement, !.reuse = w]]
        /\ act' = [act EXCEPT ![<<a, "place">>] = "intended"]
        /\ Committed(<<a, "place">>,
                     [run EXCEPT ![r] = [pc |-> "issue", x |-> <<a, "place">>,
                                         by |-> owner]])
        /\ UNCHANGED <<task, brief, owner, ownership, held, host, seat>>

\* A reuse that is sent again replays its reservation and goes on.
RetryReuse(r, a) ==
    /\ run[r].pc = "idle"
    /\ att[a].reuse # None /\ Verified(att[a].reuse)
    /\ run' = [run EXCEPT ![r] = [pc |-> "issue", x |-> <<a, "place">>,
                                  by |-> att[a].by]]
    /\ UNCHANGED <<ledger, host, seat>>

\* dispatchSend and dispatchArchive up to their intent.  A request that is
\* sent again replays its intent.
Start(r, a, e) ==
    /\ run[r].pc = "idle"
    /\ att[a].agent # None /\ Verified(att[a].agent)
    /\ e \in Sends => /\ ~ att[a].stop
                      /\ att[a].member # None
                      /\ att[a].state \in {"bound", "dispatched", "running"}
    /\ run' = [run EXCEPT ![r] =
                  [pc |-> IF act[<<a, e>>] = "none" THEN "intent" ELSE "issue",
                   x |-> <<a, e>>, by |-> att[a].by]]
    /\ UNCHANGED <<ledger, host, seat>>

\* task.effect.intent.
Intend(r) ==
    LET x == run[r].x
        a == x[1]
    IN  /\ run[r].pc = "intent" /\ run[r].by = owner
        /\ act[x] = "none"
        /\ Gate(a, att[a], act, Kind(x[2]))
        /\ x[2] = "create" /\ att[a].placement = "isolated"
              => act[<<a, "place">>] = "observed"
        /\ x[2] \in Sends => /\ att[a].member # None
                             /\ att[a].state \in {"bound", "dispatched", "running"}
        /\ act' = [act EXCEPT ![x] = "intended"]
        /\ att' = IF x[2] \in Sends
                    THEN [att EXCEPT ![a].state = "dispatched"] ELSE att
        /\ Committed(x, Calling(r, "issue", x))
        /\ UNCHANGED <<task, brief, owner, ownership, held, host, seat>>

\* task.effect.issue: admitted once, with no commit since the intent, which
\* therefore still has the brief and ownership it was made under.
Admissible(x) ==
    /\ act[x] = "intended"
    /\ last = x
    /\ Kind(x[2]) # "archive" => Gate(x[1], att[x[1]], act, Kind(x[2]))

\* The issue commits and yields its permit, and the runner calls the host.
Issue(r) ==
    LET x == run[r].x
    IN  /\ run[r].pc = "issue" /\ run[r].by = owner
        /\ Admissible(x)
        /\ act' = [act EXCEPT ![x] = "issued"]
        /\ calls' = [calls EXCEPT ![x] = @ + 1]
        /\ Committed(None, Calling(r, "observe", x))
        /\ UNCHANGED <<task, brief, owner, ownership, held, att,
                       done, made, archived, seat>>

\* Mutant: a replayed issue is answered with its permit.
PermittedAgain(r) ==
    LET x == run[r].x
    IN  /\ run[r].pc = "issue"
        /\ ~ Admissible(x) \/ run[r].by # owner
        /\ IF act[x] = "issued" /\ run[r].by = owner
             THEN /\ calls' = [calls EXCEPT ![x] = @ + 1]
                  /\ run' = Calling(r, "observe", x)
             ELSE /\ run' = [run EXCEPT ![r] = NoRun]
                  /\ UNCHANGED calls
        /\ UNCHANGED <<ledger, done, made, archived, seat>>

\* runTaskEffect "issue": a permit is never handed out again.
NotPermitted(r) ==
    /\ run[r].pc = "issue"
    /\ ~ Admissible(run[r].x) \/ run[r].by # owner
    /\ run' = [run EXCEPT ![r] = NoRun]
    /\ UNCHANGED <<ledger, host, seat>>

\* Mutant: a call that threw is recorded as performed.
OutcomesHopeful(x) ==
    IF x[2] = "place"
      THEN IF att[x[1]].placement = "shared" THEN {"observed"}
           ELSE {"observed", "failed", "held"}
      ELSE {"uncertain", "observed"}

\* What the runner may learn of its call: that it succeeded when the host
\* performed it, or an error, which says nothing about it.  A placement is
\* the runner's own work on the repository.
Outcomes(x) ==
    IF x[2] = "place"
      THEN IF att[x[1]].placement = "shared" THEN {"observed"}
           ELSE {"observed", "failed", "held"}
      ELSE {"uncertain"} \cup IF x \in done THEN {"observed"} ELSE {}

\* What follows an observation in the same tool call.
Continue(r, x, status) ==
    CASE status # "observed" -> NoRun
      [] x[2] = "place" /\ att[x[1]].reuse = None ->
            [run[r] EXCEPT !.pc = "intent", !.x = <<x[1], "create">>]
      [] x[2] \in {"place", "create"} -> [run[r] EXCEPT !.pc = "bind"]
      [] OTHER -> NoRun

\* task.effect.observe by the runner.
Observe(r) ==
    LET x == run[r].x
        a == x[1]
    IN  /\ run[r].pc = "observe" /\ run[r].by = owner
        /\ act[x] \in {"issued", "uncertain", "held"}
        /\ \E status \in Outcomes(x) :
             /\ act' = [act EXCEPT ![x] = status]
             /\ \E w \in IF x[2] = "create" /\ status = "observed"
                           THEN {v \in Workers : made[v] = a} ELSE {None} :
                   att' = [att EXCEPT ![a] = Observed(@, Kind(x[2]), status, w)]
             /\ Committed(None, [run EXCEPT ![r] = Continue(r, x, status)])
        /\ UNCHANGED <<task, brief, owner, ownership, held, host, seat>>

\* tryBind: a worker that has not registered yet is left to reconciliation.
Bind(r) ==
    LET a == run[r].x[1]
        w == IF att[a].reuse # None THEN att[a].reuse ELSE att[a].agent
    IN  /\ run[r].pc = "bind" /\ run[r].by = owner
        /\ w # None
        /\ MayBind(a, att[a], act, w)
        /\ att' = [att EXCEPT ![a] = Bound(@, w)]
        /\ Committed(None, [run EXCEPT ![r] = NoRun])
        /\ UNCHANGED <<task, brief, owner, ownership, held, act, host, seat>>

\* A tool call ends where it is: a command is refused, a read or a call
\* fails, the plugin reloads, the daemon dies.
End(r) ==
    /\ run[r].pc # "idle"
    /\ run' = [run EXCEPT ![r] = NoRun]
    /\ UNCHANGED <<ledger, host, seat>>

\* createTaskHostEventObserver.onTurnEnded: the bound worker's finished turn
\* shows a message it received.
TurnEnded(a, e) ==
    LET x == <<a, e>>
    IN  /\ e \in Sends /\ x \in done
        /\ act[x] \in {"issued", "uncertain"}
        /\ att[a].member # None /\ seat[att[a].member] = "registered"
        /\ act' = [act EXCEPT ![x] = "observed"]
        /\ att' = [att EXCEPT ![a] = Observed(@, "send", "observed", None)]
        /\ Committed(None, run)
        /\ UNCHANGED <<task, brief, owner, ownership, held, host, seat>>

-----------------------------------------------------------------------------
(* The host and the workers *)

\* validateTaskMembershipClaim: a create ticket is good while its create is
\* issued and everything it was reserved under still stands.
TicketGood(a) ==
    /\ act[<<a, "create">>] = "issued"
    /\ att[a].rev = Len(task[a[1]]) /\ Declared(a[1]).state # "withdrawn"
    /\ Declared(a[1]).brief = brief
    /\ att[a].state = "reserved" /\ att[a].member = None
    /\ att[a].by = owner /\ att[a].ownership = ownership
    /\ Declared(a[1]).by = owner

\* The host creates the worker; the create hook mints its seat, or cannot
\* and the worker runs without one.
HostCreate(a, w) ==
    /\ calls[<<a, "create">>] > 0 /\ <<a, "create">> \notin done
    /\ made[w] = None
    /\ done' = done \cup {<<a, "create">>}
    /\ made' = [made EXCEPT ![w] = a]
    /\ IF TicketGood(a)
         THEN /\ seat' = [seat EXCEPT ![w] = "minted"]
              /\ Committed(None, run)
         ELSE UNCHANGED <<seat, run, last>>
    /\ UNCHANGED <<task, brief, owner, ownership, held, att, act, calls, archived>>

HostSend(x) ==
    /\ x[2] \in Sends /\ calls[x] > 0 /\ x \notin done
    /\ done' = done \cup {x}
    /\ UNCHANGED <<ledger, run, calls, made, archived, seat>>

HostArchive(x) ==
    /\ x[2] \in Archives /\ calls[x] > 0 /\ x \notin done
    /\ done' = done \cup {x}
    /\ archived' = archived \cup {att[x[1]].agent}
    /\ UNCHANGED <<ledger, run, calls, made, seat>>

\* seat.bind, seat.register and seat.revoke; a seat that never gets as
\* far as registering is revoked by the sweep that precedes every seat command.
Confirm(w) ==
    /\ seat[w] = "minted"
    /\ seat' = [seat EXCEPT ![w] = "confirmed"]
    /\ Committed(None, run)
    /\ UNCHANGED <<task, brief, owner, ownership, held, att, act, host>>

Register(w) ==
    /\ seat[w] = "confirmed"
    /\ seat' = [seat EXCEPT ![w] = "registered"]
    /\ Committed(None, run)
    /\ UNCHANGED <<task, brief, owner, ownership, held, att, act, host>>

Revoke(w) ==
    /\ seat[w] \in {"minted", "confirmed", "registered"}
    /\ seat' = [seat EXCEPT ![w] = "revoked"]
    /\ Committed(None, run)
    /\ UNCHANGED <<task, brief, owner, ownership, held, att, act, host>>

-----------------------------------------------------------------------------
OwnerCommand ==
    \/ \E t \in Tasks, s \in SUBSET Paths, st \in {"open", "withdrawn"} :
          Declare(t, s, st)
    \/ Rebrief
    \/ \E l \in Leads : Succeed(l)
    \/ \E t \in Asked : Hold(t) \/ Rule(t)
    \/ \E a \in Attempts :
          \/ Stop(a)
          \/ Discharge(a)
          \/ \E targets \in SUBSET Targets(a) :
                \E positive \in SUBSET targets : Reconcile(a, targets, positive)

ToolCall(r) ==
    \/ \E t \in Tasks, p \in Placements : Reserve(r, t, p, None)
    \/ \E t \in Tasks, w \in Workers : Reserve(r, t, "shared", w)
    \/ \E a \in Attempts : RetryReuse(r, a)
    \/ \E a \in Attempts, e \in Sends \cup Archives : Start(r, a, e)
    \/ Intend(r) \/ Issue(r) \/ NotPermitted(r) \/ Observe(r) \/ Bind(r)
    \/ End(r)

Host ==
    \/ \E a \in Attempts, w \in Workers : HostCreate(a, w)
    \/ \E x \in Actions : HostSend(x) \/ HostArchive(x)
    \/ \E a \in Attempts, e \in Sends : TurnEnded(a, e)
    \/ \E w \in Workers : Confirm(w) \/ Register(w) \/ Revoke(w)

Next == OwnerCommand \/ (\E r \in Runners : ToolCall(r)) \/ Host

Spec == Init /\ [][Next]_vars

\* What the environment must do for a worker to be bound in the end: its
\* seat registers, and the Lead reconciles the attempt as the documents say,
\* with an observer that finds everything that is there.  Tool calls may end
\* anywhere.
Attach(a) ==
    \E targets \in SUBSET Targets(a) :
        "create" \in targets /\ Reconcile(a, targets, targets)

Fairness ==
    /\ \A w \in Workers : WF_vars(Confirm(w)) /\ WF_vars(Register(w))
    /\ \A a \in Attempts : WF_vars(Attach(a))

FairSpec == Spec /\ Fairness

-----------------------------------------------------------------------------
(* Properties *)

\* However often a request is sent, by however many tool calls, and wherever
\* one of them dies, the host is called at most once for each effect: a
\* worker is created once and a message sent once (runTaskEffect "issue").
CallsOnce == \A x \in Actions : calls[x] <= 1

Authorized(a) == \E e \in {"create"} \cup Sends : calls[<<a, e>>] > 0

\* Two attempts that were ever allowed a worker own no surface in common:
\* amending, withdrawing, stopping or discharging the first never lets the
\* second in (task.reserve, task.reconcile).
OneWriter ==
    \A a, b \in Attempts :
        Authorized(a) /\ Authorized(b) /\ a # b
            => Surfaces(a) \cap Surfaces(b) = {}

\* An attempt ruled stopped never had a worker and never gets one, also from
\* a tool call that was on its way when the ruling committed (terminal
\* attempt rulings of task.reconcile).
StoppedNeverWorked ==
    \A a \in Attempts :
        att[a].state = "stopped"
            => ~ Authorized(a) /\ ~ \E w \in Workers : made[w] = a

\* Once a stop is recorded no create and no send is started, whatever late
\* observations make of the attempt's state afterwards (task.stop,
\* attemptEffectGate), and no message to a worker whose archive the ledger
\* has observed, although a late answer to an earlier send puts the attempt
\* back to "running" (dispatchSend, verifySeat).
NoWorkAfterTheEnd ==
    [][\A a \in Attempts, e \in Effects :
          calls'[<<a, e>>] > calls[<<a, e>>] =>
             /\ att[a].stop => Kind(e) = "archive"
             /\ e \in Sends => \A f \in Archives : act[<<a, f>>] # "observed"]_vars

\* The ledger says of no create, send or archive that it was observed unless
\* the host performed it (positive evidence only).
ObservedHappened ==
    \A x \in Actions :
        x[2] # "place" /\ act[x] = "observed" => x \in done

\* A registered worker belongs to at most one live attempt (the bind gate of
\* decideDeskTask, for reuse as well as for a created worker).
OneAttemptPerWorker ==
    \A a, b \in Attempts :
        a # b /\ Live(a) /\ Live(b) /\ att[a].member # None
            => att[a].member # att[b].member

\* What takes an attempt out of the Lead's hands: a stop, a hold, an
\* amendment, a new brief or owner, or the loss of the worker's seat.
Overtaken(a) ==
    /\ att[a].state # "none"
    /\ \/ att[a].stop \/ a[1] \in held
       \/ att[a].rev # Len(task[a[1]]) \/ Declared(a[1]).brief # brief
       \/ att[a].by # owner
       \/ \E w \in Workers : made[w] = a /\ seat[w] \in {"none", "revoked"}

\* A worker whose create the tool call recorded is bound in the end, also if
\* it registers after the call has returned, unless the attempt is overtaken
\* or another observation found it uncertain (tryBind, runTaskCommand
\* "reconcile").
PendingSeatBinds ==
    \A a \in Attempts :
        (att[a].agent # None /\ att[a].state = "reserved")
            ~> (\/ att[a].member # None
                \/ att[a].state # "reserved"
                \/ Overtaken(a))

=============================================================================
