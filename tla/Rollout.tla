------------------------------ MODULE Rollout -------------------------------
(***************************************************************************)
(* Rollouts of a scope's candidates, and the checks they rest on           *)
(* (plugin/server/desk-rollout.ts, desk-check-runner.ts; the transition    *)
(* table is in shared/enforcement.ts).                                     *)
(*                                                                         *)
(* A check takes minutes: the runner reads the ledger, measures the        *)
(* checkout, runs the class, measures again, and only then commits what    *)
(* it saw.  Between these steps everything else may happen, and a runner   *)
(* may die at any of them.  The last part is what the loader demands of    *)
(* the rows (desk-store.ts).                                               *)
(*                                                                         *)
(* A definition is what its digest stands for: the retries it allows and   *)
(* whether a passed run needs an evidence pointer.  The digest of a cohort *)
(* is the cohort.                                                          *)
(***************************************************************************)
EXTENDS Scope

CONSTANTS
    Rollouts, Checks,
    Definitions,            \* what a check may be declared to be
    Pins,                   \* what a rollout may be declared to pin
    CheckRequests,          \* request ids of check runs
    MaxDefs, MaxRollouts, MaxJobs, MaxRuns      \* bounds

Cohort == [members : SUBSET Agents, assignment : Nat, ownership : Nat]

ASSUME RolloutAssumption ==
    /\ None \notin Cohort
    /\ \A d \in Definitions : DOMAIN d = {"retries", "evidence"}
                              /\ d.retries \in Nat /\ d.evidence \in BOOLEAN
    /\ Pins \subseteq [snap : Snapshots, required : SUBSET (Checks \X Definitions)]
    /\ {MaxDefs, MaxRollouts, MaxJobs, MaxRuns} \subseteq Nat

VARIABLES
    defs,           \* definition revisions of each check
    rollouts,       \* declaration revisions of each rollout
    rmoves,         \* transitions of each rollout
    runs,           \* committed check runs
    jobs            \* check runs between their preflight and their commit

rolloutVars == <<defs, rollouts, rmoves, runs, jobs>>

RolloutStates == {"declared", "checks-running", "checks-passed", "checks-failed",
                  "canary-ready", "canary-running", "canary-passed", "canary-failed",
                  "held", "promoted", "rolled-back", "closed"}

RolloutEdges ==
    { <<"declared", "start-checks", "checks-running">>,
      <<"checks-running", "checks-passed", "checks-passed">>,
      <<"checks-running", "checks-failed", "checks-failed">>,
      <<"checks-passed", "canary-ready", "canary-ready">>,
      <<"canary-ready", "start-canary", "canary-running">>,
      <<"canary-running", "canary-passed", "canary-passed">>,
      <<"canary-running", "canary-failed", "canary-failed">>,
      <<"canary-passed", "promote", "promoted">> }
    \cup {<<f, "hold", "held">> : f \in {"checks-running", "checks-passed", "checks-failed",
             "canary-ready", "canary-running", "canary-passed", "canary-failed"}}
    \cup {<<f, "rollback", "rolled-back">> : f \in {"checks-failed", "canary-ready",
             "canary-passed", "canary-failed", "held"}}
    \cup {<<f, "close", "closed">> : f \in {"held", "promoted", "rolled-back"}}

RolloutCommands == {e[2] : e \in RolloutEdges}
CheckGated == {"checks-passed", "promote"}
CohortGated == {"canary-passed", "promote"}

DefinitionRow == [scope : Scopes, def : Definitions, by : Leads]
RolloutRow == [scope : Scopes, snap : Snapshots, by : Leads,
               required : SUBSET (Checks \X Definitions)]
RunRow == [rollout : Rollouts, rev : Nat, check : Checks, def : Nat, snap : Snapshots,
           status : {"passed", "failed"}, evidence : BOOLEAN, attempt : Nat,
           by : Leads, req : CheckRequests]
RolloutMove == [command : RolloutCommands \cup {"declare"}, from : RolloutStates \cup {None},
                to : RolloutStates, rev : Nat, by : Leads, cohort : Cohort \cup {None},
                gate : Cohort \cup {None}, target : Snapshots \cup {None},
                checked : SUBSET Nat, reviewed : SUBSET Nat]
Job == [rollout : Rollouts, rev : Nat, check : Checks, def : Nat, snap : Snapshots,
        status : {"passed", "failed", None}, evidence : BOOLEAN,
        by : Leads, req : CheckRequests, at : {"preflight", "running", "measured"}]

RolloutTypeOK ==
    /\ ScopeTypeOK
    /\ defs \in [Checks -> Seq(DefinitionRow)]
    /\ rollouts \in [Rollouts -> Seq(RolloutRow)]
    /\ rmoves \in [Rollouts -> Seq(RolloutMove)]
    /\ runs \in Seq(RunRow)
    /\ jobs \subseteq Job

RolloutInit ==
    /\ ScopeInit
    /\ defs = [q \in Checks |-> <<>>]
    /\ rollouts = [r \in Rollouts |-> <<>>]
    /\ rmoves = [r \in Rollouts |-> <<>>]
    /\ runs = <<>> /\ jobs = {}

RolloutState(r) == Last(rmoves[r]).to
DefinitionOf(q, rev) == defs[q][rev].def

-----------------------------------------------------------------------------
(* Declarations. *)

DeclareCheck(l, q, s, d) ==
    /\ OwnsOpen(l)
    /\ s \in Declared
    /\ Len(defs[q]) < MaxDefs
    /\ defs[q] # <<>> => Last(defs[q]).scope = s
    /\ defs' = [defs EXCEPT ![q] = Append(@,
          [scope |-> s, def |-> d, by |-> l])]
    /\ UNCHANGED <<custodyVars, handbackVars, scopeVars, rollouts, rmoves, runs, jobs>>

\* Checks that are defined, in any revision, for the scope.
Definable(s) ==
    {x \in Checks \X Definitions :
       \E i \in DOMAIN defs[x[1]] : defs[x[1]][i].scope = s /\ defs[x[1]][i].def = x[2]}

RolloutOpening(l) ==
    [command |-> "declare", from |-> None, to |-> "declared", rev |-> 1, by |-> l,
     cohort |-> None, gate |-> None, target |-> None, checked |-> {}, reviewed |-> {}]

\* A rollout pins an observed candidate and the checks it asks for, each once.
\* Declaring it again moves the pins and leaves the machine where it is.
DeclareRollout(l, r, s, c, required) ==
    /\ OwnsOpen(l)
    /\ s \in Declared
    /\ CandidateOf(c) # None
    /\ Latest(s).seat \in {None, CandidateOf(c).seat}
    /\ required \subseteq Definable(s)
    /\ \A x, y \in required : x[1] = y[1] => x = y
    /\ Len(rollouts[r]) < MaxRollouts
    /\ rollouts[r] # <<>> => Last(rollouts[r]).scope = s
    /\ rollouts' = [rollouts EXCEPT ![r] = Append(@,
          [scope |-> s, snap |-> c, by |-> l, required |-> required])]
    /\ rmoves' = IF rollouts[r] = <<>>
                 THEN [rmoves EXCEPT ![r] = <<RolloutOpening(l)>>] ELSE rmoves
    /\ UNCHANGED <<custodyVars, handbackVars, scopeVars, defs, runs, jobs>>

-----------------------------------------------------------------------------
(* Transitions. *)

\* The roster now: the owner and the seats, at the revisions they are at.
CohortSnapshot ==
    [members |-> {EffectiveOwner} \cup seats, assignment |-> StructuralRevision,
     ownership |-> OwnershipRevision]

\* The cohort that the latest start of a canary pinned.
PinnedCohort(r) ==
    LET i == LastIndex(rmoves[r], LAMBDA m : m.command = "start-canary")
    IN IF i = 0 THEN None ELSE rmoves[r][i].cohort

\* For each required check, its latest passed run of the pinned candidate
\* under the pinned definition; None if one lacks.
CheckDischarges(r) ==
    LET d == Last(rollouts[r])
        Of(x) == {i \in DOMAIN runs :
                    /\ runs[i].rollout = r /\ runs[i].check = x[1]
                    /\ runs[i].status = "passed" /\ runs[i].snap = d.snap
                    /\ DefinitionOf(x[1], runs[i].def) = x[2]}
    IN IF \E x \in d.required : Of(x) = {} THEN None
       ELSE {Max(Of(x)) : x \in d.required}

\* The scope stands approved today, for the very candidate.
ReviewGate(r) ==
    LET d == Last(rollouts[r])
        approved == StandingApproval(d.scope)
    IN /\ Last(decls[d.scope]).brief = brief
       /\ approved # None
       /\ approved.rev = Len(decls[d.scope])
       /\ approved.snap = d.snap

CohortGate(r) == PinnedCohort(r) # None /\ CohortSnapshot = PinnedCohort(r)

\* The owner's move along an edge, with the evidence it commits.
MoveRollout(l, r, cmd, target) ==
    /\ OwnsOpen(l)
    /\ rollouts[r] # <<>>
    /\ \E to \in RolloutStates : <<RolloutState(r), cmd, to>> \in RolloutEdges
    /\ target # None <=> cmd = "rollback"
    /\ target # None => CandidateOf(target) # None
    /\ cmd \in CheckGated => CheckDischarges(r) # None
    /\ cmd = "promote" => ReviewGate(r)
    /\ cmd \in CohortGated => CohortGate(r)
    /\ rmoves' = [rmoves EXCEPT ![r] = Append(@,
          [command |-> cmd, from |-> RolloutState(r),
           to |-> (CHOOSE e \in RolloutEdges : e[1] = RolloutState(r) /\ e[2] = cmd)[3],
           rev |-> Len(rollouts[r]), by |-> l,
           cohort |-> IF cmd = "start-canary" THEN CohortSnapshot ELSE None,
           gate |-> IF cmd \in CohortGated THEN CohortSnapshot ELSE None,
           target |-> target,
           checked |-> IF cmd \in CheckGated THEN CheckDischarges(r) ELSE {},
           reviewed |-> IF cmd = "promote" THEN ApprovedRound(Last(rollouts[r]).scope).discharged
                        ELSE {}])]
    /\ UNCHANGED <<custodyVars, handbackVars, scopeVars, defs, rollouts, runs, jobs>>

-----------------------------------------------------------------------------
(* Check runs. *)

RetryStream(r, q, c) ==
    {i \in DOMAIN runs : runs[i].rollout = r /\ runs[i].check = q /\ runs[i].snap = c}

\* The gate a run passes before it executes, and again under the lock when
\* it commits: pins are the latest, checks are running, and the stream of
\* attempts on this candidate has neither passed nor spent its retries.
Eligible(r, q, rev, def, c) ==
    /\ rollouts[r] # <<>>
    /\ rev = Len(rollouts[r]) /\ c = Last(rollouts[r]).snap
    /\ def > 0 /\ def = Len(defs[q])
    /\ Last(defs[q]).scope = Last(rollouts[r]).scope
    /\ RolloutState(r) = "checks-running"
    /\ Len(runs) < MaxRuns
    /\ \A i \in RetryStream(r, q, c) : runs[i].def = def /\ runs[i].status # "passed"
    /\ Cardinality(RetryStream(r, q, c)) <= Last(defs[q]).def.retries

\* A repeat of a committed request is answered from its row and starts
\* nothing; a repeat of one still in flight starts another run.
StartCheck(l, r, q, id, ev) ==
    /\ OwnsOpen(l)
    /\ \A i \in DOMAIN runs : runs[i].req # id
    /\ Cardinality(jobs) < MaxJobs
    /\ rollouts[r] # <<>>
    /\ Eligible(r, q, Len(rollouts[r]), Len(defs[q]), Last(rollouts[r]).snap)
    /\ jobs' = jobs \cup {[rollout |-> r, rev |-> Len(rollouts[r]), check |-> q,
                           def |-> Len(defs[q]), snap |-> Last(rollouts[r]).snap,
                           status |-> None, evidence |-> ev, by |-> l, req |-> id,
                           at |-> "preflight"]}
    /\ UNCHANGED <<custodyVars, handbackVars, scopeVars, defs, rollouts, rmoves, runs>>

\* The checkout is measured: the run goes on only if it is the candidate.
Measured(j) == tree[CandidateOf(j.snap).seat] = j.snap

MeasureBefore(j) ==
    /\ j.at = "preflight"
    /\ jobs' = (jobs \ {j}) \cup IF Measured(j) THEN {[j EXCEPT !.at = "running"]} ELSE {}
    /\ UNCHANGED <<custodyVars, handbackVars, scopeVars, defs, rollouts, rmoves, runs>>

\* The class runs, or is blocked, and the checkout is measured again.
MeasureAfter(j, status) ==
    /\ j.at = "running"
    /\ jobs' = (jobs \ {j}) \cup
         IF Measured(j) THEN {[j EXCEPT !.at = "measured", !.status = status]} ELSE {}
    /\ UNCHANGED <<custodyVars, handbackVars, scopeVars, defs, rollouts, rmoves, runs>>

\* The outcome is recorded if the gate still lets it.  The owner's request id
\* admits one body, and the outcome is part of it.  A passed run without the
\* evidence its definition asks for passes the gate, and the store refuses
\* the image it would write.
Recordable(j) ==
    /\ OwnsOpen(j.by)
    /\ \A i \in DOMAIN runs : runs[i].by = j.by => runs[i].req # j.req
    /\ Eligible(j.rollout, j.check, j.rev, j.def, j.snap)
    /\ j.status = "passed" /\ DefinitionOf(j.check, j.def).evidence => j.evidence

CommitRun(j) ==
    /\ j.at = "measured"
    /\ jobs' = jobs \ {j}
    /\ runs' = IF ~Recordable(j) THEN runs
               ELSE Append(runs, [rollout |-> j.rollout, rev |-> j.rev, check |-> j.check,
                      def |-> j.def, snap |-> j.snap, status |-> j.status,
                      evidence |-> j.evidence, by |-> j.by, req |-> j.req,
                      attempt |-> 1 + Cardinality(RetryStream(j.rollout, j.check, j.snap))])
    /\ UNCHANGED <<custodyVars, handbackVars, scopeVars, defs, rollouts, rmoves>>

RolloutNext ==
    \/ \E l \in Leads, q \in Checks, s \in Scopes, d \in Definitions : DeclareCheck(l, q, s, d)
    \/ \E l \in Leads, r \in Rollouts :
         \/ \E s \in Scopes, pin \in Pins : DeclareRollout(l, r, s, pin.snap, pin.required)
         \/ \E cmd \in RolloutCommands, c \in Snapshots \cup {None} : MoveRollout(l, r, cmd, c)
         \/ \E q \in Checks, id \in CheckRequests, ev \in BOOLEAN : StartCheck(l, r, q, id, ev)
    \/ \E j \in jobs :
         \/ MeasureBefore(j)
         \/ \E status \in {"passed", "failed"} : MeasureAfter(j, status)
         \/ CommitRun(j)

-----------------------------------------------------------------------------
(* What the loader demands of the rows. *)

DefinitionsRead ==
    \A q \in Checks : \A i \in DOMAIN defs[q] :
       LET d == defs[q][i] IN
       d.by \in Lineage /\ d.scope \in Declared

RolloutsRead ==
    \A r \in Rollouts : \A i \in DOMAIN rollouts[r] :
       LET d == rollouts[r][i] IN
       /\ d.by \in Lineage /\ d.scope \in Declared
       /\ CandidateOf(d.snap) # None
       /\ d.required \subseteq Definable(d.scope)
       /\ \A x, y \in d.required : x[1] = y[1] => x = y

RunsRead ==
    \A i \in DOMAIN runs :
       LET n == runs[i] IN
       /\ n.by \in Lineage
       /\ \A k \in DOMAIN runs : runs[k].by = n.by /\ runs[k].req = n.req => k = i
       /\ n.def \in DOMAIN defs[n.check] /\ n.rev \in DOMAIN rollouts[n.rollout]
       /\ n.snap = rollouts[n.rollout][n.rev].snap
       /\ defs[n.check][n.def].scope = rollouts[n.rollout][n.rev].scope
       /\ n.status = "passed" /\ DefinitionOf(n.check, n.def).evidence => n.evidence

\* The attempts on one candidate: one definition, numbered from 1, no more
\* than it allows.
RetriesRead ==
    \A i \in DOMAIN runs :
       LET S == RetryStream(runs[i].rollout, runs[i].check, runs[i].snap) IN
       /\ \A k \in S : runs[k].def = runs[i].def
       /\ {runs[k].attempt : k \in S} = 1..Cardinality(S)
       /\ Cardinality(S) <= 1 + DefinitionOf(runs[i].check, runs[i].def).retries

ChecksDischarged(r, m) ==
    LET d == rollouts[r][m.rev] IN
    /\ m.checked \subseteq DOMAIN runs
    /\ \A n \in m.checked : /\ runs[n].rollout = r /\ runs[n].status = "passed"
                            /\ runs[n].snap = d.snap
    /\ {runs[n].check : n \in m.checked} = {x[1] : x \in d.required}
    /\ Cardinality(m.checked) = Cardinality(d.required)

\* The reviews of a promotion are those that an approval of its candidate
\* consumed.
ReviewsDischarged(r, m) ==
    LET d == rollouts[r][m.rev]
        ms == moves[d.scope]
    IN /\ \A n \in m.reviewed : reviews[n].scope = d.scope /\ reviews[n].snap = d.snap
       /\ \E i \in DOMAIN ms :
            /\ ms[i].to = "approved" /\ ms[i].discharged = m.reviewed
            /\ LET pin == RoundIn(SubSeq(ms, 1, i)) IN
                 /\ pin # None /\ pin.snap = d.snap
                 /\ \A n \in m.reviewed : reviews[n].rev = pin.rev /\ reviews[n].brief = pin.brief
                 /\ m.reviewed = {} => Form(d.scope, pin.rev).plan = {}

RolloutMovesRead ==
    \A r \in Rollouts : \A i \in DOMAIN rmoves[r] :
       LET m == rmoves[r][i]
           start == LastIndex(SubSeq(rmoves[r], 1, i), LAMBDA x : x.command = "start-canary")
       IN
       /\ m.by \in Lineage /\ m.rev \in DOMAIN rollouts[r]
       /\ IF i = 1 THEN m.command = "declare" /\ m.from = None /\ m.to = "declared"
          ELSE m.from = rmoves[r][i - 1].to /\ <<m.from, m.command, m.to>> \in RolloutEdges
       /\ (m.cohort # None) = (m.command = "start-canary")
       /\ m.cohort # None => /\ m.cohort.members \subseteq Lineage \cup seats
                             /\ m.cohort.assignment \in 1..StructuralRevision
       /\ (m.target # None) = (m.command = "rollback")
       /\ m.target # None => CandidateOf(m.target) # None
       /\ IF m.command \in CheckGated THEN ChecksDischarged(r, m) ELSE m.checked = {}
       /\ IF m.command = "promote" THEN ReviewsDischarged(r, m) ELSE m.reviewed = {}
       /\ IF m.command \in CohortGated THEN start > 0 /\ m.gate = rmoves[r][start].cohort
          ELSE m.gate = None

-----------------------------------------------------------------------------
(* What it demands of a row at the event that appended it. *)

OwnersRows ==
    /\ \A q \in Checks : \A i \in DOMAIN defs'[q] \ DOMAIN defs[q] :
         defs'[q][i].by = EffectiveOwner
    /\ \A r \in Rollouts : \A i \in DOMAIN rollouts'[r] \ DOMAIN rollouts[r] :
         rollouts'[r][i].by = EffectiveOwner
    /\ \A i \in DOMAIN runs' \ DOMAIN runs : runs'[i].by = EffectiveOwner

PromotionTimely(r, i) ==
    LET m == rmoves'[r][i]
        d == rollouts[r][m.rev]
        app == ApprovedRound(d.scope)
    IN /\ m.rev = Len(rollouts[r])
       /\ Last(decls[d.scope]).brief = brief
       /\ app # None
       /\ app.pin.rev = Len(decls[d.scope]) /\ app.pin.brief = brief
       /\ app.pin.plan = Latest(d.scope).plan /\ app.pin.snap = d.snap
       /\ app.discharged = m.reviewed
       /\ \A n \in m.reviewed : reviews[n].by \notin ReviewExclusions(d.scope)

RolloutMoveTimely(r, i) ==
    LET m == rmoves'[r][i] IN
    /\ m.by = EffectiveOwner
    /\ m.command = "promote" => PromotionTimely(r, i)
=============================================================================
