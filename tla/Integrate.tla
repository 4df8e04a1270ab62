------------------------------ MODULE Integrate ------------------------------
(***************************************************************************)
(* slp_task_integrate: a ruled result is staged beside the target checkout,*)
(* checked there, landed path by path under a durable intent, and          *)
(* reconciled when its observation is lost (desk-task-execution.ts, with   *)
(* the decisions of desk-task.ts and the history rules of                  *)
(* desk-task-history.ts).  Several public calls run at once in one server  *)
(* process; between two awaits a call runs alone.  The ledger transaction  *)
(* itself is DeskStore's: a commit is one step here.                       *)
(***************************************************************************)
EXTENDS Naturals, Sequences, FiniteSets

CONSTANTS
    Actions,      \* integration actions, all of one target checkout
    Paths,        \* the paths a source result changed
    StageKinds,   \* "git-worktree", "content-dir"
    Required,     \* the proof policy has a required recipe
    Slots,        \* public calls running at once
    None,
    MaxReqs,      \* public requests
    MaxRetries,   \* requests sent again under their id
    MaxEdits,     \* edits of target or source by somebody else
    MaxMoves,     \* ledger commits of other commands
    MaxCrashes,   \* restarts of the server process
    MaxFaults     \* retries, edits, moves and crashes together

\* What is not an integration's own content is not an action.
ASSUME IntegrateAssumption == {"base", "other"} \cap Actions = {}

VARIABLES
    target,    \* content of each path in the target checkout
    drifted,   \* actions whose source checkout no longer measures to its result
    orig,      \* the target map that an action's admission pinned
    row,       \* latest revision of each action
    disp,      \* disposition of its stage and backup resources
    hist,      \* what the decisions read from its earlier revisions
    dir,       \* its stage and backup directories on disk
    artifact,  \* the file of its cleanup account
    qual,      \* the pinned result is still the qualified one
    tip,       \* action whose intent is the ledger's last commit
    reqs,      \* public requests, [kind, act]
    journal,   \* sub-requests of them that committed
    call,      \* what runs
    stale,     \* calls since whose pins something was committed
    used       \* retries, edits, moves and crashes so far

diskVars == <<target, drifted, dir, artifact>>
ledgerVars == <<orig, row, disp, hist, qual, tip, journal>>
vars == <<diskVars, ledgerVars, reqs, call, stale, used>>

Res == {"stage", "backup"}
Base == [p \in Paths |-> "base"]
Combined(a) == [p \in Paths |-> a]

NoBody == [phase |-> "none", step |-> "none", res |-> "none", ord |-> 0, by |-> 0]
NoReceipt == [phase |-> "none", step |-> "none", status |-> "none", class |-> "none"]
NoRow == [state |-> "none", phase |-> "none", kind |-> "none", body |-> NoBody,
          receipt |-> NoReceipt, stageDir |-> FALSE, passed |-> FALSE, plan |-> FALSE,
          landed |-> FALSE, verified |-> FALSE, pre |-> FALSE]
NoHist == [proof |-> "none", landIssued |-> FALSE, verifies |-> 0, cand |-> None,
           removals |-> [r \in Res |-> 0], permits |-> [r \in Res |-> 0]]
Idle == [req |-> 0, pc |-> "idle", seen |-> None, out |-> "none",
         step |-> "none", res |-> "none", cand |-> None]

Init ==
    /\ target = Base /\ drifted = {}
    /\ orig = [a \in Actions |-> Base] /\ row = [a \in Actions |-> NoRow]
    /\ disp = [a \in Actions |-> [r \in Res |-> "none"]]
    /\ hist = [a \in Actions |-> NoHist]
    /\ dir = [a \in Actions |-> [r \in Res |-> "none"]]
    /\ artifact = [a \in Actions |-> "missing"]
    /\ qual = TRUE /\ tip = None /\ reqs = <<>> /\ journal = {}
    /\ call = [c \in Slots |-> Idle] /\ stale = {}
    /\ used = [retries |-> 0, edits |-> 0, moves |-> 0, crashes |-> 0]

-----------------------------------------------------------------------------
\* Calls.

At(c, kind, pc) == call[c].pc = pc /\ reqs[call[c].req].kind = kind
A(c) == reqs[call[c].req].act
Sub(c, name) == <<call[c].req, name>>

Go(c, pc, out) == call' = [call EXCEPT ![c] = [@ EXCEPT !.pc = pc, !.out = out]]
Return(c) == call' = [call EXCEPT ![c] = Idle]

\* A refused phase changes nothing and ends the call.
Refuse(c) == Return(c) /\ UNCHANGED <<diskVars, ledgerVars, reqs, stale, used>>

\* A commit moves the ledger revision: every other call's pins are old now.
Commit(c, name) == /\ journal' = journal \cup {Sub(c, name)}
                   /\ stale' = Slots \ {c}

Started(c, q) == /\ call' = [call EXCEPT ![c] = [Idle EXCEPT !.req = q, !.pc = "begin"]]
                 /\ stale' = stale \ {c}

\* The owner sends a request that pins the revisions it has just read.
Call(c, kind, a) ==
    /\ call[c] = Idle /\ Len(reqs) < MaxReqs
    /\ IF kind = "stage"
         THEN row[a].state = "none" /\ \A q \in DOMAIN reqs : reqs[q].act # a
         ELSE row[a].state # "none"
    /\ reqs' = Append(reqs, [kind |-> kind, act |-> a])
    /\ Started(c, Len(reqs'))
    /\ UNCHANGED <<diskVars, ledgerVars, used>>

\* One more event of a bounded kind.
Spend(kind, max) ==
    /\ used[kind] < max /\ used.retries + used.edits + used.moves + used.crashes < MaxFaults
    /\ used' = [used EXCEPT ![kind] = @ + 1]

\* The same request again, perhaps while the first one still runs.
Retry(c, q) ==
    /\ call[c] = Idle /\ q \in DOMAIN reqs /\ Spend("retries", MaxRetries)
    /\ Started(c, q) /\ UNCHANGED <<diskVars, ledgerVars, reqs>>

-----------------------------------------------------------------------------
\* Decisions the phases share.

Qualified(c) == c \notin stale /\ qual                  \* phaseControlGate
Resting(a) == row[a].state \in {"observed", "held"}
Observable(a) == row[a].state \in {"issued", "uncertain", "held"}

\* Resources an action must release before its target is free.
Owed(a) == IF row[a].plan THEN Res ELSE {"stage"}

DischargeComplete(a) ==
    LET r == row[a].receipt IN
    /\ row[a].state = "observed" /\ r.status = "observed" /\ row[a].stageDir
    /\ r.step \in {"remove-resource", "reconcile-progress"}
    /\ ~row[a].plan => ~row[a].landed
    /\ \A q \in Owed(a) : disp[a][q] = "released"

Reserved(a) == row[a].state # "none" /\ ~DischargeComplete(a)

\* The current intent becomes an issue: only if nothing was committed since,
\* and the result is still the qualified one.  A sub-request that is already
\* committed never performs again.
Issuable(c) == /\ Sub(c, "issue") \notin journal
               /\ row[A(c)].state = "intended" /\ tip = A(c) /\ qual

Issue(c) ==
    /\ call[c].pc = "issue"
    /\ \/ /\ Issuable(c)
          /\ LET a == A(c)  b == row[a].body
                 permits == IF b.step = "remove-resource"
                              THEN [hist[a].permits EXCEPT ![b.res] = b.ord] ELSE hist[a].permits IN
             /\ row' = [row EXCEPT ![a] = [@ EXCEPT !.state = "issued",
                                             !.pre = row[a].pre \/ b.step = "remove-resource"]]
             /\ hist' = [hist EXCEPT ![a] = [@ EXCEPT
                            !.landIssued = hist[a].landIssued \/ b.phase = "land",
                            !.permits = permits]]
          /\ Commit(c, "issue") /\ tip' = None /\ Go(c, "work", call[c].out)
          /\ UNCHANGED <<diskVars, orig, disp, qual, reqs, used>>
       \/ ~Issuable(c) /\ Refuse(c)

\* The row of a phase intent.
Intended(a, b, withPlan) ==
    [row[a] EXCEPT !.state = "intended", !.phase = b.phase, !.body = b,
                   !.receipt = NoReceipt, !.plan = @ \/ withPlan,
                   !.pre = @ /\ b.phase # "discharge"]

Body(c, phase, step, res, ord) ==
    [phase |-> phase, step |-> step, res |-> res, ord |-> ord, by |-> call[c].req]

Receipt(phase, step, status, class) ==
    [phase |-> phase, step |-> step, status |-> status, class |-> class]

\* An observation: the receipt's phase is lifted onto the row.
Observed(a, state, r) ==
    [row[a] EXCEPT !.state = state, !.phase = r.phase, !.receipt = r]

-----------------------------------------------------------------------------
\* stage: measure, admit, materialize beside the target, observe.

\* threeWay: paths whose target content is neither the base nor the result.
Conflicts(a, base, t) == {p \in Paths : t[p] # base[p] /\ t[p] # a}

StageBegin(c) ==
    /\ At(c, "stage", "begin")
    /\ \/ /\ A(c) \notin drifted
          /\ call' = [call EXCEPT ![c] = [@ EXCEPT !.pc = "admit", !.seen = target]]
          /\ UNCHANGED <<diskVars, ledgerVars, reqs, stale, used>>
       \/ A(c) \in drifted /\ Refuse(c)

Admissible(c) == /\ Sub(c, "admit") \notin journal
                 /\ Qualified(c) /\ \A b \in Actions : ~Reserved(b)

\* Admission is the issue of the stage; the base was measured at placement.
StageAdmit(c, kind, base) ==
    /\ At(c, "stage", "admit")
    /\ \/ /\ Admissible(c)
          /\ row' = [row EXCEPT ![A(c)] = [@ EXCEPT !.state = "issued", !.phase = "stage", !.kind = kind]]
          /\ orig' = [orig EXCEPT ![A(c)] = call[c].seen]
          /\ Commit(c, "admit") /\ tip' = None
          /\ IF Conflicts(A(c), base, call[c].seen) = {} THEN Go(c, "work", "none") ELSE Return(c)
          /\ UNCHANGED <<diskVars, disp, hist, qual, reqs, used>>
       \/ ~Admissible(c) /\ Refuse(c)

\* Materializing copies the live target and source: it matches what was
\* admitted only if neither moved.  It may also throw, or find no HEAD.
StageWork(c) ==
    /\ At(c, "stage", "work")
    /\ \/ \E out \in {"observed", "failed"} :
            /\ out = "observed" => target = orig[A(c)] /\ A(c) \notin drifted
            /\ dir' = [dir EXCEPT ![A(c)].stage = IF out = "observed" THEN "full" ELSE "bad"]
            /\ Go(c, "observe", out)
            /\ UNCHANGED <<target, drifted, artifact, ledgerVars, reqs, stale, used>>
       \/ row[A(c)].kind = "git-worktree" /\ Refuse(c)

StageObserve(c) ==
    /\ At(c, "stage", "observe")
    /\ LET a == A(c)
           ok == Observable(a) /\ ~row[a].plan /\ disp[a].stage # "released" IN
       \/ /\ ok
          /\ row' = [row EXCEPT ![a] =
                [Observed(a, call[c].out, Receipt("stage", "none", call[c].out, "none"))
                    EXCEPT !.stageDir = TRUE]]
          /\ disp' = [disp EXCEPT ![a].stage = "retained"]
          /\ hist' = [hist EXCEPT ![a].proof = IF call[c].out = "observed" THEN "stage" ELSE @]
          /\ Commit(c, "observe") /\ tip' = None /\ Return(c)
          /\ UNCHANGED <<diskVars, orig, qual, reqs, used>>
       \/ ~ok /\ Refuse(c)

-----------------------------------------------------------------------------
\* check: recipes run in the stage, bracketed by measurements of it.

CheckBegin(c) ==
    /\ At(c, "check", "begin")
    /\ \/ /\ row[A(c)].stageDir /\ Go(c, "intent", "none")
          /\ UNCHANGED <<diskVars, ledgerVars, reqs, stale, used>>
       \/ ~row[A(c)].stageDir /\ Refuse(c)

CheckIntent(c) ==
    /\ At(c, "check", "intent")
    /\ LET a == A(c)
           known == Sub(c, "intent") \in journal
           ok == Qualified(c) /\ Resting(a) /\ ~row[a].plan IN
       \/ /\ known /\ Go(c, "issue", "none")
          /\ UNCHANGED <<diskVars, ledgerVars, reqs, stale, used>>
       \/ /\ ~known /\ ok
          /\ row' = [row EXCEPT ![a] = Intended(a, Body(c, "check", "none", "none", 0), FALSE)]
          /\ Commit(c, "intent") /\ tip' = a /\ Go(c, "issue", "none")
          /\ UNCHANGED <<diskVars, orig, disp, hist, qual, reqs, used>>
       \/ ~known /\ ~ok /\ Refuse(c)

\* A stage that is not the staged candidate is never checked; a recipe that
\* changes it spoils its own run.
CheckWork(c) ==
    /\ At(c, "check", "work")
    /\ LET a == A(c) IN
       \/ /\ dir[a].stage # "full" /\ Go(c, "observe", "drift") /\ UNCHANGED dir
       \/ /\ dir[a].stage = "full"
          /\ \/ \E out \in {"passed", "blocked"} : Go(c, "observe", out) /\ UNCHANGED dir
             \/ Go(c, "observe", "blocked") /\ dir' = [dir EXCEPT ![a].stage = "bad"]
    /\ UNCHANGED <<target, drifted, artifact, ledgerVars, reqs, stale, used>>

CheckObserve(c) ==
    /\ At(c, "check", "observe")
    /\ LET a == A(c)
           held == call[c].out = "drift"
           status == IF held THEN "held" ELSE "observed"
           ok == Observable(a) /\ ~row[a].plan /\ Sub(c, "observe") \notin journal IN
       \/ /\ ok
          /\ row' = [row EXCEPT ![a] = [Observed(a, status, Receipt("check", "none", status, "none"))
                        EXCEPT !.passed = IF held THEN @ ELSE call[c].out = "passed"]]
          /\ Commit(c, "observe") /\ tip' = None /\ Return(c)
          /\ UNCHANGED <<diskVars, orig, disp, hist, qual, reqs, used>>
       \/ ~ok /\ Refuse(c)

-----------------------------------------------------------------------------
\* land: plan, intent, issue, measure again, back up and apply, observe.

\* A row that has a plan is only replayed: its backup is planned as empty.
LandBegin(c) ==
    /\ At(c, "land", "begin")
    /\ LET a == A(c)  ok == row[a].stageDir /\ (row[a].plan \/ target = orig[a]) IN
       \/ ok /\ Go(c, IF row[a].plan THEN "intent" ELSE "plan", "none")
             /\ UNCHANGED <<diskVars, ledgerVars, reqs, stale, used>>
       \/ ~ok /\ Refuse(c)

\* Source and stage are measured after the target; then the backup is
\* planned from what the target holds by now.
LandPlan(c) ==
    /\ At(c, "land", "plan")
    /\ LET a == A(c)  ok == a \notin drifted /\ dir[a].stage = "full" IN
       \/ /\ ok
          /\ call' = [call EXCEPT ![c] = [@ EXCEPT !.pc = "intent", !.seen = target]]
          /\ UNCHANGED <<diskVars, ledgerVars, reqs, stale, used>>
       \/ ~ok /\ Refuse(c)

Landable(c) ==
    LET a == A(c) IN
    /\ Qualified(c) /\ Resting(a) /\ ~row[a].plan /\ row[a].phase \in {"stage", "check"}
    /\ disp[a] = [stage |-> "retained", backup |-> "none"]
    /\ Required => row[a].passed

LandIntent(c) ==
    /\ At(c, "land", "intent")
    /\ LET a == A(c)  known == Sub(c, "intent") \in journal IN
       \/ /\ known /\ Go(c, "issue", "none")
          /\ UNCHANGED <<diskVars, ledgerVars, reqs, stale, used>>
       \/ /\ ~known /\ Landable(c)
          /\ row' = [row EXCEPT ![a] = Intended(a, Body(c, "land", "none", "none", 0), TRUE)]
          /\ disp' = [disp EXCEPT ![a].backup = "retained"]
          /\ Commit(c, "intent") /\ tip' = a /\ Go(c, "issue", "none")
          /\ UNCHANGED <<diskVars, orig, hist, qual, reqs, used>>
       \/ ~known /\ ~Landable(c) /\ Refuse(c)

LandWork(c) ==
    /\ At(c, "land", "work")
    /\ LET a == A(c)
           ok == target = orig[a] /\ a \notin drifted /\ dir[a].stage = "full" IN
       Go(c, IF ok THEN "apply" ELSE "observe", "unknown")
    /\ UNCHANGED <<diskVars, ledgerVars, reqs, stale, used>>

\* What the backup of this call holds: the admitted original, if the plan
\* still equals the target, and the target what was admitted.
BackupWritten(c) ==
    IF call[c].seen = target /\ target = orig[A(c)] THEN "full" ELSE "bad"

\* Mutant: the backup is written and not read back.
BackupUnproved(c) == BackupWritten(c) \in {"full", "bad"}

\* verifyBackupIntegrity: the written backup proves the admitted original.
BackupProves(c) == BackupWritten(c) = "full"

\* Nothing else of this process runs between the backup and the last path.
\* Either may fail: then what was written so far stays.
LandApply(c) ==
    /\ At(c, "land", "apply")
    /\ LET a == A(c)  todo == {p \in Paths : target[p] # a} IN
       \/ /\ BackupProves(c)
          /\ dir' = [dir EXCEPT ![a].backup = BackupWritten(c)]
          /\ \E S \in SUBSET todo :
                /\ target' = [p \in Paths |-> IF p \in S THEN a ELSE target[p]]
                /\ Go(c, IF S = todo THEN "final" ELSE "observe", "unknown")
       \/ /\ dir' = [dir EXCEPT ![a].backup = "bad"]
          /\ Go(c, "observe", "unknown") /\ UNCHANGED target
    /\ UNCHANGED <<drifted, artifact, ledgerVars, reqs, stale, used>>

LandFinal(c) ==
    /\ At(c, "land", "final")
    /\ LET a == A(c)  full == dir[a].backup = "full" /\ target = Combined(a) IN
       Go(c, "observe", IF full THEN "full-applied" ELSE "unknown")
    /\ UNCHANGED <<diskVars, ledgerVars, reqs, stale, used>>

LandObserve(c) ==
    /\ At(c, "land", "observe")
    /\ LET a == A(c)
           full == call[c].out = "full-applied"
           status == IF full THEN "observed" ELSE "held"
           ok == /\ Observable(a) /\ Sub(c, "observe") \notin journal
                 /\ row[a].body.phase = "land" /\ row[a].body.by = call[c].req IN
       \/ /\ ok
          /\ row' = [row EXCEPT ![a] =
                [Observed(a, status, Receipt("land", "none", status, call[c].out))
                    EXCEPT !.landed = @ \/ full]]
          /\ hist' = [hist EXCEPT ![a].proof = IF full THEN "full-applied" ELSE @]
          /\ Commit(c, "observe") /\ tip' = None /\ Return(c)
          /\ UNCHANGED <<diskVars, orig, disp, qual, reqs, used>>
       \/ ~ok /\ Refuse(c)

-----------------------------------------------------------------------------
\* reconcile of an integration whose cleanup has not begun.

Cleaning(a) == hist[a].verifies > 0 \/ row[a].verified

\* Mutant: the plan alone is taken as its evidence.
PlanAlone(a) == row[a].plan

\* recoveryEvidence: the maps and the complete backup of the admitted plan.
RecoveryEvidence(a) == row[a].plan /\ dir[a].backup = "full"

ReconcileBegin(c) ==
    /\ At(c, "reconcile", "begin")
    /\ LET a == A(c) IN
       \/ /\ Sub(c, "observe") \notin journal /\ ~Cleaning(a)
          /\ IF RecoveryEvidence(a) THEN Go(c, "measure", "none") ELSE Go(c, "observe", "unproven")
          /\ UNCHANGED <<diskVars, ledgerVars, reqs, stale, used>>
       \/ Sub(c, "observe") \in journal /\ Refuse(c)

Classify(a, t) ==
    CASE t = Combined(a) -> "full-applied"
      [] t = orig[a] -> "original"
      [] t \notin {Combined(a), orig[a]} /\ (\A p \in Paths : t[p] \in {a, orig[a][p]}) -> "partial"
      [] OTHER -> "unknown"

ReconcileMeasure(c) ==
    /\ At(c, "reconcile", "measure")
    /\ Go(c, "observe", Classify(A(c), target))
    /\ UNCHANGED <<diskVars, ledgerVars, reqs, stale, used>>

\* taskIntegrationReconcileEdgeAllowed for a landing that was observed.
LandedEdge(a, class) ==
    /\ row[a].state = "observed" /\ row[a].phase = "land"
    /\ row[a].receipt.class = "full-applied"
    /\ \A q \in Res : disp[a][q] = "retained"
    /\ class \in {"full-applied", "original", "unproven"}

\* The state the decision gives; the history rules, run on the new image,
\* take no "held" row after an observed one whose receipt says "observed".
ReconciledState(a, class) ==
    CASE class = "full-applied" -> "observed"
      [] class = "original" -> IF row[a].landed THEN "held" ELSE "observed"
      [] OTHER -> "held"

Reconcilable(c) ==
    LET a == A(c)  class == call[c].out IN
    /\ Qualified(c)
    /\ Observable(a) \/ (LandedEdge(a, class) /\ ~(class = "original" /\ row[a].landed))
    /\ ~row[a].plan => class = "unproven"

ReconcileObserve(c) ==
    /\ At(c, "reconcile", "observe")
    /\ LET a == A(c)
           class == call[c].out
           status == IF class \in {"full-applied", "original"} THEN "observed" ELSE "held" IN
       \/ /\ Reconcilable(c)
          /\ row' = [row EXCEPT ![a] =
                [Observed(a, ReconciledState(a, class), Receipt("reconcile", "none", status, class))
                    EXCEPT !.landed = @ \/ class = "full-applied"]]
          /\ hist' = [hist EXCEPT ![a].proof = IF status = "observed" THEN class ELSE @]
          /\ Commit(c, "observe") /\ tip' = None /\ Return(c)
          /\ UNCHANGED <<diskVars, orig, disp, qual, reqs, used>>
       \/ ~Reconcilable(c) /\ Refuse(c)

-----------------------------------------------------------------------------
\* The rest of the world.

\* slp_task_reconcile finds no answer for an integration: an action without
\* a plan becomes uncertain, one with a plan refuses the receipt.
MarkUncertain(a) ==
    /\ Spend("moves", MaxMoves)
    /\ Observable(a) /\ ~row[a].plan
    /\ row' = [row EXCEPT ![a].state = "uncertain",
                          ![a].receipt = Receipt("reconciled", "none", "uncertain", "none")]
    /\ stale' = Slots /\ tip' = None
    /\ UNCHANGED <<diskVars, orig, disp, hist, qual, journal, reqs, call>>

\* Any other command commits; it may take the result's qualification away,
\* or give it back.
OtherCommit ==
    /\ Spend("moves", MaxMoves)
    /\ qual' \in BOOLEAN /\ stale' = Slots /\ tip' = None
    /\ UNCHANGED <<diskVars, orig, row, disp, hist, journal, reqs, call>>

EditTarget ==
    /\ Spend("edits", MaxEdits)
    /\ \E p \in Paths, v \in {"base", "other"} : target' = [target EXCEPT ![p] = v]
    /\ UNCHANGED <<drifted, dir, artifact, ledgerVars, reqs, call, stale>>

EditSource(a) ==
    /\ Spend("edits", MaxEdits)
    /\ drifted' = drifted \cup {a}
    /\ UNCHANGED <<target, dir, artifact, ledgerVars, reqs, call, stale>>

Crash ==
    /\ Spend("crashes", MaxCrashes)
    /\ call' = [c \in Slots |-> Idle]
    /\ UNCHANGED <<diskVars, ledgerVars, reqs, stale>>

StageNext(c) == \/ StageBegin(c) \/ StageWork(c) \/ StageObserve(c)
                \/ \E kind \in StageKinds, base \in {Base, target} : StageAdmit(c, kind, base)
CheckNext(c) == CheckBegin(c) \/ CheckIntent(c) \/ CheckWork(c) \/ CheckObserve(c)
LandNext(c) == \/ LandBegin(c) \/ LandPlan(c) \/ LandIntent(c) \/ LandWork(c)
               \/ LandApply(c) \/ LandFinal(c) \/ LandObserve(c)
ReconcileNext(c) == ReconcileBegin(c) \/ ReconcileMeasure(c) \/ ReconcileObserve(c)
WorldNext == \/ \E a \in Actions : MarkUncertain(a) \/ EditSource(a)
             \/ OtherCommit \/ EditTarget \/ Crash
=============================================================================
