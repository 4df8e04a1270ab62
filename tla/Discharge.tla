------------------------------ MODULE Discharge ------------------------------
(***************************************************************************)
(* The cleanup of an integration (phase "discharge"): the account of what  *)
(* its stage and backup hold is written beside them and verified, then     *)
(* each resource is removed under a permit of its own, the stage first.    *)
(* Two cycles are allowed for the account and for each resource; what is   *)
(* left after them keeps the target reserved (desk-task-execution.ts       *)
(* 1643-2082, desk-task.ts 1211-1859, desk-task-history.ts 137-433).       *)
(***************************************************************************)
EXTENDS Integrate

\* The content the proof of an integration says its target has.
ProofTarget(a) ==
    IF row[a].landed \/ (row[a].plan /\ hist[a].proof = "full-applied") THEN Combined(a) ELSE orig[a]

Accounted(cand) == {r \in Res : cand.dirs[r] # "none"}

\* A new account needs the proof of the landing with its whole backup, or,
\* without a plan, of the stage.
Candidate(a) == [target |-> target, dirs |-> [r \in Res |-> IF r \in Owed(a) THEN dir[a][r] ELSE "none"]]

CandidateReady(a) ==
    /\ IF row[a].plan
         THEN hist[a].proof \in {"full-applied", "original"} /\ RecoveryEvidence(a)
         ELSE hist[a].proof = "stage" /\ ~hist[a].landIssued /\ ~row[a].landed
    /\ \A r \in Owed(a) : disp[a][r] = "retained" /\ dir[a][r] \notin {"none", "gone"}

\* What is left to remove, the stage first.
Remaining(a) == {r \in Accounted(hist[a].cand) : disp[a][r] # "released"}
Foremost(a) == IF "stage" \in Remaining(a) THEN "stage" ELSE "backup"

\* The body that a fresh request gets; a retry whose intent is committed is
\* only replayed and ends the call.
DischargeBegin(c) ==
    /\ At(c, "discharge", "begin")
    /\ LET a == A(c)
           known == Sub(c, "intent") \in journal
           again == hist[a].verifies > 0
           ready == /\ row[a].state # "none" /\ ~known
                    /\ IF row[a].verified THEN Remaining(a) # {}
                       ELSE IF again THEN \A r \in Accounted(hist[a].cand) : dir[a][r] = hist[a].cand.dirs[r]
                       ELSE row[a].stageDir /\ CandidateReady(a)
           step == IF row[a].verified THEN "remove-resource" ELSE "verify-account" IN
       \/ /\ ready
          /\ call' = [call EXCEPT ![c] = [@ EXCEPT
                !.pc = "intent", !.step = step,
                !.res = IF row[a].verified THEN Foremost(a) ELSE "none",
                !.cand = IF row[a].verified \/ again THEN hist[a].cand ELSE Candidate(a)]]
          /\ UNCHANGED <<diskVars, ledgerVars, reqs, stale, used>>
       \/ ~ready /\ Refuse(c)

-----------------------------------------------------------------------------
\* The intent of one cleanup step.

\* An intent that was never issued may be taken over by another request.
Continues(c) ==
    LET a == A(c) IN
    /\ row[a].state = "intended" /\ row[a].phase = "discharge"
    /\ row[a].receipt = NoReceipt /\ row[a].body.step = call[c].step

VerifyAdmitted(c) ==
    LET a == A(c)  r == row[a].receipt IN
    /\ ~row[a].verified /\ hist[a].verifies < 2
    /\ call[c].cand.target = ProofTarget(a)
    /\ \A q \in Accounted(call[c].cand) : disp[a][q] = "retained"
    /\ ~row[a].plan => ~hist[a].landIssued /\ ~row[a].landed
    /\ hist[a].verifies = 1 =>
         /\ call[c].cand = hist[a].cand
         /\ \/ Continues(c)
            \/ /\ row[a].state = "held" /\ r.phase = "discharge"
               /\ r.step = "verify-account" /\ r.status = "held"

RemoveAdmitted(c) ==
    LET a == A(c)  res == call[c].res IN
    /\ row[a].verified /\ disp[a][res] = "retained" /\ hist[a].removals[res] < 2
    /\ res = "backup" => disp[a].stage = "released"

\* cleanupContinuationIntentAllowed: what may follow the last observation.
ContinuationAllowed(c) ==
    LET a == A(c)  r == row[a].receipt  b == row[a].body
        first == /\ call[c].step = "remove-resource" /\ Remaining(a) # {}
                 /\ call[c].res = Foremost(a) /\ hist[a].removals[call[c].res] = 0 IN
    IF b.step = "verify-account"
      THEN IF r.status = "held"
             THEN call[c].step = "verify-account" /\ hist[a].verifies = 1 /\ ~row[a].verified
             ELSE row[a].verified /\ first
      ELSE IF r.status = "held"
             THEN /\ call[c].step = "remove-resource" /\ call[c].res = b.res
                  /\ hist[a].removals[b.res] = b.ord
             ELSE first /\ call[c].res # b.res

\* The history rules, run on the image that the commit would leave.
DischargeEdge(c) ==
    LET a == A(c)  r == row[a].receipt IN
    IF Continues(c)
      THEN call[c].step = "verify-account" /\ hist[a].verifies = 1 /\ row[a].body.by # call[c].req
      ELSE /\ row[a].plan =>
                IF r.step # "none" THEN ContinuationAllowed(c)
                ELSE /\ r.phase \in {"land", "reconcile"} /\ r.status = "observed"
                     /\ r.class \in {"full-applied", "original"}
                     /\ ~(r.class = "original" /\ row[a].landed)
                     /\ call[c].step = "verify-account"
           /\ row[a].pre => r.step # "none" /\ ContinuationAllowed(c)

Dischargeable(c) ==
    /\ Qualified(c) /\ (Resting(A(c)) \/ Continues(c))
    /\ IF call[c].step = "verify-account" THEN VerifyAdmitted(c) ELSE RemoveAdmitted(c)
    /\ DischargeEdge(c)

DischargeIntent(c) ==
    /\ At(c, "discharge", "intent")
    /\ LET a == A(c)  res == call[c].res
           verify == call[c].step = "verify-account"
           known == Sub(c, "intent") \in journal
           ord == IF verify THEN 0 ELSE hist[a].removals[res] + 1 IN
       \/ /\ known /\ Go(c, IF verify THEN "issue" ELSE "preflight", "none")
          /\ UNCHANGED <<diskVars, ledgerVars, reqs, stale, used>>
       \/ /\ ~known /\ Dischargeable(c)
          /\ row' = [row EXCEPT ![a] = Intended(a, Body(c, "discharge", call[c].step, res, ord), FALSE)]
          /\ hist' = [hist EXCEPT ![a] = IF verify
                        THEN [@ EXCEPT !.verifies = hist[a].verifies + 1, !.cand = call[c].cand]
                        ELSE [@ EXCEPT !.removals[res] = ord]]
          /\ Commit(c, "intent") /\ tip' = a
          /\ Go(c, IF verify THEN "issue" ELSE "preflight", "none")
          /\ UNCHANGED <<diskVars, orig, disp, qual, reqs, used>>
       \/ ~known /\ ~Dischargeable(c) /\ Refuse(c)

-----------------------------------------------------------------------------
\* The account against what is on disk.

\* What every observation of the account needs before it says anything.
AccountStands(a) == target = hist[a].cand.target /\ a \notin drifted

IntactBut(a, res) ==
    \A r \in Accounted(hist[a].cand) \ {res} :
        IF disp[a][r] = "released" THEN dir[a][r] = "gone" ELSE dir[a][r] = hist[a].cand.dirs[r]

\* Missing entries need an earlier permit of the same resource that was issued.
Preflighted(a, res) ==
    /\ AccountStands(a) /\ artifact[a] = "full" /\ IntactBut(a, res)
    /\ \/ dir[a][res] = hist[a].cand.dirs[res]
       \/ dir[a][res] = "cut" /\ hist[a].permits[res] >= 1

Preflight(c) ==
    /\ At(c, "discharge", "preflight")
    /\ \/ /\ Preflighted(A(c), call[c].res)
          /\ call' = [call EXCEPT ![c] = [@ EXCEPT !.pc = "issue", !.seen = dir[A(c)]]]
          /\ UNCHANGED <<diskVars, ledgerVars, reqs, stale, used>>
       \/ ~Preflighted(A(c), call[c].res) /\ Refuse(c)

\* The account's bytes are written over nothing or over their own prefix;
\* the write may stop half way.
VerifyWork(c) ==
    /\ At(c, "discharge", "work") /\ call[c].step = "verify-account"
    /\ \E f \in {artifact[A(c)], "prefix", "full"} : artifact' = [artifact EXCEPT ![A(c)] = f]
    /\ Go(c, "measure", "none")
    /\ UNCHANGED <<target, drifted, dir, ledgerVars, reqs, stale, used>>

\* restoreIssuedStagePointer: a worktree is removed only if nothing moved
\* since its preflight; a directory is removed without looking again.
PointerStands(c) ==
    LET a == A(c) IN
    /\ c \notin stale /\ AccountStands(a) /\ artifact[a] = "full" /\ dir[a] = call[c].seen

RemoveWork(c) ==
    /\ At(c, "discharge", "work") /\ call[c].step = "remove-resource"
    /\ LET a == A(c)  res == call[c].res
           checked == res = "stage" /\ row[a].kind = "git-worktree" IN
       \E left \in {dir[a][res]} \cup (IF checked /\ ~PointerStands(c) THEN {} ELSE {"cut", "gone"}) :
          /\ dir[a][res] = "gone" => left = "gone"
          /\ dir' = [dir EXCEPT ![a][res] = left]
    /\ Go(c, "measure", "none")
    /\ UNCHANGED <<target, drifted, artifact, ledgerVars, reqs, stale, used>>

-----------------------------------------------------------------------------
\* The observation of a cleanup step, by its own call or by a reconcile.

\* Mutant: a directory that is only partly removed counts as gone.
FindingCut(a) ==
    LET b == row[a].body IN
    IF AccountStands(a) /\ (b.step = "verify-account" \/ (artifact[a] = "full" /\ IntactBut(a, b.res)))
      THEN IF artifact[a] = "full" /\ (b.step = "verify-account" \/ dir[a][b.res] \in {"cut", "gone"})
             THEN "observed" ELSE "held"
      ELSE "none"

\* What the observer finds; "none": it cannot say, and the call is refused.
Finding(a) ==
    LET b == row[a].body IN
    IF b.step = "verify-account"
      THEN IF AccountStands(a) /\ IntactBut(a, "none")
             THEN IF artifact[a] = "full" THEN "observed" ELSE "held"
             ELSE "none"
      ELSE IF AccountStands(a) /\ artifact[a] = "full" /\ IntactBut(a, b.res)
             THEN IF dir[a][b.res] = "gone" THEN "observed" ELSE "held"
             ELSE "none"

CleanupIssued(a) == row[a].state = "issued" /\ row[a].phase = "discharge" /\ row[a].body.phase = "discharge"

\* A discharge observes its own issue; a reconcile whatever cleanup is issued.
Measurable(c) ==
    /\ CleanupIssued(A(c)) /\ Sub(c, "observe") \notin journal
    /\ reqs[call[c].req].kind = "discharge" => row[A(c)].body.by = call[c].req
    /\ Finding(A(c)) # "none"

CleanMeasure(c) ==
    /\ At(c, "discharge", "measure") \/ At(c, "reconcile", "clean")
    /\ \/ /\ Measurable(c)
          /\ call' = [call EXCEPT ![c] = [@ EXCEPT !.pc = "settle", !.out = Finding(A(c)),
                                                   !.seen = row[A(c)]]]
          /\ UNCHANGED <<diskVars, ledgerVars, reqs, stale, used>>
       \/ ~Measurable(c) /\ Refuse(c)

\* The row is still the one that was measured; a reconcile's pins are too.
Settleable(c) == /\ row[A(c)] = call[c].seen /\ Sub(c, "observe") \notin journal
                 /\ reqs[call[c].req].kind = "reconcile" => Qualified(c)

CleanSettle(c) ==
    /\ call[c].pc = "settle"
    /\ LET a == A(c)  b == row[a].body  out == call[c].out
           done == out = "observed"
           phase == reqs[call[c].req].kind
           step == IF phase = "reconcile" /\ b.step = "remove-resource" THEN "reconcile-progress" ELSE b.step IN
       \/ /\ Settleable(c)
          /\ row' = [row EXCEPT ![a] = [Observed(a, out, Receipt(phase, step, out, "none"))
                        EXCEPT !.verified = @ \/ (done /\ b.step = "verify-account")]]
          /\ disp' = IF done /\ b.step = "remove-resource" THEN [disp EXCEPT ![a][b.res] = "released"] ELSE disp
          /\ Commit(c, "observe") /\ tip' = None /\ Return(c)
          /\ UNCHANGED <<diskVars, orig, hist, qual, reqs, used>>
       \/ ~Settleable(c) /\ Refuse(c)

\* reconcile once the cleanup has begun.
ReconcileClean(c) ==
    /\ At(c, "reconcile", "begin") /\ Cleaning(A(c))
    /\ \/ /\ CleanupIssued(A(c)) /\ Sub(c, "observe") \notin journal /\ Go(c, "clean", "none")
          /\ UNCHANGED <<diskVars, ledgerVars, reqs, stale, used>>
       \/ ~(CleanupIssued(A(c)) /\ Sub(c, "observe") \notin journal) /\ Refuse(c)

DischargeNext(c) == \/ DischargeBegin(c) \/ DischargeIntent(c) \/ Preflight(c) \/ VerifyWork(c)
                    \/ RemoveWork(c) \/ CleanMeasure(c) \/ CleanSettle(c) \/ ReconcileClean(c)

Next == \/ \E c \in Slots : \/ StageNext(c) \/ CheckNext(c) \/ LandNext(c) \/ ReconcileNext(c)
                            \/ DischargeNext(c) \/ Issue(c)
                            \/ \E q \in DOMAIN reqs : Retry(c, q)
                            \/ \E k \in {"stage", "check", "land", "discharge", "reconcile"}, a \in Actions :
                                  Call(c, k, a)
        \/ WorldNext

Spec == Init /\ [][Next]_vars

-----------------------------------------------------------------------------
\* Properties.

Settled(a) == hist[a].proof \in {"full-applied", "original"}

\* While the target holds content of an integration that nothing proves fully
\* applied, what it replaced can be put back: the backup of the admitted
\* original is complete on disk.  A crash, an edit or a second call between
\* backup, apply and observation must not leave a half-landed target bare.
RecoverableTarget ==
    \A a \in Actions :
        (\E p \in Paths : target[p] = a /\ orig[a][p] # a) /\ hist[a].proof # "full-applied"
            => dir[a].backup = "full"

\* Once a landing is proved applied or undone, no call that still runs for it
\* writes the target again: a reconcile never settles a landing whose apply
\* is still to come.
SettledStaysSettled ==
    [][\A c \in Slots : LandApply(c) /\ Settled(A(c)) => UNCHANGED target]_vars

\* A target is free for another integration only when nothing of the last one
\* is left on disk, though removals run beside observations and reconciles.
FreedMeansClean ==
    \A a \in Actions :
        row[a].state # "none" /\ ~Reserved(a) => /\ dir[a].stage = "gone"
                                                 /\ dir[a].backup \in {"none", "gone"}

=============================================================================
