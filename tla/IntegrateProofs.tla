--------------------------- MODULE IntegrateProofs ---------------------------
EXTENDS Discharge, SequenceTheorems, TLAPS

-----------------------------------------------------------------------------
(* The inductive invariant *)

Kinds == {"stage", "check", "land", "discharge", "reconcile"}
\* Every word a row or a call is written with.
Words ==
    {"idle", "begin", "admit", "work", "observe", "intent", "issue", "plan",
     "apply", "final", "measure", "preflight", "settle", "clean", "none", "stage",
     "check", "land", "discharge", "reconcile", "reconciled", "verify-account",
     "remove-resource", "reconcile-progress", "issued", "intended", "observed",
     "failed", "held", "uncertain", "passed", "blocked", "drift", "unknown",
     "full-applied", "original", "partial", "unproven", "retained", "released"}
Requests == [kind : Kinds, act : Actions]
Maps == [Paths -> Actions \cup {"base", "other"}]
Dirs == [Res -> {"none", "full", "bad", "cut", "gone"}]
Cands == [target : Maps, dirs : Dirs]
Bodies == [phase : Words, step : Words, res : Res \cup {"none"}, ord : Nat, by : Nat]
Receipts == [phase : Words, step : Words, status : Words, class : Words]
Rows == [state : Words, phase : Words, kind : StageKinds \cup {"none"}, body : Bodies,
         receipt : Receipts, stageDir : BOOLEAN, passed : BOOLEAN, plan : BOOLEAN,
         landed : BOOLEAN, verified : BOOLEAN, pre : BOOLEAN]
Hists == [proof : Words, landIssued : BOOLEAN, verifies : Nat, cand : Cands \cup {None},
          removals : [Res -> Nat], permits : [Res -> Nat]]
ToolCalls == [req : Nat, pc : Words, seen : Maps \cup Dirs \cup Rows \cup {None}, out : Words,
              step : Words, res : Res \cup {"none"}, cand : Cands \cup {None}]

TypeOK ==
    /\ target \in Maps
    /\ orig \in [Actions -> Maps]
    /\ row \in [Actions -> Rows]
    /\ disp \in [Actions -> [Res -> Words]]
    /\ hist \in [Actions -> Hists]
    /\ dir \in [Actions -> Dirs]
    /\ reqs \in Seq(Requests)
    /\ call \in [Slots -> ToolCalls]
    /\ \A j \in journal : j[1] \in DOMAIN reqs

Kind(k) == reqs[k.req].kind
Act(k) == reqs[k.req].act

\* The target holds content of an integration where it replaced something.
Holds(a) == \E p \in Paths : target[p] = a /\ orig[a][p] # a

\* A landing whose intent is on the ledger.
Planned(q) == reqs[q].kind = "land" /\ <<q, "intent">> \in journal

\* The landing of an action has been applied, or never will be.
Over(a) ==
    /\ row[a].plan
    /\ \A c \in Slots : call[c].pc \in {"work", "apply"} /\ Kind(call[c]) = "land" => Act(call[c]) # a
    /\ \A q \in DOMAIN reqs : Planned(q) /\ reqs[q].act = a => <<q, "issue">> \in journal

\* Only one landing of an action is ever planned, and one stage admitted.
PlannedOnce ==
    \A q, r \in DOMAIN reqs :
        /\ Planned(q) => row[reqs[q].act].plan
        /\ Planned(q) /\ Planned(r) /\ reqs[q].act = reqs[r].act => q = r
StagedOnce ==
    \A q, r \in DOMAIN reqs :
        reqs[q].kind = "stage" /\ <<q, "admit">> \notin journal
            => /\ row[reqs[q].act].state = "none"
               /\ reqs[r].act = reqs[q].act => r = q
OneStage ==
    \A q, r \in DOMAIN reqs :
        reqs[q].kind = "stage" /\ reqs[r].kind = "stage" /\ reqs[q].act = reqs[r].act => q = r

LandRuns(k) == k.pc \in {"work", "apply", "final", "observe"} /\ Kind(k) = "land"
StageRuns(k) == k.pc \in {"work", "observe"} /\ Kind(k) = "stage"

\* A request performs its landing or its stage in one call.
OneRuns ==
    \A c, d \in Slots :
        call[c].req = call[d].req /\ (\/ LandRuns(call[c]) /\ LandRuns(call[d])
                                      \/ StageRuns(call[c]) /\ StageRuns(call[d]))
            => c = d

\* What a running call relies on.
StageFits(k) ==
    /\ k.pc = "admit" => k.seen \in Maps
    /\ StageRuns(k) => /\ row[Act(k)].state # "none" /\ ~row[Act(k)].stageDir
                       /\ <<k.req, "admit">> \in journal
    /\ k.pc = "observe" /\ Kind(k) = "stage" => k.out \in {"observed", "failed"}
LandFits(k) ==
    /\ (k.pc = "issue" /\ Kind(k) = "land") \/ LandRuns(k) => <<k.req, "intent">> \in journal
    /\ LandRuns(k) => <<k.req, "issue">> \in journal
    /\ k.pc = "apply" => Kind(k) = "land" /\ ~Holds(Act(k))
ReconcileFits(k) ==
    Kind(k) = "reconcile" =>
        /\ k.pc = "measure" \/ (k.pc = "observe" /\ k.out # "unproven") => Over(Act(k))
        /\ k.pc = "observe" /\ k.out = "original" => ~Holds(Act(k))
DischargeFits(k) ==
    Kind(k) = "discharge" /\ k.pc # "begin" =>
        /\ row[Act(k)].stageDir /\ k.step \in {"verify-account", "remove-resource"}
        /\ k.cand \in Cands /\ (k.cand.dirs["backup"] # "none" => Settled(Act(k)))
        /\ k.step = "remove-resource" => k.res \in Res /\ (k.res = "backup" => Settled(Act(k)))
SettleFits(k) ==
    /\ k.pc = "issue" => Kind(k) # "stage"
    /\ k.pc = "settle" => /\ Kind(k) \in {"discharge", "reconcile"} /\ k.out \in {"observed", "held"}
                          /\ k.seen \in Rows
                          /\ k.out = "observed" /\ k.seen.body.step = "remove-resource"
                               => /\ k.seen.body.res \in Res
                                  /\ dir[Act(k)][k.seen.body.res] = "gone"
CallFits(k) ==
    k.pc # "idle" => /\ k.req \in DOMAIN reqs
                     /\ StageFits(k) /\ LandFits(k) /\ ReconcileFits(k) /\ DischargeFits(k) /\ SettleFits(k)

\* What the ledger's row of an action says of its landing and its resources.
RowFits(a) ==
    /\ row[a].state = "none" =>
         /\ ~row[a].plan /\ ~row[a].stageDir
         /\ \A p \in Paths : target[p] # a
         /\ \A q \in DOMAIN reqs : reqs[q].act = a => reqs[q].kind = "stage"
    /\ Settled(a) \/ dir[a]["backup"] # "none" => Over(a)
    /\ row[a].body.step # "none" \/ row[a].verified \/ hist[a].verifies > 0
         => /\ row[a].stageDir /\ hist[a].cand \in Cands
            /\ hist[a].cand.dirs["backup"] # "none" => Settled(a)
    /\ row[a].body.step = "remove-resource" => row[a].body.res \in Res
DiskFits(a) ==
    /\ dir[a]["stage"] \in {"cut", "gone"} => row[a].stageDir
    /\ \A r \in Res : disp[a][r] = "released" => dir[a][r] = "gone"
    /\ Holds(a) /\ hist[a].proof # "full-applied" => dir[a]["backup"] = "full"
    /\ hist[a].proof = "original" => ~Holds(a)

Inv ==
    /\ TypeOK /\ PlannedOnce /\ StagedOnce /\ OneStage /\ OneRuns
    /\ \A c \in Slots : CallFits(call[c])
    /\ \A a \in Actions : RowFits(a) /\ DiskFits(a)

-----------------------------------------------------------------------------
(* What a step that leaves things as they are preserves *)

\* They are words.
LEMMA Wording ==
    /\ "idle" \in Words /\ "begin" \in Words /\ "admit" \in Words
    /\ "work" \in Words /\ "observe" \in Words /\ "intent" \in Words
    /\ "issue" \in Words /\ "plan" \in Words /\ "apply" \in Words
    /\ "final" \in Words /\ "measure" \in Words /\ "preflight" \in Words
    /\ "settle" \in Words /\ "clean" \in Words /\ "none" \in Words
    /\ "stage" \in Words /\ "check" \in Words /\ "land" \in Words
    /\ "discharge" \in Words /\ "reconcile" \in Words /\ "reconciled" \in Words
    /\ "verify-account" \in Words /\ "remove-resource" \in Words /\ "reconcile-progress" \in Words
    /\ "issued" \in Words /\ "intended" \in Words /\ "observed" \in Words
    /\ "failed" \in Words /\ "held" \in Words /\ "uncertain" \in Words
    /\ "passed" \in Words /\ "blocked" \in Words /\ "drift" \in Words
    /\ "unknown" \in Words /\ "full-applied" \in Words /\ "original" \in Words
    /\ "partial" \in Words /\ "unproven" \in Words /\ "retained" \in Words
    /\ "released" \in Words
BY DEF Words

LEMMA Requested ==
    ASSUME Inv
    PROVE  /\ DOMAIN reqs = 1..Len(reqs) /\ Len(reqs) \in Nat
           /\ \A q \in DOMAIN reqs : reqs[q] \in Requests
<1>1. reqs \in Seq(Requests)
  BY DEF Inv, TypeOK
<1>2. Len(reqs) \in Nat /\ DOMAIN reqs = 1..Len(reqs)
  BY <1>1, LenProperties
<1> QED
  BY <1>1, <1>2, ElementOfSeq

LEMMA Running ==
    ASSUME Inv, NEW c \in Slots, call[c].pc # "idle"
    PROVE  /\ call[c] \in ToolCalls /\ call[c].req \in DOMAIN reqs
           /\ reqs[call[c].req] \in Requests
           /\ Kind(call[c]) \in Kinds /\ Act(call[c]) \in Actions
           /\ A(c) = Act(call[c]) /\ A(c) \in Actions
           /\ row[A(c)] \in Rows /\ hist[A(c)] \in Hists /\ disp[A(c)] \in [Res -> Words] /\ dir[A(c)] \in Dirs
           /\ RowFits(A(c)) /\ DiskFits(A(c)) /\ CallFits(call[c])
<1>1. call[c] \in ToolCalls /\ call[c].req \in DOMAIN reqs /\ CallFits(call[c])
  BY DEF Inv, TypeOK, CallFits
<1>2. reqs[call[c].req] \in Requests
  BY <1>1, Requested
<1>3. Kind(call[c]) \in Kinds /\ Act(call[c]) \in Actions /\ A(c) = Act(call[c])
  BY <1>2 DEF Kind, Act, A, Requests
<1>4. A(c) \in Actions
  BY <1>3
<1>5. row[A(c)] \in Rows /\ hist[A(c)] \in Hists /\ disp[A(c)] \in [Res -> Words] /\ dir[A(c)] \in Dirs
  BY <1>4 DEF Inv, TypeOK
<1>6. RowFits(A(c)) /\ DiskFits(A(c))
  BY <1>4 DEF Inv
<1> QED
  BY <1>1, <1>2, <1>3, <1>4, <1>5, <1>6

\* A call that stays where it is goes on fitting.
LEMMA KeepsFitting ==
    ASSUME NEW d \in Slots, CallFits(call[d]), call'[d] = call[d],
           \A q \in DOMAIN reqs : q \in DOMAIN reqs' /\ reqs'[q] = reqs[q],
           journal \subseteq journal',
           call[d].pc # "idle" => Act(call[d]) \in Actions,
           \A a \in Actions : /\ row[a].state # "none" => row'[a].state # "none"
                              /\ row[a].stageDir => row'[a].stageDir
                              /\ Over(a) => Over(a)'
                              /\ Settled(a) => Settled(a)',
           StageRuns(call[d]) => ~row'[Act(call[d])].stageDir,
           (call[d].pc = "apply" \/ (Kind(call[d]) = "reconcile" /\ call[d].pc = "observe" /\ call[d].out = "original"))
             /\ Holds(Act(call[d]))' => Holds(Act(call[d])),
           \A r \in Res : call[d].pc = "settle" /\ dir[Act(call[d])][r] = "gone"
                             => dir'[Act(call[d])][r] = "gone"
    PROVE  CallFits(call[d])'
<1> SUFFICES ASSUME call[d].pc # "idle" PROVE CallFits(call[d])'
  BY DEF CallFits
<1>1. call[d].req \in DOMAIN reqs /\ call[d].req \in DOMAIN reqs' /\ reqs'[call[d].req] = reqs[call[d].req]
  BY DEF CallFits
<1>2. Kind(call[d])' = Kind(call[d]) /\ Act(call[d])' = Act(call[d]) /\ Act(call[d]) \in Actions
  BY <1>1 DEF Kind, Act
<1>3. StageFits(call[d])'
  BY <1>2 DEF CallFits, StageFits, StageRuns, Maps
<1>4. LandFits(call[d])'
  BY <1>2 DEF CallFits, LandFits, LandRuns
<1>5. ReconcileFits(call[d])'
  BY <1>2 DEF CallFits, ReconcileFits
<1>6. DischargeFits(call[d])'
  BY <1>2 DEF CallFits, DischargeFits, Cands, Maps
<1>7. SettleFits(call[d])'
  <2>2. SettleFits(call[d])
    BY DEF CallFits
  <2>3. /\ call[d].pc = "settle" => call[d].seen \in Rows
        /\ call[d].pc = "settle" /\ call[d].out = "observed" /\ call[d].seen.body.step = "remove-resource"
             => /\ call[d].seen.body.res \in Res
                /\ dir'[Act(call[d])][call[d].seen.body.res] = "gone"
    BY <2>2 DEF SettleFits
  <2>4. QED
    BY <1>2, <2>2, <2>3 DEF SettleFits
<1> QED
  BY <1>1, <1>3, <1>4, <1>5, <1>6, <1>7 DEF CallFits

\* An action whose row, resources and landing stay as they are goes on fitting.
LEMMA KeepsAction ==
    ASSUME NEW a \in Actions, RowFits(a), DiskFits(a),
           row'[a] = row[a], hist'[a] = hist[a], disp'[a] = disp[a], dir'[a] = dir[a],
           Over(a) => Over(a)', Holds(a)' => Holds(a),
           row[a].state = "none" => /\ \A p \in Paths : target'[p] # a
                                    /\ \A q \in DOMAIN reqs' : reqs'[q].act = a => reqs'[q].kind = "stage"
    PROVE  RowFits(a)' /\ DiskFits(a)'
<1>1. Settled(a)' <=> Settled(a)
  BY DEF Settled
<1>2. RowFits(a)'
  BY <1>1 DEF RowFits, Cands, Maps
<1>3. DiskFits(a)'
  BY DEF DiskFits
<1> QED
  BY <1>2, <1>3

\* What a call step does not touch.
LEMMA OverStays ==
    ASSUME Inv, NEW c \in Slots, NEW k \in ToolCalls, NEW a \in Actions, Over(a),
           call' = [call EXCEPT ![c] = k], reqs' = reqs, row'[a].plan, journal \subseteq journal',
           k.pc \in {"work", "apply"} /\ Kind(k) = "land"
             => call[c].pc \in {"work", "apply"} /\ k.req = call[c].req,
           \A q \in DOMAIN reqs : Planned(q)' => Planned(q)
    PROVE  Over(a)'
<1>1. \A d \in Slots : call'[d] = IF d = c THEN k ELSE call[d]
  BY DEF Inv, TypeOK
<1>2. \A d \in Slots : call'[d].pc \in {"work", "apply"} /\ Kind(call[d])' = "land" => Act(call[d])' # a
  <2> SUFFICES ASSUME NEW d \in Slots, call'[d].pc \in {"work", "apply"}, Kind(call[d])' = "land"
               PROVE  Act(call[d])' # a
    OBVIOUS
  <2>1. CASE d = c
    BY <1>1, <2>1 DEF Over, Kind, Act
  <2>2. CASE d # c
    BY <1>1, <2>2 DEF Over, Kind, Act
  <2>3. QED
    BY <2>1, <2>2
<1>3. \A q \in DOMAIN reqs' : Planned(q)' /\ reqs'[q].act = a => <<q, "issue">> \in journal'
  BY DEF Over
<1> QED
  BY <1>2, <1>3 DEF Over

\* A call goes on, waits or ends.
LEMMA CallStep ==
    ASSUME Inv, NEW c \in Slots, NEW k \in ToolCalls, call' = [call EXCEPT ![c] = k],
           UNCHANGED <<target, orig, row, disp, hist, dir, journal, reqs>>,
           CallFits(call[c])',
           LandRuns(k) => /\ LandRuns(call[c]) /\ k.req = call[c].req
                          /\ k.pc \in {"work", "apply"} => call[c].pc \in {"work", "apply"},
           StageRuns(k) => StageRuns(call[c]) /\ k.req = call[c].req
    PROVE  Inv'
<1>1. \A d \in Slots : call'[d] = IF d = c THEN k ELSE call[d]
  BY DEF Inv, TypeOK
<1>2. \A a \in Actions : Over(a) => Over(a)'
  BY OverStays DEF Over, Planned, LandRuns
<1>3. \A a \in Actions : (Settled(a)' <=> Settled(a)) /\ (Holds(a)' <=> Holds(a))
  BY DEF Settled, Holds
<1>4. \A d \in Slots : CallFits(call[d])'
  <2> SUFFICES ASSUME NEW d \in Slots, d # c PROVE CallFits(call[d])'
    OBVIOUS
  <2>1. call'[d] = call[d] /\ CallFits(call[d])
    BY <1>1 DEF Inv
  <2>2. call[d].pc # "idle" => Act(call[d]) \in Actions
    BY Running
  <2>3. StageRuns(call[d]) => ~row'[Act(call[d])].stageDir
    BY <2>1 DEF CallFits, StageFits, StageRuns
  <2>4. call[d].pc # "idle" => (Holds(Act(call[d]))' => Holds(Act(call[d])))
    BY <2>1 DEF Holds, Act
  <2>5. QED
    BY <1>2, <1>3, <2>1, <2>2, <2>3, <2>4, KeepsFitting
<1>5. \A a \in Actions : RowFits(a)' /\ DiskFits(a)'
  BY <1>2, <1>3, KeepsAction DEF Inv, RowFits
<1>6. TypeOK'
  BY <1>1 DEF Inv, TypeOK
<1>7. PlannedOnce' /\ StagedOnce' /\ OneStage'
  BY DEF Inv, PlannedOnce, StagedOnce, OneStage, Planned
<1>8. OneRuns'
  BY <1>1 DEF Inv, OneRuns, LandRuns, StageRuns, Kind
<1> QED
  BY <1>4, <1>5, <1>6, <1>7, <1>8 DEF Inv

-----------------------------------------------------------------------------
(* Steps of a call that touch neither the ledger nor what the proof reads of *)
(* the disk                                                                  *)

\* A call that ends.
LEMMA EndStep ==
    ASSUME Inv, NEW c \in Slots, Return(c),
           UNCHANGED <<target, orig, row, disp, hist, dir, journal, reqs>>
    PROVE  Inv'
<1>1. Idle \in ToolCalls /\ Idle.pc = "idle"
  BY Wording DEF Idle, ToolCalls
<1>2. call' = [call EXCEPT ![c] = Idle] /\ call'[c] = Idle
  BY DEF Return, Inv, TypeOK
<1>3. CallFits(call[c])'
  BY <1>1, <1>2 DEF CallFits
<1>4. ~LandRuns(Idle) /\ ~StageRuns(Idle)
  BY <1>1 DEF LandRuns, StageRuns
<1> QED
  BY <1>1, <1>2, <1>3, <1>4, CallStep

LEMMA RefuseStep == ASSUME Inv, NEW c \in Slots, Refuse(c) PROVE Inv'
BY EndStep DEF Refuse, diskVars, ledgerVars

\* What Go leaves of the call.
LEMMA GoFacts ==
    ASSUME Inv, NEW c \in Slots, call[c].pc # "idle", NEW pc \in Words, NEW out \in Words, Go(c, pc, out),
           reqs' = reqs
    PROVE  /\ \E k \in ToolCalls :
                /\ call' = [call EXCEPT ![c] = k]
                /\ k.pc = pc /\ k.out = out /\ k.req = call[c].req /\ k.seen = call[c].seen
                /\ k.step = call[c].step /\ k.res = call[c].res /\ k.cand = call[c].cand
           /\ call'[c].pc = pc /\ call'[c].out = out /\ call'[c].req = call[c].req
           /\ call'[c].seen = call[c].seen /\ call'[c].step = call[c].step
           /\ call'[c].res = call[c].res /\ call'[c].cand = call[c].cand
           /\ Kind(call[c])' = Kind(call[c]) /\ Act(call[c])' = Act(call[c])
<1> DEFINE k == [call[c] EXCEPT !.pc = pc, !.out = out]
<1>1. call[c] \in ToolCalls
  BY DEF Inv, TypeOK
<1>2. /\ k \in ToolCalls /\ k.pc = pc /\ k.out = out /\ k.req = call[c].req /\ k.seen = call[c].seen
      /\ k.step = call[c].step /\ k.res = call[c].res /\ k.cand = call[c].cand
  BY <1>1 DEF ToolCalls
<1>3. call' = [call EXCEPT ![c] = k] /\ call'[c] = k
  BY DEF Go, Inv, TypeOK
<1> HIDE DEF k
<1>4. call'[c].req = call[c].req
  BY <1>2, <1>3
<1>5. Kind(call[c])' = Kind(call[c]) /\ Act(call[c])' = Act(call[c])
  BY <1>4 DEF Kind, Act
<1> QED
  BY <1>2, <1>3, <1>5

\* A call that goes on without having performed anything.
LEMMA GoStep ==
    ASSUME Inv, NEW c \in Slots, call[c].pc # "idle", NEW pc \in Words, NEW out \in Words, Go(c, pc, out),
           UNCHANGED <<target, orig, row, disp, hist, dir, journal, reqs>>,
           CallFits(call[c])',
           Kind(call[c]) = "land" /\ pc \in {"work", "apply", "final", "observe"}
             => /\ call[c].pc \in {"work", "apply", "final", "observe"}
                /\ pc \in {"work", "apply"} => call[c].pc \in {"work", "apply"},
           Kind(call[c]) = "stage" => pc \notin {"work", "observe"} \/ call[c].pc \in {"work", "observe"}
    PROVE  Inv'
<1>1. PICK k \in ToolCalls : /\ call' = [call EXCEPT ![c] = k]
                             /\ k.pc = pc /\ k.out = out /\ k.req = call[c].req
  BY GoFacts
<1>2. Kind(k) = Kind(call[c])
  BY <1>1 DEF Kind
<1> QED
  BY <1>1, <1>2, CallStep DEF LandRuns, StageRuns

LEMMA StageBeginStep == ASSUME Inv, NEW c \in Slots, StageBegin(c) PROVE Inv'
<1>1. CASE Refuse(c)
  BY <1>1, RefuseStep
<1>2. CASE ~Refuse(c)
  <2> DEFINE k == [call[c] EXCEPT !.pc = "admit", !.seen = target]
  <2>1. /\ Kind(call[c]) = "stage" /\ call[c].pc = "begin" /\ call' = [call EXCEPT ![c] = k]
        /\ UNCHANGED <<target, orig, row, disp, hist, dir, journal, reqs>>
    BY <1>2 DEF StageBegin, At, Kind, diskVars, ledgerVars
  <2>2. call[c] \in ToolCalls /\ call[c].req \in DOMAIN reqs /\ target \in Maps
    BY <2>1, Running DEF Inv, TypeOK
  <2>3. k \in ToolCalls /\ k.pc = "admit" /\ k.seen = target /\ k.req = call[c].req
    BY <2>2, Wording DEF ToolCalls
  <2>4. call'[c] = k
    BY <2>1 DEF Inv, TypeOK
  <2> HIDE DEF k
  <2>5. Kind(call[c])' = "stage"
    BY <2>1, <2>3, <2>4 DEF Kind
  <2>6. Maps' = Maps
    BY DEF Maps
  <2>7. CallFits(call[c])'
    BY <2>1, <2>2, <2>3, <2>4, <2>5, <2>6
    DEF CallFits, StageFits, LandFits, ReconcileFits, DischargeFits, SettleFits, StageRuns, LandRuns
  <2>8. ~LandRuns(k) /\ ~StageRuns(k)
    BY <2>3 DEF LandRuns, StageRuns
  <2>9. QED
    BY <2>1, <2>3, <2>7, <2>8, CallStep
<1> QED
  BY <1>1, <1>2

LEMMA CheckBeginStep == ASSUME Inv, NEW c \in Slots, CheckBegin(c) PROVE Inv'
<1>1. CASE Refuse(c)
  BY <1>1, RefuseStep
<1>2. CASE ~Refuse(c)
  <2>1. /\ Kind(call[c]) = "check" /\ call[c].pc = "begin" /\ Go(c, "intent", "none")
        /\ UNCHANGED <<target, orig, row, disp, hist, dir, journal, reqs>>
    BY <1>2 DEF CheckBegin, At, Kind, diskVars, ledgerVars
  <2>2. /\ call'[c].pc = "intent" /\ call'[c].req = call[c].req /\ Kind(call[c])' = "check"
        /\ call[c].req \in DOMAIN reqs
    BY <2>1, GoFacts, Running, Wording
  <2>3. CallFits(call[c])'
    BY <2>1, <2>2
    DEF CallFits, StageFits, LandFits, ReconcileFits, DischargeFits, SettleFits, StageRuns, LandRuns
  <2>4. QED
    BY <2>1, <2>3, GoStep, Wording
<1> QED
  BY <1>1, <1>2

LEMMA LandBeginStep == ASSUME Inv, NEW c \in Slots, LandBegin(c) PROVE Inv'
<1>1. CASE Refuse(c)
  BY <1>1, RefuseStep
<1>2. CASE ~Refuse(c)
  <2>1. /\ Kind(call[c]) = "land" /\ call[c].pc = "begin"
        /\ UNCHANGED <<target, orig, row, disp, hist, dir, journal, reqs>>
    BY <1>2 DEF LandBegin, At, Kind, diskVars, ledgerVars
  <2>2. PICK pc \in {"intent", "plan"} : Go(c, pc, "none")
    BY <1>2 DEF LandBegin
  <2>3. pc \in Words /\ "none" \in Words
    BY <2>2, Wording
  <2>4. /\ call'[c].pc = pc /\ call'[c].req = call[c].req /\ Kind(call[c])' = "land"
        /\ call[c].req \in DOMAIN reqs
    BY <2>1, <2>2, <2>3, GoFacts, Running
  <2>5. CallFits(call[c])'
    BY <2>1, <2>2, <2>4
    DEF CallFits, StageFits, LandFits, ReconcileFits, DischargeFits, SettleFits, StageRuns, LandRuns
  <2>6. QED
    BY <2>1, <2>2, <2>3, <2>5, GoStep
<1> QED
  BY <1>1, <1>2

LEMMA LandPlanStep == ASSUME Inv, NEW c \in Slots, LandPlan(c) PROVE Inv'
<1>1. CASE Refuse(c)
  BY <1>1, RefuseStep
<1>2. CASE ~Refuse(c)
  <2> DEFINE k == [call[c] EXCEPT !.pc = "intent", !.seen = target]
  <2>1. /\ Kind(call[c]) = "land" /\ call[c].pc = "plan" /\ call' = [call EXCEPT ![c] = k]
        /\ UNCHANGED <<target, orig, row, disp, hist, dir, journal, reqs>>
    BY <1>2 DEF LandPlan, At, Kind, diskVars, ledgerVars
  <2>2. call[c] \in ToolCalls /\ call[c].req \in DOMAIN reqs /\ target \in Maps
    BY <2>1, Running DEF Inv, TypeOK
  <2>3. k \in ToolCalls /\ k.pc = "intent" /\ k.req = call[c].req
    BY <2>2, Wording DEF ToolCalls
  <2>4. call'[c] = k
    BY <2>1 DEF Inv, TypeOK
  <2> HIDE DEF k
  <2>5. Kind(call[c])' = "land"
    BY <2>1, <2>3, <2>4 DEF Kind
  <2>6. CallFits(call[c])'
    BY <2>1, <2>2, <2>3, <2>4, <2>5
    DEF CallFits, StageFits, LandFits, ReconcileFits, DischargeFits, SettleFits, StageRuns, LandRuns
  <2>7. ~LandRuns(k) /\ ~StageRuns(k)
    BY <2>3 DEF LandRuns, StageRuns
  <2>8. QED
    BY <2>1, <2>3, <2>6, <2>7, CallStep
<1> QED
  BY <1>1, <1>2

\* The target is measured again: what is applied replaces the admitted original.
LEMMA LandWorkStep == ASSUME Inv, NEW c \in Slots, LandWork(c) PROVE Inv'
<1>1. /\ Kind(call[c]) = "land" /\ call[c].pc = "work"
      /\ UNCHANGED <<target, orig, row, disp, hist, dir, journal, reqs>>
  BY DEF LandWork, At, Kind, diskVars, ledgerVars
<1>2. PICK pc \in {"apply", "observe"} : Go(c, pc, "unknown") /\ (pc = "apply" => target = orig[A(c)])
  BY DEF LandWork
<1>3. pc \in Words /\ "unknown" \in Words
  BY <1>2, Wording
<1>4. /\ call'[c].pc = pc /\ call'[c].req = call[c].req /\ Kind(call[c])' = "land"
      /\ call[c].req \in DOMAIN reqs /\ Act(call[c])' = Act(call[c]) /\ A(c) = Act(call[c])
  BY <1>1, <1>2, <1>3, GoFacts, Running
<1>5. pc = "apply" => ~Holds(Act(call[c]))'
  BY <1>1, <1>2, <1>4 DEF Holds
<1>6. LandFits(call[c])
  BY <1>1, Running DEF CallFits
<1>7. CallFits(call[c])'
  BY <1>1, <1>2, <1>4, <1>5, <1>6
  DEF CallFits, StageFits, LandFits, ReconcileFits, DischargeFits, SettleFits, StageRuns, LandRuns
<1> QED
  BY <1>1, <1>2, <1>3, <1>7, GoStep

LEMMA LandFinalStep == ASSUME Inv, NEW c \in Slots, LandFinal(c) PROVE Inv'
<1>1. /\ Kind(call[c]) = "land" /\ call[c].pc = "final"
      /\ UNCHANGED <<target, orig, row, disp, hist, dir, journal, reqs>>
  BY DEF LandFinal, At, Kind, diskVars, ledgerVars
<1>2. PICK out \in {"full-applied", "unknown"} : Go(c, "observe", out)
  BY DEF LandFinal
<1>3. out \in Words /\ "observe" \in Words
  BY <1>2, Wording
<1>4. /\ call'[c].pc = "observe" /\ call'[c].req = call[c].req /\ Kind(call[c])' = "land"
      /\ call[c].req \in DOMAIN reqs
  BY <1>1, <1>2, <1>3, GoFacts, Running
<1>5. LandFits(call[c])
  BY <1>1, Running DEF CallFits
<1>6. CallFits(call[c])'
  BY <1>1, <1>4, <1>5
  DEF CallFits, StageFits, LandFits, ReconcileFits, DischargeFits, SettleFits, StageRuns, LandRuns
<1> QED
  BY <1>1, <1>2, <1>3, <1>6, GoStep

\* A complete backup means that the landing is over.
LEMMA ReconcileBeginStep == ASSUME Inv, NEW c \in Slots, ReconcileBegin(c) PROVE Inv'
<1>1. CASE Refuse(c)
  BY <1>1, RefuseStep
<1>2. CASE ~Refuse(c)
  <2>1. /\ Kind(call[c]) = "reconcile" /\ call[c].pc = "begin"
        /\ UNCHANGED <<target, orig, row, disp, hist, dir, journal, reqs>>
    BY <1>2 DEF ReconcileBegin, At, Kind, diskVars, ledgerVars
  <2>2. PICK pc \in {"measure", "observe"}, out \in {"none", "unproven"} :
          /\ Go(c, pc, out) /\ (pc = "observe" => out = "unproven")
          /\ pc = "measure" => dir[A(c)].backup = "full"
    BY <1>2 DEF ReconcileBegin, RecoveryEvidence
  <2>3. pc \in Words /\ out \in Words
    BY <2>2, Wording
  <2>4. /\ call'[c].pc = pc /\ call'[c].out = out /\ call'[c].req = call[c].req
        /\ Kind(call[c])' = "reconcile" /\ Act(call[c])' = Act(call[c]) /\ A(c) = Act(call[c])
        /\ call[c].req \in DOMAIN reqs /\ A(c) \in Actions
    BY <2>1, <2>2, <2>3, GoFacts, Running
  <2>5. pc = "measure" => Over(A(c))
    BY <2>1, <2>2, Running DEF RowFits
  <2>6. Over(A(c)) => Over(Act(call[c]))'
    <3>1. PICK k \in ToolCalls : call' = [call EXCEPT ![c] = k] /\ k.pc = pc /\ k.req = call[c].req
      BY <2>1, <2>2, <2>3, GoFacts
    <3>2. Kind(k) = "reconcile"
      BY <2>1, <3>1 DEF Kind
    <3>3. \A a \in Actions : Over(a) => Over(a)'
      BY <2>1, <3>1, <3>2, OverStays DEF Over, Planned
    <3>4. QED
      BY <2>4, <3>3 DEF Over
  <2>7. CallFits(call[c])'
    BY <2>1, <2>2, <2>4, <2>5, <2>6
    DEF CallFits, StageFits, LandFits, ReconcileFits, DischargeFits, SettleFits, StageRuns, LandRuns
  <2>8. QED
    BY <2>1, <2>2, <2>3, <2>7, GoStep
<1> QED
  BY <1>1, <1>2

\* What a classification says of the target it was measured from.
LEMMA Classes ==
    ASSUME NEW a, NEW t
    PROVE  /\ Classify(a, t) \in {"full-applied", "original", "partial", "unknown"}
           /\ Classify(a, t) = "original" => t = orig[a]
BY DEF Classify

LEMMA ReconcileMeasureStep == ASSUME Inv, NEW c \in Slots, ReconcileMeasure(c) PROVE Inv'
<1>1. /\ Kind(call[c]) = "reconcile" /\ call[c].pc = "measure"
      /\ UNCHANGED <<target, orig, row, disp, hist, dir, journal, reqs>>
  BY DEF ReconcileMeasure, At, Kind, diskVars, ledgerVars
<1>2. PICK out \in {"full-applied", "original", "partial", "unknown"} :
        /\ Go(c, "observe", out) /\ (out = "original" => target = orig[A(c)])
  BY Classes DEF ReconcileMeasure
<1>3. out \in Words /\ "observe" \in Words
  BY <1>2, Wording
<1>4. /\ call'[c].pc = "observe" /\ call'[c].out = out /\ call'[c].req = call[c].req
      /\ Kind(call[c])' = "reconcile" /\ Act(call[c])' = Act(call[c]) /\ A(c) = Act(call[c])
      /\ call[c].req \in DOMAIN reqs /\ A(c) \in Actions
  BY <1>1, <1>2, <1>3, GoFacts, Running
<1>5. Over(Act(call[c]))
  BY <1>1, Running DEF CallFits, ReconcileFits
<1>6. Over(Act(call[c]))'
  <2>1. PICK k \in ToolCalls : call' = [call EXCEPT ![c] = k] /\ k.pc = "observe" /\ k.req = call[c].req
    BY <1>1, <1>2, <1>3, GoFacts
  <2>2. \A a \in Actions : Over(a) => Over(a)'
    BY <1>1, <2>1, OverStays DEF Over, Planned
  <2>3. QED
    BY <1>4, <1>5, <2>2 DEF Over
<1>7. out = "original" => ~Holds(Act(call[c]))'
  BY <1>1, <1>2, <1>4 DEF Holds
<1>8. CallFits(call[c])'
  BY <1>1, <1>2, <1>4, <1>6, <1>7
  DEF CallFits, StageFits, LandFits, ReconcileFits, DischargeFits, SettleFits, StageRuns, LandRuns
<1> QED
  BY <1>1, <1>2, <1>3, <1>8, GoStep

\* The account of a fresh cleanup names a backup only of a settled landing;
\* what a later one removes is on the account.
LEMMA DischargeBeginStep == ASSUME Inv, NEW c \in Slots, DischargeBegin(c) PROVE Inv'
<1>1. CASE Refuse(c)
  BY <1>1, RefuseStep
<1>2. CASE ~Refuse(c)
  <2> DEFINE a == A(c)
             step == IF row[a].verified THEN "remove-resource" ELSE "verify-account"
             res == IF row[a].verified THEN Foremost(a) ELSE "none"
             cand == IF row[a].verified \/ hist[a].verifies > 0 THEN hist[a].cand ELSE Candidate(a)
             k == [call[c] EXCEPT !.pc = "intent", !.step = step, !.res = res, !.cand = cand]
  <2>1. /\ Kind(call[c]) = "discharge" /\ call[c].pc = "begin" /\ call' = [call EXCEPT ![c] = k]
        /\ UNCHANGED <<target, orig, row, disp, hist, dir, journal, reqs>>
        /\ IF row[a].verified THEN Remaining(a) # {}
           ELSE hist[a].verifies > 0 \/ (row[a].stageDir /\ CandidateReady(a))
    BY <1>2 DEF DischargeBegin, At, Kind, diskVars, ledgerVars
  <2>2. /\ call[c] \in ToolCalls /\ call[c].req \in DOMAIN reqs /\ a \in Actions /\ RowFits(a) /\ a = Act(call[c])
        /\ dir[a] \in Dirs /\ row[a] \in Rows /\ target \in Maps
    BY <2>1, Running DEF Inv, TypeOK
  <2>3. row[a].stageDir
    BY <2>1, <2>2 DEF RowFits
  <2>4. cand \in Cands /\ (cand.dirs["backup"] # "none" => Settled(a))
    <3>1. CASE row[a].verified \/ hist[a].verifies > 0
      BY <2>2, <3>1 DEF RowFits
    <3>2. CASE ~(row[a].verified \/ hist[a].verifies > 0)
      <4> DEFINE ds == [r \in Res |-> IF r \in Owed(a) THEN dir[a][r] ELSE "none"]
      <4>1. CandidateReady(a) /\ cand = [target |-> target, dirs |-> ds]
        BY <2>1, <3>2 DEF Candidate
      <4>2. ds \in Dirs
        BY <2>2 DEF Dirs
      <4>3. ds["backup"] # "none" => row[a].plan
        BY DEF Owed, Res
      <4>4. row[a].plan => Settled(a)
        BY <4>1 DEF CandidateReady, Settled
      <4> HIDE DEF ds
      <4>5. cand \in Cands /\ cand.dirs = ds
        BY <2>2, <4>1, <4>2 DEF Cands
      <4>6. QED
        BY <4>3, <4>4, <4>5
    <3>3. QED
      BY <3>1, <3>2
  <2>5. row[a].verified => Foremost(a) \in Remaining(a) /\ Foremost(a) \in Res
    BY <2>1 DEF Foremost, Remaining, Accounted, Res
  <2>6. step = "remove-resource" => res \in Res /\ (res = "backup" => Settled(a))
    <3>1. step = "remove-resource" => row[a].verified /\ res = Foremost(a)
      OBVIOUS
    <3>2. row[a].verified => hist[a].cand \in Cands /\ cand = hist[a].cand
      BY <2>2 DEF RowFits
    <3>3. row[a].verified => hist[a].cand.dirs[Foremost(a)] # "none"
      BY <2>5 DEF Remaining, Accounted
    <3> HIDE DEF step, res, cand
    <3>4. QED
      BY <2>4, <2>5, <3>1, <3>2, <3>3
  <2>7. /\ res \in Res \cup {"none"} /\ step \in Words /\ "intent" \in Words
        /\ step \in {"verify-account", "remove-resource"}
    BY <2>5, Wording
  <2> HIDE DEF a, step, res, cand
  <2>8. k \in ToolCalls /\ k.pc = "intent" /\ k.req = call[c].req /\ k.step = step /\ k.res = res /\ k.cand = cand
    BY <2>2, <2>4, <2>7 DEF ToolCalls
  <2>9. call'[c] = k
    BY <2>1 DEF Inv, TypeOK
  <2> HIDE DEF k
  <2>10. Kind(call[c])' = "discharge" /\ Act(call[c])' = Act(call[c])
    BY <2>1, <2>8, <2>9 DEF Kind, Act
  <2>11. Cands' = Cands /\ Act(call[c])' = a /\ Settled(Act(call[c]))' = Settled(a)
    BY <2>1, <2>2, <2>10 DEF Cands, Maps, Settled
  <2>12. CallFits(call[c])'
    <3>1. DischargeFits(call[c])'
      BY <2>1, <2>3, <2>4, <2>6, <2>7, <2>8, <2>9, <2>11 DEF DischargeFits
    <3>2. QED
      BY <2>1, <2>2, <2>8, <2>9, <2>10, <3>1
      DEF CallFits, StageFits, LandFits, ReconcileFits, SettleFits, StageRuns, LandRuns
  <2>13. ~LandRuns(k) /\ ~StageRuns(k)
    BY <2>8 DEF LandRuns, StageRuns
  <2>14. QED
    BY <2>1, <2>8, <2>12, <2>13, CallStep
<1> QED
  BY <1>1, <1>2

-----------------------------------------------------------------------------
(* Steps of a call that commit to the ledger                                 *)

\* Only staging runs before an action is on the ledger.
LEMMA Entered ==
    ASSUME Inv, NEW c \in Slots, call[c].pc # "idle", Kind(call[c]) # "stage"
    PROVE  row[A(c)].state # "none"
BY Running DEF RowFits, Kind, Act

\* While a landing may still write, no other call of its action does.
LEMMA OneLands ==
    ASSUME Inv, NEW c \in Slots, LandRuns(call[c]), NEW d \in Slots, LandRuns(call[d]), Act(call[d]) = Act(call[c])
    PROVE  d = c
<1>1. call[c].pc # "idle" /\ call[d].pc # "idle"
  BY DEF LandRuns
<1>2. CallFits(call[c]) /\ CallFits(call[d]) /\ call[c].req \in DOMAIN reqs /\ call[d].req \in DOMAIN reqs
  BY <1>1, Running
<1>3. LandFits(call[c]) /\ LandFits(call[d])
  BY <1>1, <1>2 DEF CallFits
<1>4. Planned(call[c].req) /\ Planned(call[d].req)
  BY <1>3 DEF LandFits, Planned, LandRuns, Kind
<1>5. call[c].req = call[d].req
  BY <1>2, <1>4 DEF Inv, PlannedOnce, Act
<1> QED
  BY <1>5 DEF Inv, OneRuns

\* A landing that runs has a plan.
LEMMA LandPlanned ==
    ASSUME Inv, NEW c \in Slots, LandRuns(call[c])
    PROVE  /\ Planned(call[c].req) /\ row[A(c)].plan /\ A(c) \in Actions /\ call[c].req \in DOMAIN reqs
           /\ <<call[c].req, "issue">> \in journal
           /\ \A q \in DOMAIN reqs : Planned(q) /\ reqs[q].act = A(c) => q = call[c].req
<1>1. call[c].pc # "idle"
  BY DEF LandRuns
<1>2. LandFits(call[c]) /\ call[c].req \in DOMAIN reqs /\ A(c) \in Actions
  BY <1>1, Running DEF CallFits
<1>3. Planned(call[c].req) /\ <<call[c].req, "issue">> \in journal
  BY <1>2 DEF LandFits, Planned, LandRuns, Kind
<1> QED
  BY <1>2, <1>3 DEF Inv, PlannedOnce, A

\* A landing that has written, or never will, is over.
LEMMA LandOver ==
    ASSUME Inv, NEW c \in Slots, LandRuns(call[c]), call[c].pc \notin {"work", "apply"}
    PROVE  Over(A(c))
<1>1. A(c) = Act(call[c])
  BY DEF A, Act
<1>2. \A d \in Slots : call[d].pc \in {"work", "apply"} /\ Kind(call[d]) = "land" => Act(call[d]) # A(c)
  BY <1>1, OneLands DEF LandRuns
<1> QED
  BY <1>2, LandPlanned DEF Over

\* A commit for the action of its call.
LEMMA CommitStep ==
    ASSUME Inv, NEW c \in Slots, call[c].pc # "idle", NEW a \in Actions, a = A(c), row[a].state # "none", NEW name,
           TypeOK',
           \A b \in Actions \ {a} : row'[b] = row[b] /\ hist'[b] = hist[b] /\ disp'[b] = disp[b],
           \A d \in Slots \ {c} : call'[d] = call[d],
           journal' = journal \cup {<<call[c].req, name>>},
           UNCHANGED <<target, orig, dir, reqs>>,
           name = "intent" => Kind(call[c]) # "land",
           row'[a].state # "none", row[a].stageDir => row'[a].stageDir, row'[a].plan <=> row[a].plan,
           Settled(a) => Settled(a)',
           row'[a].stageDir => \/ row[a].stageDir
                               \/ \A d \in Slots \ {c} : StageRuns(call[d]) => Act(call[d]) # a,
           ~StageRuns(call[c])',
           LandRuns(call[c])' => /\ call'[c].req = call[c].req /\ <<call[c].req, "issue">> \notin journal
                                 /\ <<call[c].req, "intent">> \in journal,
           (Over(a) => Over(a)') => RowFits(a)' /\ DiskFits(a)' /\ CallFits(call[c])'
    PROVE  Inv'
<1>2. call[c].req \in DOMAIN reqs /\ reqs[call[c].req].act = a
  BY Running DEF A
<1>3. \A q \in DOMAIN reqs : Planned(q)' <=> Planned(q)
  BY DEF Planned, Kind
<1>4. LandRuns(call[c])' => ~Over(a) /\ Kind(call[c]) = "land"
  BY <1>2 DEF Over, Planned, LandRuns, Kind
<1>5. \A b \in Actions : Over(b) => Over(b)'
  <2> SUFFICES ASSUME NEW b \in Actions, Over(b) PROVE Over(b)'
    OBVIOUS
  <2>1. row'[b].plan
    BY DEF Over
  <2>2. \A d \in Slots : call'[d].pc \in {"work", "apply"} /\ Kind(call[d])' = "land" => Act(call[d])' # b
    <3> SUFFICES ASSUME NEW d \in Slots, call'[d].pc \in {"work", "apply"}, Kind(call[d])' = "land"
                 PROVE  Act(call[d])' # b
      OBVIOUS
    <3>1. CASE d = c
      BY <1>2, <1>4, <3>1 DEF LandRuns, Kind, Act
    <3>2. CASE d # c
      BY <3>2 DEF Over, Kind, Act
    <3>3. QED
      BY <3>1, <3>2
  <2>3. \A q \in DOMAIN reqs' : Planned(q)' /\ reqs'[q].act = b => <<q, "issue">> \in journal'
    BY <1>3 DEF Over
  <2>4. QED
    BY <2>1, <2>2, <2>3 DEF Over
<1>6. \A b \in Actions : (Settled(b) => Settled(b)') /\ (Holds(b)' <=> Holds(b))
  BY DEF Settled, Holds
<1>7. \A d \in Slots : CallFits(call[d])'
  <2> SUFFICES ASSUME NEW d \in Slots, d # c PROVE CallFits(call[d])'
    BY <1>5
  <2>1. call'[d] = call[d] /\ CallFits(call[d])
    BY DEF Inv
  <2>2. call[d].pc # "idle" => Act(call[d]) \in Actions
    BY Running
  <2>3. StageRuns(call[d]) => ~row'[Act(call[d])].stageDir
    <3>1. StageRuns(call[d]) => ~row[Act(call[d])].stageDir /\ Act(call[d]) \in Actions
      BY <2>1, <2>2 DEF CallFits, StageFits, StageRuns
    <3>2. QED
      BY <3>1
  <2>4. call[d].pc # "idle" => (Holds(Act(call[d]))' => Holds(Act(call[d])))
    BY <2>1 DEF Holds, Act
  <2>5. \A b \in Actions : /\ row[b].state # "none" => row'[b].state # "none"
                           /\ row[b].stageDir => row'[b].stageDir
    OBVIOUS
  <2>6. QED
    BY <1>5, <1>6, <2>1, <2>2, <2>3, <2>4, <2>5, KeepsFitting
<1>8. \A b \in Actions : RowFits(b)' /\ DiskFits(b)'
  <2> SUFFICES ASSUME NEW b \in Actions, b # a PROVE RowFits(b)' /\ DiskFits(b)'
    BY <1>5
  <2>1. /\ RowFits(b) /\ DiskFits(b)
        /\ row'[b] = row[b] /\ hist'[b] = hist[b] /\ disp'[b] = disp[b] /\ dir'[b] = dir[b]
    BY DEF Inv
  <2>2. QED
    BY <1>5, <1>6, <2>1, KeepsAction DEF RowFits
<1>9. /\ \A q \in DOMAIN reqs : reqs[q].act \in Actions
      /\ \A b \in Actions : (row'[b].plan <=> row[b].plan) /\ (row[b].state = "none" => row'[b].state = "none")
  BY Requested DEF Requests
<1>10. PlannedOnce'
  BY <1>3, <1>9 DEF Inv, PlannedOnce
<1>11. StagedOnce' /\ OneStage'
  BY <1>9 DEF Inv, StagedOnce, OneStage
<1>12. OneRuns'
  <2>1. \A d \in Slots : LandRuns(call[c])' /\ d # c /\ LandRuns(call[d]) => call[d].req # call[c].req
    BY LandPlanned
  <2>2. QED
    BY <2>1 DEF Inv, OneRuns, LandRuns, StageRuns, Kind
<1> QED
  BY <1>7, <1>8, <1>10, <1>11, <1>12 DEF Inv

\* What a commit writes is typed.
LEMMA CommitTyped ==
    ASSUME Inv, NEW q \in DOMAIN reqs, NEW name, journal' = journal \cup {<<q, name>>},
           UNCHANGED <<target, orig, dir, reqs>>, row' \in [Actions -> Rows], hist' \in [Actions -> Hists],
           disp' \in [Actions -> [Res -> Words]], call' \in [Slots -> ToolCalls]
    PROVE  TypeOK'
<1>1. \A j \in journal' : j[1] \in DOMAIN reqs'
  BY DEF Inv, TypeOK
<1> QED
  BY <1>1 DEF Inv, TypeOK

\* What Go(c, pc, out) makes of the call, and Return.
LEMMA ReturnFacts ==
    ASSUME Inv, NEW c \in Slots, Return(c)
    PROVE  /\ Idle \in ToolCalls /\ Idle.pc = "idle" /\ call' = [call EXCEPT ![c] = Idle]
           /\ ~LandRuns(Idle) /\ ~StageRuns(Idle) /\ CallFits(call[c])'
<1>1. Idle \in ToolCalls /\ Idle.pc = "idle"
  BY Wording DEF Idle, ToolCalls
<1>2. call' = [call EXCEPT ![c] = Idle] /\ call'[c] = Idle
  BY DEF Return, Inv, TypeOK
<1> QED
  BY <1>1, <1>2 DEF CallFits, LandRuns, StageRuns

\* The row of an intent, and of an observation.
LEMMA Blank == NoReceipt \in Receipts /\ "intended" \in Words
BY Wording DEF NoReceipt, Receipts

LEMMA ObservedRow ==
    ASSUME NEW a, row[a] \in Rows, NEW s \in Words, NEW p \in Receipts, NEW r, r = Observed(a, s, p)
    PROVE  /\ r \in Rows /\ r.state = s /\ r.body = row[a].body /\ (r.stageDir <=> row[a].stageDir)
           /\ (r.verified <=> row[a].verified) /\ (r.plan <=> row[a].plan) /\ (r.passed <=> row[a].passed)
           /\ (r.landed <=> row[a].landed) /\ r.receipt = p
BY DEF Observed, Rows, Receipts

LEMMA StageObserveStep == ASSUME Inv, NEW c \in Slots, StageObserve(c) PROVE Inv'
<1>1. CASE Refuse(c)
  BY <1>1, RefuseStep
<1>2. CASE ~Refuse(c)
  <2> PICK a : a = A(c)
    OBVIOUS
  <2> DEFINE out == call[c].out
             r == [Observed(a, out, Receipt("stage", "none", out, "none")) EXCEPT !.stageDir = TRUE]
             h == [hist[a] EXCEPT !.proof = IF out = "observed" THEN "stage" ELSE @]
             e == [disp[a] EXCEPT !.stage = "retained"]
  <2>1. /\ Kind(call[c]) = "stage" /\ call[c].pc = "observe" /\ Return(c) /\ Observable(a) /\ ~row[a].plan
        /\ row' = [row EXCEPT ![a] = r] /\ hist' = [hist EXCEPT ![a] = h] /\ disp' = [disp EXCEPT ![a] = e]
        /\ journal' = journal \cup {<<call[c].req, "observe">>}
        /\ UNCHANGED <<target, orig, dir, reqs>>
    BY <1>2 DEF StageObserve, At, Kind, diskVars, Commit, Sub, Inv, TypeOK
  <2>2. /\ a \in Actions /\ a = Act(call[c]) /\ row[a] \in Rows /\ hist[a] \in Hists /\ disp[a] \in [Res -> Words]
        /\ RowFits(a) /\ DiskFits(a) /\ StageFits(call[c])
    BY <2>1, Running DEF CallFits
  <2>3. StageRuns(call[c]) /\ out \in {"observed", "failed"} /\ ~row[a].stageDir /\ row[a].state # "none"
    BY <2>1, <2>2 DEF StageFits, StageRuns
  <2>4. /\ r \in Rows /\ r.state = out /\ r.stageDir /\ (r.plan <=> row[a].plan) /\ r.body = row[a].body
        /\ (r.verified <=> row[a].verified)
    BY <2>2, <2>3, Wording DEF Rows, Observed, Receipt, Receipts
  <2>5. /\ h \in Hists /\ h.cand = hist[a].cand /\ h.verifies = hist[a].verifies
        /\ h.proof \in {hist[a].proof, "stage"}
    BY <2>2, Wording DEF Hists
  <2>6. e \in [Res -> Words] /\ \A q \in Res : e[q] = "released" => disp[a][q] = "released"
    BY <2>2, Wording DEF Res
  <2>7. row'[a] = r /\ hist'[a] = h /\ disp'[a] = e
    BY <2>1, <2>2 DEF Inv, TypeOK
  <2>77. CallFits(call[c])' /\ call'[c] = Idle /\ \A d \in Slots \ {c} : call'[d] = call[d]
    BY <2>1, ReturnFacts DEF Inv, TypeOK
  <2>78. call' \in [Slots -> ToolCalls] /\ call[c].req \in DOMAIN reqs
    BY <2>1, ReturnFacts, Running DEF Inv, TypeOK
  <2> HIDE DEF out, r, h, e
  <2>79. TypeOK' /\ \A x \in Actions \ {a} : row'[x] = row[x] /\ hist'[x] = hist[x] /\ disp'[x] = disp[x]
    <3>1. row' \in [Actions -> Rows] /\ hist' \in [Actions -> Hists] /\ disp' \in [Actions -> [Res -> Words]]
      BY <2>1, <2>2, <2>4, <2>5, <2>6 DEF Inv, TypeOK
    <3>2. \A x \in Actions \ {a} : row'[x] = row[x] /\ hist'[x] = hist[x] /\ disp'[x] = disp[x]
      BY <2>1, <2>2 DEF Inv, TypeOK
    <3>3. QED
      BY <2>1, <2>78, <3>1, <3>2, CommitTyped
  <2>8. ~Settled(a) /\ ~Settled(a)'
    <3>1. ~Settled(a)
      BY <2>1, <2>2 DEF RowFits, Over
    <3>2. QED
      BY <2>5, <2>7, <3>1 DEF Settled
  <2>9. \A d \in Slots \ {c} : StageRuns(call[d]) => Act(call[d]) # a
    <3> SUFFICES ASSUME NEW d \in Slots, StageRuns(call[d]), Act(call[d]) = a PROVE d = c
      OBVIOUS
    <3>1. call[d].req \in DOMAIN reqs /\ call[c].req \in DOMAIN reqs
      BY <2>1, Running DEF StageRuns
    <3>2. call[d].req = call[c].req
      BY <2>1, <2>2, <3>1 DEF Inv, OneStage, StageRuns, Kind, Act
    <3>3. QED
      BY <2>3, <3>2 DEF Inv, OneRuns
  <2>10. ASSUME Over(a) => Over(a)' PROVE RowFits(a)' /\ DiskFits(a)'
    <3>1. Holds(a)' <=> Holds(a)
      BY <2>1 DEF Holds
    <3>2. RowFits(a)'
      BY <2>1, <2>2, <2>3, <2>4, <2>5, <2>7, <2>8, <2>10 DEF RowFits, Cands, Maps
    <3>3. DiskFits(a)'
      BY <2>1, <2>2, <2>4, <2>6, <2>7, <2>8, <3>1 DEF DiskFits, Settled
    <3>4. QED
      BY <3>2, <3>3
  <2>11. row'[a].state # "none" /\ row'[a].stageDir /\ (row'[a].plan <=> row[a].plan)
    BY <2>3, <2>4, <2>7
  <2>12. ~StageRuns(call[c])' /\ ~LandRuns(call[c])'
    BY <2>77 DEF StageRuns, LandRuns, Idle
  <2>13. QED
    BY <2>1, <2>2, <2>3, <2>8, <2>9, <2>10, <2>11, <2>12, <2>77, <2>79, CommitStep
<1> QED
  BY <1>1, <1>2

LEMMA CheckIntentStep == ASSUME Inv, NEW c \in Slots, CheckIntent(c) PROVE Inv'
<1>1. CASE Refuse(c)
  BY <1>1, RefuseStep
<1> PICK a : a = A(c)
  OBVIOUS
<1>2. ASSUME ~Refuse(c)
      PROVE  Kind(call[c]) = "check" /\ call[c].pc = "intent" /\ Go(c, "issue", "none") /\ reqs' = reqs
  BY <1>2 DEF CheckIntent, At, Kind, ledgerVars
<1>3. ASSUME ~Refuse(c)
      PROVE  /\ call'[c].pc = "issue" /\ call'[c].req = call[c].req /\ Kind(call[c])' = "check"
             /\ call[c].req \in DOMAIN reqs
             /\ CallFits(call[c])'
             /\ \E k \in ToolCalls : call' = [call EXCEPT ![c] = k] /\ k.pc = "issue"
  <2>1. /\ call'[c].pc = "issue" /\ call'[c].req = call[c].req /\ Kind(call[c])' = "check"
        /\ call[c].req \in DOMAIN reqs
        /\ \E k \in ToolCalls : call' = [call EXCEPT ![c] = k] /\ k.pc = "issue"
    BY <1>2, <1>3, GoFacts, Running, Wording
  <2>2. CallFits(call[c])'
    BY <1>2, <1>3, <2>1
    DEF CallFits, StageFits, LandFits, ReconcileFits, DischargeFits, SettleFits, StageRuns, LandRuns
  <2>3. QED
    BY <2>1, <2>2
<1>4. CASE ~Refuse(c) /\ UNCHANGED <<diskVars, ledgerVars, reqs, stale, used>>
  BY <1>2, <1>3, <1>4, GoStep, Wording DEF diskVars, ledgerVars
<1>5. CASE ~Refuse(c) /\ ~UNCHANGED <<diskVars, ledgerVars, reqs, stale, used>>
  <2> PICK r, b : b = Body(c, "check", "none", "none", 0) /\ r = Intended(a, b, FALSE)
    OBVIOUS
  <2>1. /\ row' = [row EXCEPT ![a] = r] /\ Resting(a) /\ UNCHANGED <<target, orig, hist, disp, dir, reqs>>
        /\ journal' = journal \cup {<<call[c].req, "intent">>}
    BY <1>5 DEF CheckIntent, diskVars, Commit, Sub, Inv, TypeOK
  <2>2. PICK k \in ToolCalls : call' = [call EXCEPT ![c] = k] /\ k.pc = "issue"
    BY <1>3, <1>5
  <2>3. /\ a \in Actions /\ row[a] \in Rows /\ hist[a] \in Hists /\ disp[a] \in [Res -> Words]
        /\ RowFits(a) /\ DiskFits(a) /\ row[a].state # "none" /\ call[c].pc # "idle" /\ call[c].req \in Nat
    BY <1>2, <1>5, Running, Entered DEF ToolCalls
  <2>4. /\ r \in Rows /\ r.state = "intended" /\ (r.stageDir <=> row[a].stageDir) /\ (r.plan <=> row[a].plan)
        /\ r.body.step = "none" /\ (r.verified <=> row[a].verified)
    <3>2. b \in Bodies /\ b.step = "none"
      BY <2>3, Wording DEF Body, Bodies
    <3>3. PICK pl \in BOOLEAN, pr \in BOOLEAN :
            /\ (pl <=> row[a].plan)
            /\ r = [row[a] EXCEPT !.state = "intended", !.phase = b.phase, !.body = b, !.receipt = NoReceipt,
                                  !.plan = pl, !.pre = pr]
      BY <2>3 DEF Intended, Rows
    <3>4. /\ r \in Rows /\ r.state = "intended" /\ r.body = b /\ (r.stageDir <=> row[a].stageDir)
          /\ (r.verified <=> row[a].verified) /\ (r.plan <=> pl)
      BY <2>3, <3>2, <3>3, Blank DEF Rows, Bodies
    <3>5. QED
      BY <3>2, <3>3, <3>4
  <2>5. row'[a] = r
    BY <2>1, <2>3 DEF Inv, TypeOK
  <2>6. TypeOK' /\ \A x \in Actions \ {a} : row'[x] = row[x] /\ hist'[x] = hist[x] /\ disp'[x] = disp[x]
    <3>1. call[c].req \in DOMAIN reqs
      BY <1>3, <1>5
    <3>2. /\ row' \in [Actions -> Rows] /\ call' \in [Slots -> ToolCalls]
          /\ hist' \in [Actions -> Hists] /\ disp' \in [Actions -> [Res -> Words]]
      BY <2>1, <2>2, <2>3, <2>4 DEF Inv, TypeOK
    <3>3. \A x \in Actions \ {a} : row'[x] = row[x] /\ hist'[x] = hist[x] /\ disp'[x] = disp[x]
      BY <2>1, <2>3 DEF Inv, TypeOK
    <3>4. QED
      BY <2>1, <3>1, <3>2, <3>3, CommitTyped
  <2>7. ASSUME Over(a) => Over(a)' PROVE RowFits(a)' /\ DiskFits(a)'
    <3>1. (Holds(a)' <=> Holds(a)) /\ (Settled(a)' <=> Settled(a))
      BY <2>1 DEF Holds, Settled
    <3>2. RowFits(a)'
      BY <2>1, <2>3, <2>4, <2>5, <2>7, <3>1 DEF RowFits, Cands, Maps
    <3>3. DiskFits(a)'
      BY <2>1, <2>3, <2>4, <2>5, <3>1 DEF DiskFits
    <3>4. QED
      BY <3>2, <3>3
  <2>8. call'[c] = k /\ (\A d \in Slots \ {c} : call'[d] = call[d]) /\ ~LandRuns(call[c])' /\ ~StageRuns(call[c])'
    BY <2>2 DEF LandRuns, StageRuns, Inv, TypeOK
  <2>9. /\ CallFits(call[c])' /\ Kind(call[c]) = "check" /\ call[c].pc # "idle"
    BY <1>2, <1>3, <1>5
  <2>10. /\ row'[a].state # "none" /\ (row'[a].plan <=> row[a].plan) /\ (row[a].stageDir <=> row'[a].stageDir)
         /\ (Settled(a) => Settled(a)')
    BY <2>1, <2>4, <2>5 DEF Settled
  <2>11. QED
    BY <2>1, <2>3, <2>6, <2>7, <2>8, <2>9, <2>10, CommitStep
<1> QED
  BY <1>1, <1>4, <1>5

\* An observation that leaves the resources of its action alone and ends the call.
LEMMA ObserveStep ==
    ASSUME Inv, NEW c \in Slots, call[c].pc # "idle", Kind(call[c]) # "stage", NEW a \in Actions, a = A(c), Return(c),
           row' \in [Actions -> Rows], hist' \in [Actions -> Hists],
           \A x \in Actions \ {a} : row'[x] = row[x] /\ hist'[x] = hist[x],
           journal' = journal \cup {<<call[c].req, "observe">>},
           UNCHANGED <<target, orig, dir, reqs, disp>>,
           row'[a].state # "none", row'[a].body = row[a].body,
           row'[a].stageDir <=> row[a].stageDir, row'[a].plan <=> row[a].plan, row'[a].verified <=> row[a].verified,
           hist'[a].cand = hist[a].cand, hist'[a].verifies = hist[a].verifies,
           Settled(a) => Settled(a)', Settled(a)' => Over(a),
           hist'[a].proof = "original" => hist[a].proof = "original" \/ ~Holds(a),
           hist[a].proof = "full-applied" => hist'[a].proof = "full-applied" \/ ~Holds(a)
    PROVE  Inv'
<1>1. /\ CallFits(call[c])' /\ call'[c] = Idle /\ \A d \in Slots \ {c} : call'[d] = call[d]
      /\ call' \in [Slots -> ToolCalls]
  BY ReturnFacts DEF Inv, TypeOK
<1>2. ~StageRuns(call[c])' /\ ~LandRuns(call[c])'
  BY <1>1 DEF StageRuns, LandRuns, Idle
<1>3. TypeOK' /\ disp'[a] = disp[a] /\ \A x \in Actions \ {a} : disp'[x] = disp[x]
  <2>1. disp' \in [Actions -> [Res -> Words]] /\ call[c].req \in DOMAIN reqs
    BY Running DEF Inv, TypeOK
  <2>2. QED
    BY <1>1, <2>1, CommitTyped
<1>4. RowFits(a) /\ DiskFits(a) /\ row[a].state # "none"
  BY Running, Entered
<1>5. ASSUME Over(a) => Over(a)' PROVE RowFits(a)' /\ DiskFits(a)'
  <2>1. Holds(a)' <=> Holds(a)
    BY DEF Holds
  <2>2. RowFits(a)'
    <3>1. (Settled(a)' \/ dir'[a]["backup"] # "none") => Over(a)'
      BY <1>4, <1>5 DEF RowFits
    <3>2. QED
      BY <1>4, <3>1 DEF RowFits, Cands, Maps
  <2>3. DiskFits(a)'
    BY <1>3, <1>4, <2>1 DEF DiskFits
  <2>4. QED
    BY <2>2, <2>3
<1>6. \A x \in Actions \ {a} : row'[x] = row[x] /\ hist'[x] = hist[x] /\ disp'[x] = disp[x]
  BY <1>3
<1>7. (Over(a) => Over(a)') => RowFits(a)' /\ DiskFits(a)' /\ CallFits(call[c])'
  BY <1>1, <1>5
<1>8. /\ row[a].stageDir => row'[a].stageDir
      /\ row'[a].stageDir => \/ row[a].stageDir
                             \/ \A d \in Slots \ {c} : StageRuns(call[d]) => Act(call[d]) # a
  OBVIOUS
<1>9. "observe" = "intent" => Kind(call[c]) # "land"
  OBVIOUS
<1>10. LandRuns(call[c])' => /\ call'[c].req = call[c].req /\ <<call[c].req, "issue">> \notin journal
                             /\ <<call[c].req, "intent">> \in journal
  BY <1>2
<1> QED
  BY <1>1, <1>2, <1>3, <1>4, <1>6, <1>7, <1>8, <1>9, <1>10, CommitStep

LEMMA CheckObserveStep == ASSUME Inv, NEW c \in Slots, CheckObserve(c) PROVE Inv'
<1>1. CASE Refuse(c)
  BY <1>1, RefuseStep
<1>2. CASE ~Refuse(c)
  <2> PICK a, o, s, p : /\ a = A(c) /\ s = (IF call[c].out = "drift" THEN "held" ELSE "observed")
                        /\ p = Receipt("check", "none", s, "none") /\ o = Observed(a, s, p)
    OBVIOUS
  <2> DEFINE r == [o EXCEPT !.passed = IF call[c].out = "drift" THEN @ ELSE call[c].out = "passed"]
  <2>1. /\ Kind(call[c]) = "check" /\ call[c].pc = "observe" /\ Return(c)
        /\ row' = [row EXCEPT ![a] = r] /\ UNCHANGED <<target, orig, dir, reqs, disp, hist>>
        /\ journal' = journal \cup {<<call[c].req, "observe">>}
    BY <1>2 DEF CheckObserve, At, Kind, diskVars, Commit, Sub
  <2>2. a \in Actions /\ row[a] \in Rows /\ hist \in [Actions -> Hists] /\ RowFits(a)
    BY <2>1, Running DEF Inv, TypeOK
  <2>3. s \in Words /\ p \in Receipts /\ s # "none"
    BY Wording DEF Receipt, Receipts
  <2>4. /\ o \in Rows /\ o.state = s /\ o.body = row[a].body /\ (o.stageDir <=> row[a].stageDir)
        /\ (o.verified <=> row[a].verified) /\ (o.plan <=> row[a].plan)
    BY <2>2, <2>3, ObservedRow
  <2>5. /\ r \in Rows /\ r.state = s /\ r.body = row[a].body /\ (r.stageDir <=> row[a].stageDir)
        /\ (r.verified <=> row[a].verified) /\ (r.plan <=> row[a].plan)
    <3>1. PICK f \in BOOLEAN : r = [o EXCEPT !.passed = f]
      BY <2>4 DEF Rows
    <3> HIDE DEF r
    <3>2. QED
      BY <2>4, <3>1 DEF Rows
  <2> HIDE DEF r
  <2>6. row' \in [Actions -> Rows] /\ row'[a] = r /\ \A x \in Actions \ {a} : row'[x] = row[x]
    BY <2>1, <2>2, <2>5 DEF Inv, TypeOK
  <2>7. (Settled(a)' <=> Settled(a)) /\ (Settled(a) => Over(a))
    BY <2>1, <2>2 DEF Settled, RowFits
  <2>8. QED
    BY <2>1, <2>2, <2>3, <2>5, <2>6, <2>7, ObserveStep
<1> QED
  BY <1>1, <1>2

LEMMA LandObserveStep == ASSUME Inv, NEW c \in Slots, LandObserve(c) PROVE Inv'
<1>1. CASE Refuse(c)
  BY <1>1, RefuseStep
<1>2. CASE ~Refuse(c)
  <2> PICK a, o, s, p : /\ a = A(c) /\ s = (IF call[c].out = "full-applied" THEN "observed" ELSE "held")
                        /\ p = Receipt("land", "none", s, call[c].out) /\ o = Observed(a, s, p)
    OBVIOUS
  <2> DEFINE r == [o EXCEPT !.landed = @ \/ call[c].out = "full-applied"]
             h == [hist[a] EXCEPT !.proof = IF call[c].out = "full-applied" THEN "full-applied" ELSE @]
  <2>1. /\ Kind(call[c]) = "land" /\ call[c].pc = "observe" /\ Return(c)
        /\ row' = [row EXCEPT ![a] = r] /\ UNCHANGED <<target, orig, dir, reqs, disp>>
        /\ journal' = journal \cup {<<call[c].req, "observe">>}
    BY <1>2 DEF LandObserve, At, Kind, diskVars, Commit, Sub
  <2>2. hist' = [hist EXCEPT ![a] = h]
    BY <1>2 DEF LandObserve, Inv, TypeOK
  <2>3. a \in Actions /\ row[a] \in Rows /\ hist[a] \in Hists /\ RowFits(a) /\ call[c].out \in Words
    BY <2>1, Running DEF ToolCalls
  <2>4. s \in Words /\ p \in Receipts /\ s # "none"
    BY <2>3, Wording DEF Receipt, Receipts
  <2>5. /\ o \in Rows /\ o.state = s /\ o.body = row[a].body /\ (o.stageDir <=> row[a].stageDir)
        /\ (o.verified <=> row[a].verified) /\ (o.plan <=> row[a].plan)
    BY <2>3, <2>4, ObservedRow
  <2>6. /\ r \in Rows /\ r.state = s /\ r.body = row[a].body /\ (r.stageDir <=> row[a].stageDir)
        /\ (r.verified <=> row[a].verified) /\ (r.plan <=> row[a].plan)
    <3>1. PICK f \in BOOLEAN : r = [o EXCEPT !.landed = f]
      BY <2>5 DEF Rows
    <3> HIDE DEF r
    <3>2. QED
      BY <2>5, <3>1 DEF Rows
  <2>7. /\ h \in Hists /\ h.cand = hist[a].cand /\ h.verifies = hist[a].verifies
        /\ h.proof \in {hist[a].proof, "full-applied"}
    BY <2>3, Wording DEF Hists
  <2> HIDE DEF r, h
  <2>8. /\ row' \in [Actions -> Rows] /\ row'[a] = r /\ hist' \in [Actions -> Hists] /\ hist'[a] = h
        /\ \A x \in Actions \ {a} : row'[x] = row[x] /\ hist'[x] = hist[x]
    BY <2>1, <2>2, <2>3, <2>6, <2>7 DEF Inv, TypeOK
  <2>9. Over(a) /\ (Settled(a) => Settled(a)')
    BY <2>1, <2>7, <2>8, LandOver DEF LandRuns, Settled
  <2>10. QED
    BY <2>1, <2>3, <2>4, <2>6, <2>7, <2>8, <2>9, ObserveStep
<1> QED
  BY <1>1, <1>2

\* What a reconcile settles was measured after the landing was over.
LEMMA ReconcileObserveStep == ASSUME Inv, NEW c \in Slots, ReconcileObserve(c) PROVE Inv'
<1>1. CASE Refuse(c)
  BY <1>1, RefuseStep
<1>2. CASE ~Refuse(c)
  <2> PICK a, class, o, s, t, p :
        /\ a = A(c) /\ class = call[c].out
        /\ t = (IF class \in {"full-applied", "original"} THEN "observed" ELSE "held")
        /\ s = ReconciledState(a, class)
        /\ p = Receipt("reconcile", "none", t, class) /\ o = Observed(a, s, p)
    OBVIOUS
  <2> DEFINE r == [o EXCEPT !.landed = @ \/ class = "full-applied"]
             h == [hist[a] EXCEPT !.proof = IF t = "observed" THEN class ELSE @]
  <2>1. /\ Kind(call[c]) = "reconcile" /\ call[c].pc = "observe" /\ Return(c)
        /\ row' = [row EXCEPT ![a] = r] /\ UNCHANGED <<target, orig, dir, reqs, disp>>
        /\ journal' = journal \cup {<<call[c].req, "observe">>}
    BY <1>2 DEF ReconcileObserve, At, Kind, diskVars, Commit, Sub
  <2>2. hist' = [hist EXCEPT ![a] = h]
    BY <1>2 DEF ReconcileObserve, Inv, TypeOK
  <2>3. /\ a \in Actions /\ row[a] \in Rows /\ hist[a] \in Hists /\ RowFits(a) /\ class \in Words
        /\ ReconcileFits(call[c]) /\ a = Act(call[c])
    BY <2>1, Running DEF ToolCalls, CallFits
  <2>4. s \in Words /\ t \in Words /\ p \in Receipts /\ s # "none"
    <3>1. s \in {"observed", "held"} /\ t \in {"observed", "held"}
      BY DEF ReconciledState
    <3>2. QED
      BY <2>3, <3>1, Wording DEF Receipt, Receipts
  <2>5. /\ o \in Rows /\ o.state = s /\ o.body = row[a].body /\ (o.stageDir <=> row[a].stageDir)
        /\ (o.verified <=> row[a].verified) /\ (o.plan <=> row[a].plan)
    BY <2>3, <2>4, ObservedRow
  <2>6. /\ r \in Rows /\ r.state = s /\ r.body = row[a].body /\ (r.stageDir <=> row[a].stageDir)
        /\ (r.verified <=> row[a].verified) /\ (r.plan <=> row[a].plan)
    <3>1. PICK f \in BOOLEAN : r = [o EXCEPT !.landed = f]
      BY <2>5 DEF Rows
    <3> HIDE DEF r
    <3>2. QED
      BY <2>5, <3>1 DEF Rows
  <2>7. /\ h \in Hists /\ h.cand = hist[a].cand /\ h.verifies = hist[a].verifies
        /\ \/ h.proof = hist[a].proof
           \/ h.proof = class /\ class \in {"full-applied", "original"}
    BY <2>3 DEF Hists
  <2> HIDE DEF r, h
  <2>8. /\ row' \in [Actions -> Rows] /\ row'[a] = r /\ hist' \in [Actions -> Hists] /\ hist'[a] = h
        /\ \A x \in Actions \ {a} : row'[x] = row[x] /\ hist'[x] = hist[x]
    BY <2>1, <2>2, <2>3, <2>6, <2>7 DEF Inv, TypeOK
  <2>9. /\ class \in {"full-applied", "original"} => Over(a)
        /\ class = "original" => ~Holds(a)
    BY <2>1, <2>3 DEF ReconcileFits
  <2>10. Settled(a) => Settled(a)' /\ Over(a)
    BY <2>3, <2>7, <2>8 DEF Settled, RowFits
  <2>11. Settled(a)' => Over(a)
    BY <2>7, <2>8, <2>9, <2>10 DEF Settled
  <2>12. QED
    BY <2>1, <2>3, <2>4, <2>6, <2>7, <2>8, <2>9, <2>10, <2>11, ObserveStep
<1> QED
  BY <1>1, <1>2

\* A cleanup call that goes on keeps what its account says.
LEMMA DischargeGoes ==
    ASSUME Inv, NEW c \in Slots, Kind(call[c]) = "discharge", call[c].pc \notin {"idle", "begin"},
           NEW a \in Actions, a = A(c),
           call'[c].pc \in {"issue", "preflight", "work", "measure"}, call'[c].req = call[c].req,
           call'[c].step = call[c].step, call'[c].res = call[c].res, call'[c].cand = call[c].cand,
           reqs' = reqs, row'[a].stageDir <=> row[a].stageDir, hist'[a].proof = hist[a].proof
    PROVE  CallFits(call[c])'
<1>1. /\ call[c].req \in DOMAIN reqs /\ DischargeFits(call[c]) /\ a = Act(call[c])
  BY Running DEF CallFits
<1>2. Kind(call[c])' = "discharge" /\ Act(call[c])' = a
  BY <1>1 DEF Kind, Act
<1>3. Settled(Act(call[c]))' <=> Settled(Act(call[c]))
  BY <1>1, <1>2 DEF Settled
<1>4. DischargeFits(call[c])'
  BY <1>1, <1>2, <1>3 DEF DischargeFits, Cands, Maps
<1> QED
  BY <1>1, <1>2, <1>4
  DEF CallFits, StageFits, LandFits, ReconcileFits, SettleFits, StageRuns, LandRuns

\* An intent of a cleanup names a resource, and takes over the account, of its call.
LEMMA DischargeIntentStep == ASSUME Inv, NEW c \in Slots, DischargeIntent(c) PROVE Inv'
<1>1. CASE Refuse(c)
  BY <1>1, RefuseStep
<1> PICK a, pc : a = A(c) /\ pc = (IF call[c].step = "verify-account" THEN "issue" ELSE "preflight")
  OBVIOUS
<1>2. ASSUME ~Refuse(c)
      PROVE  Kind(call[c]) = "discharge" /\ call[c].pc = "intent" /\ Go(c, pc, "none") /\ reqs' = reqs
  BY <1>2 DEF DischargeIntent, At, Kind, ledgerVars
<1>3. ASSUME ~Refuse(c)
      PROVE  /\ call'[c].pc = pc /\ call'[c].req = call[c].req
             /\ call'[c].step = call[c].step /\ call'[c].res = call[c].res /\ call'[c].cand = call[c].cand
             /\ \A d \in Slots \ {c} : call'[d] = call[d]
             /\ call' \in [Slots -> ToolCalls]
             /\ pc \in {"issue", "preflight"} /\ pc \in Words /\ "none" \in Words
             /\ call[c].req \in DOMAIN reqs /\ call[c].req \in Nat /\ a \in Actions /\ a = Act(call[c])
             /\ row[a] \in Rows /\ hist[a] \in Hists /\ RowFits(a) /\ DiskFits(a) /\ row[a].state # "none"
             /\ DischargeFits(call[c]) /\ call[c] \in ToolCalls
  <2>1. pc \in {"issue", "preflight"} /\ pc \in Words /\ "none" \in Words
    BY Wording
  <2>2. PICK k \in ToolCalls :
          /\ call' = [call EXCEPT ![c] = k] /\ k.pc = pc /\ k.req = call[c].req
          /\ k.step = call[c].step /\ k.res = call[c].res /\ k.cand = call[c].cand
    BY <1>2, <1>3, <2>1, GoFacts
  <2>3. call' \in [Slots -> ToolCalls] /\ call'[c] = k /\ \A d \in Slots \ {c} : call'[d] = call[d]
    BY <2>2 DEF Inv, TypeOK
  <2>4. /\ call[c].req \in DOMAIN reqs /\ a \in Actions /\ a = Act(call[c])
        /\ row[a] \in Rows /\ hist[a] \in Hists /\ RowFits(a) /\ DiskFits(a) /\ row[a].state # "none"
        /\ DischargeFits(call[c]) /\ call[c] \in ToolCalls
    BY <1>2, <1>3, Running, Entered DEF CallFits
  <2>5. QED
    BY <2>1, <2>2, <2>3, <2>4 DEF ToolCalls
<1>4. CASE ~Refuse(c) /\ UNCHANGED <<diskVars, ledgerVars, reqs, stale, used>>
  <2>1. CallFits(call[c])'
    <3>1. row' = row /\ hist' = hist /\ reqs' = reqs
      BY <1>4 DEF ledgerVars
    <3>2. QED
      BY <1>2, <1>3, <1>4, <3>1, DischargeGoes
  <2>2. QED
    BY <1>2, <1>3, <1>4, <2>1, GoStep DEF diskVars, ledgerVars
<1>5. CASE ~Refuse(c) /\ ~UNCHANGED <<diskVars, ledgerVars, reqs, stale, used>>
  <2> PICK r, b, ord : /\ ord = (IF call[c].step = "verify-account" THEN 0 ELSE hist[a].removals[call[c].res] + 1)
                       /\ b = Body(c, "discharge", call[c].step, call[c].res, ord) /\ r = Intended(a, b, FALSE)
    OBVIOUS
  <2>1. /\ row' = [row EXCEPT ![a] = r] /\ UNCHANGED <<target, orig, disp, dir, reqs>>
        /\ journal' = journal \cup {<<call[c].req, "intent">>} /\ Dischargeable(c)
    BY <1>5 DEF DischargeIntent, diskVars, Commit, Sub
  <2>2. /\ row[a].stageDir /\ call[c].cand \in Cands /\ (call[c].cand.dirs["backup"] # "none" => Settled(a))
        /\ (call[c].step = "remove-resource" => call[c].res \in Res)
        /\ call[c].step \in {"verify-account", "remove-resource"} /\ call[c].res \in Res \cup {"none"}
    BY <1>2, <1>3, <1>5 DEF DischargeFits, ToolCalls
  <2>3. call[c].step # "verify-account" => row[a].verified
    BY <1>5, <2>1 DEF Dischargeable, RemoveAdmitted
  <2> hist[a] \in Hists /\ row[a] \in Rows
    BY <1>3, <1>5
  <2>4. PICK h \in Hists : /\ hist' = [hist EXCEPT ![a] = h] /\ h.proof = hist[a].proof
                           /\ h.cand \in Cands /\ (h.cand.dirs["backup"] # "none" => Settled(a))
    <3> DEFINE v == [hist[a] EXCEPT !.verifies = hist[a].verifies + 1, !.cand = call[c].cand]
               m == [hist[a].removals EXCEPT ![call[c].res] = ord]
               w == [hist[a] EXCEPT !.removals = m]
               h == IF call[c].step = "verify-account" THEN v ELSE w
    <3>1. hist' = [hist EXCEPT ![a] = h]
      BY <1>5 DEF DischargeIntent
    <3>2. v \in Hists
      <4>1. hist[a].verifies + 1 \in Nat
        BY DEF Hists
      <4>2. QED
        BY <2>2, <4>1 DEF Hists
    <3>3. v.proof = hist[a].proof /\ v.cand = call[c].cand
      BY <2>2 DEF Hists
    <3>4. call[c].step # "verify-account" => m \in [Res -> Nat]
      BY <2>2 DEF Hists
    <3> HIDE DEF v, m
    <3>5. call[c].step # "verify-account" => w \in Hists /\ w.proof = hist[a].proof /\ w.cand = hist[a].cand
      BY <3>4 DEF Hists
    <3>6. call[c].step # "verify-account" =>
            hist[a].cand \in Cands /\ (hist[a].cand.dirs["backup"] # "none" => Settled(a))
      BY <1>3, <1>5, <2>3 DEF RowFits
    <3> HIDE DEF w
    <3>7. h \in Hists /\ h.proof = hist[a].proof /\ h.cand \in Cands /\ (h.cand.dirs["backup"] # "none" => Settled(a))
      BY <2>2, <3>2, <3>3, <3>5, <3>6
    <3> HIDE DEF h
    <3>8. QED
      BY <3>1, <3>7
  <2>5. hist'[a] = h /\ hist' \in [Actions -> Hists] /\ \A x \in Actions \ {a} : hist'[x] = hist[x]
    BY <1>3, <1>5, <2>4 DEF Inv, TypeOK
  <2>6. /\ r \in Rows /\ r.state = "intended" /\ (r.stageDir <=> row[a].stageDir) /\ (r.plan <=> row[a].plan)
        /\ r.body.step = call[c].step /\ r.body.res = call[c].res /\ (r.verified <=> row[a].verified)
    <3>1. ord \in Nat
      BY <1>3, <1>5, <2>2 DEF Hists
    <3>2. b \in Bodies /\ b.step = call[c].step /\ b.res = call[c].res
      BY <1>3, <1>5, <2>2, <3>1, Wording DEF Body, Bodies
    <3>3. PICK pl \in BOOLEAN, pr \in BOOLEAN :
            /\ (pl <=> row[a].plan)
            /\ r = [row[a] EXCEPT !.state = "intended", !.phase = b.phase, !.body = b, !.receipt = NoReceipt,
                                  !.plan = pl, !.pre = pr]
      BY <1>3, <1>5 DEF Intended, Rows
    <3>4. /\ r \in Rows /\ r.state = "intended" /\ r.body = b /\ (r.stageDir <=> row[a].stageDir)
          /\ (r.verified <=> row[a].verified) /\ (r.plan <=> pl)
      <4>1. b.phase \in Words
        BY <3>2 DEF Bodies
      <4>2. QED
        BY <3>2, <3>3, <4>1, Blank DEF Rows
    <3>5. QED
      BY <3>2, <3>3, <3>4
  <2>7. row'[a] = r /\ row' \in [Actions -> Rows] /\ \A x \in Actions \ {a} : row'[x] = row[x]
    BY <1>3, <1>5, <2>1, <2>6 DEF Inv, TypeOK
  <2>8. disp' \in [Actions -> [Res -> Words]] /\ \A x \in Actions \ {a} :
           row'[x] = row[x] /\ hist'[x] = hist[x] /\ disp'[x] = disp[x]
    BY <2>1, <2>5, <2>7 DEF Inv, TypeOK
  <2>9. TypeOK'
    BY <1>3, <1>5, <2>1, <2>5, <2>7, <2>8, CommitTyped
  <2>10. (Settled(a)' <=> Settled(a)) /\ (Holds(a)' <=> Holds(a))
    BY <2>1, <2>4, <2>5 DEF Settled, Holds
  <2>11. ASSUME Over(a) => Over(a)' PROVE RowFits(a)' /\ DiskFits(a)'
    <3>1. (Settled(a)' \/ dir'[a]["backup"] # "none") => Over(a)'
      BY <1>3, <1>5, <2>1, <2>10, <2>11 DEF RowFits
    <3>2. RowFits(a)'
      BY <2>2, <2>4, <2>5, <2>6, <2>7, <2>10, <3>1 DEF RowFits, Cands, Maps
    <3>3. DiskFits(a)'
      BY <1>3, <1>5, <2>1, <2>4, <2>5, <2>6, <2>7, <2>10 DEF DiskFits
    <3>4. QED
      BY <3>2, <3>3
  <2>12. CallFits(call[c])'
    BY <1>2, <1>3, <1>5, <2>4, <2>5, <2>6, <2>7, DischargeGoes
  <2>13. (Over(a) => Over(a)') => RowFits(a)' /\ DiskFits(a)' /\ CallFits(call[c])'
    BY <2>11, <2>12
  <2>14. /\ ~StageRuns(call[c])' /\ ~LandRuns(call[c])' /\ call[c].pc # "idle"
         /\ Kind(call[c]) # "land" /\ \A d \in Slots \ {c} : call'[d] = call[d]
    BY <1>2, <1>3, <1>5 DEF StageRuns, LandRuns
  <2>15. /\ row'[a].state # "none" /\ (row'[a].plan <=> row[a].plan) /\ row[a].stageDir /\ row'[a].stageDir
         /\ a = A(c) /\ a \in Actions /\ row[a].state # "none" /\ (Settled(a) => Settled(a)')
    BY <1>3, <1>5, <2>2, <2>6, <2>7, <2>10
  <2>16. QED
    BY <2>1, <2>8, <2>9, <2>13, <2>14, <2>15, CommitStep
<1> QED
  BY <1>1, <1>4, <1>5

LEMMA VerifiedRow ==
    ASSUME NEW o \in Rows, NEW f \in BOOLEAN
    PROVE  [o EXCEPT !.verified = f] \in Rows
BY DEF Rows

\* A settled removal was measured, and what is gone stays gone.
LEMMA CleanSettleStep == ASSUME Inv, NEW c \in Slots, CleanSettle(c) PROVE Inv'
<1>1. CASE Refuse(c)
  BY <1>1, RefuseStep
<1>2. CASE ~Refuse(c)
  <2> PICK a, b, out, phase, step, o, p :
        /\ a = A(c) /\ b = row[a].body /\ out = call[c].out /\ phase = reqs[call[c].req].kind
        /\ step = (IF phase = "reconcile" /\ b.step = "remove-resource" THEN "reconcile-progress" ELSE b.step)
        /\ p = Receipt(phase, step, out, "none") /\ o = Observed(a, out, p)
    OBVIOUS
  <2> DEFINE r == [o EXCEPT !.verified = @ \/ (out = "observed" /\ b.step = "verify-account")]
  <2>1. /\ call[c].pc = "settle" /\ Settleable(c) /\ Return(c)
        /\ row' = [row EXCEPT ![a] = r] /\ UNCHANGED <<target, orig, dir, reqs, hist>>
        /\ journal' = journal \cup {<<call[c].req, "observe">>}
    BY <1>2 DEF CleanSettle, diskVars, Commit, Sub
  <2>2. disp' = IF out = "observed" /\ b.step = "remove-resource"
                  THEN [disp EXCEPT ![a][b.res] = "released"] ELSE disp
    BY <1>2 DEF CleanSettle
  <2>3. /\ a \in Actions /\ row[a] \in Rows /\ hist \in [Actions -> Hists] /\ disp[a] \in [Res -> Words]
        /\ RowFits(a) /\ DiskFits(a) /\ SettleFits(call[c]) /\ a = Act(call[c])
        /\ call[c].req \in DOMAIN reqs /\ Kind(call[c]) = phase
    BY <2>1, Running DEF CallFits, Inv, TypeOK, Kind
  <2>4. /\ phase \in {"discharge", "reconcile"} /\ out \in {"observed", "held"}
        /\ out = "observed" /\ b.step = "remove-resource" => dir[a][b.res] = "gone" /\ b.res \in Res
    BY <2>1, <2>3 DEF SettleFits, Settleable, RowFits
  <2>5. row[a].state # "none"
    BY <2>1, <2>3, <2>4, Entered
  <2>6. /\ o \in Rows /\ o.state = out /\ o.body = b /\ (o.stageDir <=> row[a].stageDir)
        /\ (o.verified <=> row[a].verified) /\ (o.plan <=> row[a].plan)
    <3>1. b \in Bodies
      BY <2>3 DEF Rows
    <3>2. b.step \in Words
      BY <3>1 DEF Bodies
    <3>3. phase \in Words /\ out \in Words /\ step \in Words /\ "none" \in Words
      BY <2>4, <3>2, Wording
    <3>4. p \in Receipts
      BY <3>3 DEF Receipt, Receipts
    <3>5. QED
      BY <2>3, <3>3, <3>4, ObservedRow
  <2>7. /\ r \in Rows /\ r.state = out /\ r.body = b /\ (r.stageDir <=> row[a].stageDir)
        /\ (r.plan <=> row[a].plan) /\ (r.verified => row[a].verified \/ b.step # "none")
    <3>1. PICK f \in BOOLEAN : r = [o EXCEPT !.verified = f] /\ (f => row[a].verified \/ b.step # "none")
      BY <2>6 DEF Rows
    <3> HIDE DEF r
    <3>2. /\ r \in Rows /\ r.state = o.state /\ r.body = o.body /\ (r.stageDir <=> o.stageDir)
          /\ (r.plan <=> o.plan) /\ (r.verified <=> f)
      <4>1. o \in Rows /\ r = [o EXCEPT !.verified = f] /\ f \in {TRUE, FALSE}
        BY <2>6, <3>1
      <4>2. r \in Rows
        BY <4>1, VerifiedRow
      <4>3. r.state = o.state /\ r.body = o.body
        BY <4>1 DEF Rows
      <4>4. r.stageDir = o.stageDir /\ r.plan = o.plan
        BY <4>1 DEF Rows
      <4>5. r.verified <=> f
        BY <4>1 DEF Rows
      <4>6. QED
        BY <4>2, <4>3, <4>4, <4>5
    <3>3. QED
      BY <2>6, <3>1, <3>2
  <2> HIDE DEF r
  <2>8. row' \in [Actions -> Rows] /\ row'[a] = r /\ \A x \in Actions \ {a} : row'[x] = row[x]
    BY <2>1, <2>3, <2>7 DEF Inv, TypeOK
  <2>9. /\ disp' \in [Actions -> [Res -> Words]] /\ (\A x \in Actions \ {a} : disp'[x] = disp[x])
        /\ \A x \in Res : disp'[a][x] = "released" => disp[a][x] = "released" \/ dir[a][x] = "gone"
    <3>1. CASE out = "observed" /\ b.step = "remove-resource"
      <4> DEFINE e == [disp[a] EXCEPT ![b.res] = "released"]
      <4>1. disp' = [disp EXCEPT ![a] = e]
        BY <2>2, <3>1 DEF Inv, TypeOK
      <4>2. e \in [Res -> Words] /\ \A x \in Res : e[x] = IF x = b.res THEN "released" ELSE disp[a][x]
        BY <2>3, Wording
      <4> HIDE DEF e
      <4>3. disp'[a] = e /\ disp' \in [Actions -> [Res -> Words]] /\ \A x \in Actions \ {a} : disp'[x] = disp[x]
        BY <2>3, <4>1, <4>2 DEF Inv, TypeOK
      <4>4. QED
        BY <2>4, <3>1, <4>2, <4>3
    <3>2. CASE ~(out = "observed" /\ b.step = "remove-resource")
      BY <2>2, <3>2 DEF Inv, TypeOK
    <3>3. QED
      BY <3>1, <3>2
  <2>10. /\ CallFits(call[c])' /\ call'[c] = Idle /\ (\A d \in Slots \ {c} : call'[d] = call[d])
         /\ call' \in [Slots -> ToolCalls]
    BY <2>1, ReturnFacts DEF Inv, TypeOK
  <2>11. ~StageRuns(call[c])' /\ ~LandRuns(call[c])'
    BY <2>10 DEF StageRuns, LandRuns, Idle
  <2>12. TypeOK' /\ \A x \in Actions \ {a} : row'[x] = row[x] /\ hist'[x] = hist[x] /\ disp'[x] = disp[x]
    <3>1. hist' \in [Actions -> Hists]
      BY <2>1, <2>3
    <3>2. QED
      BY <2>1, <2>3, <2>8, <2>9, <2>10, <3>1, CommitTyped
  <2>13. (Settled(a)' <=> Settled(a)) /\ (Holds(a)' <=> Holds(a))
    BY <2>1 DEF Settled, Holds
  <2>14. ASSUME Over(a) => Over(a)' PROVE RowFits(a)' /\ DiskFits(a)'
    <3>1. (Settled(a)' \/ dir'[a]["backup"] # "none") => Over(a)'
      BY <2>1, <2>3, <2>13, <2>14 DEF RowFits
    <3>2. RowFits(a)'
      BY <2>1, <2>3, <2>4, <2>7, <2>8, <2>13, <3>1 DEF RowFits, Cands, Maps
    <3>3. DiskFits(a)'
      BY <2>1, <2>3, <2>7, <2>8, <2>9, <2>13 DEF DiskFits
    <3>4. QED
      BY <3>2, <3>3
  <2>15. (Over(a) => Over(a)') => RowFits(a)' /\ DiskFits(a)' /\ CallFits(call[c])'
    BY <2>10, <2>14
  <2>16. /\ row'[a].state # "none" /\ (row'[a].plan <=> row[a].plan) /\ (row[a].stageDir <=> row'[a].stageDir)
         /\ (Settled(a) => Settled(a)')
    BY <2>4, <2>7, <2>8, <2>13
  <2>17. /\ "observe" = "intent" => Kind(call[c]) # "land"
         /\ LandRuns(call[c])' => /\ call'[c].req = call[c].req /\ <<call[c].req, "issue">> \notin journal
                                   /\ <<call[c].req, "intent">> \in journal
    BY <2>11
  <2>18. QED
    BY <2>1, <2>3, <2>5, <2>10, <2>11, <2>12, <2>15, <2>16, <2>17, CommitStep
<1> QED
  BY <1>1, <1>2

\* An issue is the only one of its request: a landing that it starts is not over.
LEMMA IssueStep == ASSUME Inv, NEW c \in Slots, Issue(c) PROVE Inv'
<1>1. CASE Refuse(c)
  BY <1>1, RefuseStep
<1>2. CASE ~Refuse(c)
  <2> PICK a, b, out : a = A(c) /\ b = row[a].body /\ out = call[c].out
    OBVIOUS
  <2> DEFINE r == [row[a] EXCEPT !.state = "issued", !.pre = row[a].pre \/ b.step = "remove-resource"]
             m == IF b.step = "remove-resource"
                    THEN [hist[a].permits EXCEPT ![b.res] = b.ord] ELSE hist[a].permits
             h == [hist[a] EXCEPT !.landIssued = hist[a].landIssued \/ b.phase = "land", !.permits = m]
  <2>1. /\ call[c].pc = "issue" /\ Issuable(c) /\ Go(c, "work", out)
        /\ row' = [row EXCEPT ![a] = r] /\ hist' = [hist EXCEPT ![a] = h]
        /\ UNCHANGED <<target, orig, dir, reqs, disp>>
        /\ journal' = journal \cup {<<call[c].req, "issue">>}
    BY <1>2 DEF Issue, diskVars, Commit, Sub
  <2>2. /\ a \in Actions /\ row[a] \in Rows /\ hist[a] \in Hists /\ call[c].req \in DOMAIN reqs
        /\ RowFits(a) /\ DiskFits(a) /\ CallFits(call[c]) /\ a = Act(call[c]) /\ out \in Words
        /\ Kind(call[c]) \in Kinds
    BY <2>1, Running DEF ToolCalls
  <2>3. Kind(call[c]) # "stage" /\ <<call[c].req, "issue">> \notin journal /\ row[a].state = "intended"
    BY <2>1, <2>2 DEF CallFits, SettleFits, Issuable, Sub
  <2>4. r \in Rows /\ r.state = "issued" /\ r.body = b /\ (r.stageDir <=> row[a].stageDir)
        /\ (r.plan <=> row[a].plan) /\ (r.verified <=> row[a].verified)
    <3>1. PICK f \in BOOLEAN : r = [row[a] EXCEPT !.state = "issued", !.pre = f]
      BY <2>2 DEF Rows
    <3>2. "issued" \in Words
      BY Wording
    <3> HIDE DEF r
    <3>3. QED
      BY <2>2, <3>1, <3>2 DEF Rows
  <2>5. h \in Hists /\ h.proof = hist[a].proof /\ h.cand = hist[a].cand /\ h.verifies = hist[a].verifies
    <3>1. PICK f \in BOOLEAN : h = [hist[a] EXCEPT !.landIssued = f, !.permits = m]
      BY <2>2 DEF Hists
    <3>2. m \in [Res -> Nat]
      <4>1. b \in Bodies /\ hist[a].permits \in [Res -> Nat]
        BY <2>2 DEF Rows, Hists
      <4>2. b.ord \in Nat
        BY <4>1 DEF Bodies
      <4>3. QED
        BY <4>1, <4>2
    <3> HIDE DEF h, m
    <3>3. QED
      BY <2>2, <3>1, <3>2 DEF Hists
  <2> HIDE DEF r, h
  <2>6. /\ row' \in [Actions -> Rows] /\ row'[a] = r /\ hist' \in [Actions -> Hists] /\ hist'[a] = h
        /\ \A x \in Actions \ {a} : row'[x] = row[x] /\ hist'[x] = hist[x] /\ disp'[x] = disp[x]
    BY <2>1, <2>2, <2>4, <2>5 DEF Inv, TypeOK
  <2>7. PICK k \in ToolCalls :
          /\ call' = [call EXCEPT ![c] = k] /\ k.pc = "work" /\ k.req = call[c].req
          /\ k.step = call[c].step /\ k.res = call[c].res /\ k.cand = call[c].cand
    BY <2>1, <2>2, GoFacts, Wording
  <2>8. call' \in [Slots -> ToolCalls] /\ call'[c] = k /\ \A d \in Slots \ {c} : call'[d] = call[d]
    BY <2>7 DEF Inv, TypeOK
  <2>9. TypeOK'
    <3>1. disp' \in [Actions -> [Res -> Words]]
      BY <2>1 DEF Inv, TypeOK
    <3>2. QED
      BY <2>1, <2>2, <2>6, <2>8, <3>1, CommitTyped
  <2>10. (Settled(a)' <=> Settled(a)) /\ (Holds(a)' <=> Holds(a))
    BY <2>1, <2>5, <2>6 DEF Settled, Holds
  <2>11. ASSUME Over(a) => Over(a)' PROVE RowFits(a)' /\ DiskFits(a)'
    <3>1. (Settled(a)' \/ dir'[a]["backup"] # "none") => Over(a)'
      BY <2>1, <2>2, <2>10, <2>11 DEF RowFits
    <3>2. RowFits(a)'
      BY <2>1, <2>2, <2>4, <2>5, <2>6, <2>10, <3>1 DEF RowFits, Cands, Maps
    <3>3. DiskFits(a)'
      BY <2>1, <2>2, <2>4, <2>5, <2>6, <2>10 DEF DiskFits
    <3>4. QED
      BY <3>2, <3>3
  <2>12. Kind(call[c])' = Kind(call[c]) /\ Act(call[c])' = a
    BY <2>1, <2>2, <2>7, <2>8 DEF Kind, Act
  <2>13. CallFits(call[c])'
    <3>1. CASE Kind(call[c]) = "discharge"
      BY <2>1, <2>2, <2>4, <2>5, <2>6, <2>7, <2>8, <3>1, DischargeGoes
    <3>2. CASE Kind(call[c]) # "discharge"
      <4>1. Kind(call[c]) = "land" => <<call[c].req, "intent">> \in journal
        BY <2>1, <2>2 DEF CallFits, LandFits
      <4>2. call'[c].pc = "work" /\ call'[c].req = call[c].req
        BY <2>7, <2>8
      <4>3. LandFits(call[c])'
        BY <2>1, <2>12, <4>1, <4>2 DEF LandFits, LandRuns
      <4>4. StageFits(call[c])' /\ ReconcileFits(call[c])' /\ DischargeFits(call[c])' /\ SettleFits(call[c])'
        BY <2>3, <2>12, <3>2, <4>2 DEF StageFits, StageRuns, ReconcileFits, DischargeFits, SettleFits
      <4>5. QED
        BY <2>1, <2>2, <4>2, <4>3, <4>4 DEF CallFits
    <3>3. QED
      BY <3>1, <3>2
  <2>14. (Over(a) => Over(a)') => RowFits(a)' /\ DiskFits(a)' /\ CallFits(call[c])'
    BY <2>11, <2>13
  <2>15. /\ ~StageRuns(call[c])' /\ call'[c].req = call[c].req
         /\ (LandRuns(call[c])' => <<call[c].req, "intent">> \in journal)
    BY <2>1, <2>2, <2>3, <2>7, <2>8, <2>12 DEF StageRuns, LandRuns, CallFits, LandFits
  <2>16. /\ row'[a].state # "none" /\ (row'[a].plan <=> row[a].plan) /\ (row[a].stageDir <=> row'[a].stageDir)
         /\ (Settled(a) => Settled(a)') /\ row[a].state # "none" /\ call[c].pc # "idle"
    BY <2>1, <2>3, <2>4, <2>6, <2>10
  <2>17. QED
    BY <2>1, <2>2, <2>3, <2>6, <2>8, <2>9, <2>14, <2>15, <2>16, CommitStep
<1> QED
  BY <1>1, <1>2

\* The only intent to land an action gives it its plan.
LEMMA LandIntentStep == ASSUME Inv, NEW c \in Slots, LandIntent(c) PROVE Inv'
<1>1. CASE Refuse(c)
  BY <1>1, RefuseStep
<1> PICK a : a = A(c)
  OBVIOUS
<1>2. ASSUME ~Refuse(c)
      PROVE  /\ Kind(call[c]) = "land" /\ call[c].pc = "intent" /\ Go(c, "issue", "none") /\ reqs' = reqs
             /\ \/ <<call[c].req, "intent">> \in journal /\ UNCHANGED <<diskVars, ledgerVars, reqs, stale, used>>
                \/ <<call[c].req, "intent">> \notin journal /\ Landable(c)
  BY <1>2 DEF LandIntent, At, Kind, Sub
<1>3. ASSUME ~Refuse(c)
      PROVE  /\ call'[c].pc = "issue" /\ call'[c].req = call[c].req /\ Kind(call[c])' = "land"
             /\ call[c].req \in DOMAIN reqs /\ a \in Actions /\ a = Act(call[c])
             /\ call' \in [Slots -> ToolCalls] /\ \A d \in Slots \ {c} : call'[d] = call[d]
  <2>1. PICK k \in ToolCalls : call' = [call EXCEPT ![c] = k] /\ k.pc = "issue" /\ k.req = call[c].req
    BY <1>2, <1>3, GoFacts, Wording
  <2>2. call'[c] = k /\ call' \in [Slots -> ToolCalls] /\ \A d \in Slots \ {c} : call'[d] = call[d]
    BY <2>1 DEF Inv, TypeOK
  <2>3. call[c].req \in DOMAIN reqs /\ a \in Actions /\ a = Act(call[c])
    BY <1>2, <1>3, Running
  <2>4. QED
    BY <1>2, <1>3, <2>1, <2>2, <2>3 DEF Kind
<1>4. ASSUME ~Refuse(c), <<call[c].req, "intent">> \in journal'
      PROVE  CallFits(call[c])'
  BY <1>2, <1>3, <1>4
  DEF CallFits, StageFits, LandFits, ReconcileFits, DischargeFits, SettleFits, StageRuns, LandRuns
<1>5. CASE ~Refuse(c) /\ <<call[c].req, "intent">> \in journal
  <2>1. UNCHANGED <<target, orig, row, disp, hist, dir, journal, reqs>>
    BY <1>2, <1>5 DEF diskVars, ledgerVars
  <2>2. CallFits(call[c])'
    BY <1>4, <1>5, <2>1
  <2>3. call[c].pc # "idle" /\ Go(c, "issue", "none") /\ Kind(call[c]) = "land"
    BY <1>2, <1>5
  <2>4. QED
    BY <2>1, <2>2, <2>3, GoStep, Wording
<1>6. CASE ~Refuse(c) /\ <<call[c].req, "intent">> \notin journal
  <2> PICK r, b, q : b = Body(c, "land", "none", "none", 0) /\ r = Intended(a, b, TRUE) /\ q = call[c].req
    OBVIOUS
  <2> DEFINE e == [disp[a] EXCEPT !.backup = "retained"]
  <2>1. /\ row' = [row EXCEPT ![a] = r] /\ UNCHANGED <<target, orig, hist, dir, reqs>>
        /\ journal' = journal \cup {<<q, "intent">>}
    BY <1>2, <1>6 DEF LandIntent, diskVars, Commit, Sub
  <2>2. disp' = [disp EXCEPT ![a] = e]
    BY <1>2, <1>6 DEF LandIntent, Inv, TypeOK, Sub
  <2>3. /\ a \in Actions /\ row[a] \in Rows /\ disp[a] \in [Res -> Words] /\ RowFits(a) /\ DiskFits(a)
        /\ q \in DOMAIN reqs /\ q \in Nat /\ reqs[q].kind = "land" /\ reqs[q].act = a /\ row[a].state # "none"
    BY <1>2, <1>6, Running, Entered DEF ToolCalls, Kind, Act
  <2>4. ~row[a].plan
    BY <1>2, <1>6 DEF Landable
  <2>5. r \in Rows /\ r.state = "intended" /\ (r.stageDir <=> row[a].stageDir) /\ r.plan
        /\ r.body.step = "none" /\ (r.verified <=> row[a].verified)
    <3>1. b \in Bodies /\ b.step = "none"
      BY <2>3, Wording DEF Body, Bodies
    <3>2. PICK pr \in BOOLEAN :
            r = [row[a] EXCEPT !.state = "intended", !.phase = b.phase, !.body = b, !.receipt = NoReceipt,
                               !.plan = TRUE, !.pre = pr]
      BY <2>3 DEF Intended, Rows
    <3>3. r \in Rows /\ r.state = "intended" /\ r.body = b /\ (r.stageDir <=> row[a].stageDir)
          /\ (r.verified <=> row[a].verified) /\ r.plan
      <4>1. b.phase \in Words
        BY <3>1 DEF Bodies
      <4>2. QED
        BY <2>3, <3>1, <3>2, <4>1, Blank DEF Rows
    <3>4. QED
      BY <3>1, <3>3
  <2>6. e \in [Res -> Words] /\ \A x \in Res : e[x] = "released" => disp[a][x] = "released"
    BY <2>3, Wording DEF Res
  <2> HIDE DEF e
  <2>7. /\ row' \in [Actions -> Rows] /\ row'[a] = r /\ disp' \in [Actions -> [Res -> Words]] /\ disp'[a] = e
        /\ hist' \in [Actions -> Hists]
        /\ \A x \in Actions \ {a} : row'[x] = row[x] /\ hist'[x] = hist[x] /\ disp'[x] = disp[x]
    BY <2>1, <2>2, <2>3, <2>5, <2>6 DEF Inv, TypeOK
  <2>8. TypeOK'
    BY <1>3, <1>6, <2>1, <2>3, <2>7, CommitTyped
  <2>9. \A x \in DOMAIN reqs : Planned(x)' <=> Planned(x) \/ x = q
    BY <2>1, <2>3 DEF Planned
  <2>10. ~Over(a) /\ ~Settled(a) /\ dir[a]["backup"] = "none"
    BY <2>3, <2>4 DEF Over, RowFits
  <2>11. \A x \in Actions : Over(x) => Over(x)'
    <3> SUFFICES ASSUME NEW x \in Actions, Over(x) PROVE Over(x)'
      OBVIOUS
    <3>1. x # a /\ row'[x].plan
      BY <2>7, <2>10 DEF Over
    <3>2. \A d \in Slots : call'[d].pc \in {"work", "apply"} /\ Kind(call[d])' = "land" => Act(call[d])' # x
      <4> SUFFICES ASSUME NEW d \in Slots, call'[d].pc \in {"work", "apply"}, Kind(call[d])' = "land"
                   PROVE  Act(call[d])' # x
        OBVIOUS
      <4>1. d # c /\ call'[d] = call[d]
        BY <1>3, <1>6
      <4>2. QED
        BY <2>1, <4>1 DEF Over, Kind, Act
    <3>3. \A y \in DOMAIN reqs' : Planned(y)' /\ reqs'[y].act = x => <<y, "issue">> \in journal'
      BY <2>1, <2>3, <2>9, <3>1 DEF Over
    <3>4. QED
      BY <3>1, <3>2, <3>3 DEF Over
  <2>12. \A x \in Actions : (Settled(x)' <=> Settled(x)) /\ (Holds(x)' <=> Holds(x))
    BY <2>1 DEF Settled, Holds
  <2>13. \A d \in Slots : CallFits(call[d])'
    <3> SUFFICES ASSUME NEW d \in Slots, d # c PROVE CallFits(call[d])'
      BY <1>4, <1>6, <2>1
    <3>1. call'[d] = call[d] /\ CallFits(call[d])
      BY <1>3, <1>6 DEF Inv
    <3>2. call[d].pc # "idle" => Act(call[d]) \in Actions
      BY Running
    <3>3. StageRuns(call[d]) => ~row'[Act(call[d])].stageDir
      <4>1. StageRuns(call[d]) => ~row[Act(call[d])].stageDir /\ Act(call[d]) \in Actions
        BY <3>1, <3>2 DEF CallFits, StageFits, StageRuns
      <4>2. QED
        BY <2>5, <2>7, <4>1
    <3>4. call[d].pc # "idle" => (Holds(Act(call[d]))' => Holds(Act(call[d])))
      BY <2>1, <3>1 DEF Holds, Act
    <3>5. \A x \in Actions : /\ row[x].state # "none" => row'[x].state # "none"
                             /\ row[x].stageDir => row'[x].stageDir
      BY <2>5, <2>7
    <3>6. QED
      BY <2>1, <2>11, <2>12, <3>1, <3>2, <3>3, <3>4, <3>5, KeepsFitting
  <2>14. \A x \in Actions : RowFits(x)' /\ DiskFits(x)'
    <3>1. RowFits(a)'
      BY <2>1, <2>3, <2>5, <2>7, <2>10, <2>12 DEF RowFits, Cands, Maps
    <3>2. DiskFits(a)'
      BY <2>1, <2>3, <2>5, <2>6, <2>7, <2>12 DEF DiskFits
    <3> SUFFICES ASSUME NEW x \in Actions, x # a PROVE RowFits(x)' /\ DiskFits(x)'
      BY <3>1, <3>2
    <3>3. /\ RowFits(x) /\ DiskFits(x)
          /\ row'[x] = row[x] /\ hist'[x] = hist[x] /\ disp'[x] = disp[x] /\ dir'[x] = dir[x]
      BY <2>1, <2>7 DEF Inv
    <3>4. QED
      BY <2>1, <2>11, <2>12, <3>3, KeepsAction DEF RowFits
  <2>15. \A x \in DOMAIN reqs : reqs[x].act \in Actions
    BY Requested DEF Requests
  <2>16. PlannedOnce'
    <3>1. \A x \in DOMAIN reqs : Planned(x) => reqs[x].act # a /\ row[reqs[x].act].plan
      BY <2>4 DEF Inv, PlannedOnce
    <3>2. \A x \in DOMAIN reqs : Planned(x)' => row'[reqs[x].act].plan
      <4>1. row'[a].plan /\ \A y \in Actions : row[y].plan => row'[y].plan
        BY <2>3, <2>5, <2>7
      <4>2. QED
        BY <2>3, <2>9, <2>15, <3>1, <4>1
    <3>3. \A x, y \in DOMAIN reqs : Planned(x)' /\ Planned(y)' /\ reqs[x].act = reqs[y].act => x = y
      BY <2>3, <2>9, <3>1 DEF Inv, PlannedOnce
    <3>4. QED
      BY <2>1, <3>2, <3>3 DEF PlannedOnce
  <2>17. StagedOnce' /\ OneStage'
    <3>1. \A y \in Actions : row[y].state = "none" => row'[y].state = "none"
      BY <2>3, <2>7
    <3>2. \A x \in DOMAIN reqs : <<x, "admit">> \notin journal' => <<x, "admit">> \notin journal
      BY <2>1
    <3>3. QED
      BY <2>1, <2>15, <3>1, <3>2 DEF Inv, StagedOnce, OneStage
  <2>18. OneRuns'
    <3>1. ~LandRuns(call[c])' /\ ~StageRuns(call[c])'
      BY <1>3, <1>6 DEF LandRuns, StageRuns
    <3>2. QED
      BY <1>3, <1>6, <2>1, <3>1 DEF Inv, OneRuns, LandRuns, StageRuns, Kind
  <2>19. QED
    BY <2>8, <2>13, <2>14, <2>16, <2>17, <2>18 DEF Inv
<1> QED
  BY <1>1, <1>5, <1>6

\* The admission of a stage is the first commit of its action, and its only one.
LEMMA StageAdmitStep ==
    ASSUME Inv, NEW c \in Slots, NEW kind \in StageKinds, NEW base, StageAdmit(c, kind, base)
    PROVE  Inv'
<1>1. CASE Refuse(c)
  BY <1>1, RefuseStep
<1>2. CASE ~Refuse(c)
  <2> PICK a, q : a = A(c) /\ q = call[c].req
    OBVIOUS
  <2> DEFINE r == [row[a] EXCEPT !.state = "issued", !.phase = "stage", !.kind = kind]
  <2>1. /\ Kind(call[c]) = "stage" /\ call[c].pc = "admit" /\ Admissible(c)
        /\ row' = [row EXCEPT ![a] = r] /\ orig' = [orig EXCEPT ![a] = call[c].seen]
        /\ UNCHANGED <<target, hist, disp, dir, reqs>>
        /\ journal' = journal \cup {<<q, "admit">>}
        /\ Go(c, "work", "none") \/ Return(c)
    BY <1>2 DEF StageAdmit, At, Kind, diskVars, Commit, Sub
  <2>2. /\ a \in Actions /\ row[a] \in Rows /\ RowFits(a) /\ DiskFits(a) /\ a = Act(call[c])
        /\ q \in DOMAIN reqs /\ reqs[q].kind = "stage" /\ reqs[q].act = a /\ call[c].seen \in Maps
        /\ <<q, "admit">> \notin journal
    BY <2>1, Running DEF CallFits, StageFits, Kind, Act, Admissible, Sub
  <2>3. row[a].state = "none" /\ ~row[a].plan /\ ~row[a].stageDir
    BY <2>2 DEF Inv, StagedOnce, RowFits
  <2>4. /\ r \in Rows /\ r.state = "issued" /\ (r.stageDir <=> row[a].stageDir) /\ (r.plan <=> row[a].plan)
        /\ r.body = row[a].body /\ (r.verified <=> row[a].verified)
    BY <2>2, Wording DEF Rows
  <2> HIDE DEF r
  <2>5. /\ row' \in [Actions -> Rows] /\ row'[a] = r /\ orig' \in [Actions -> Maps] /\ orig'[a] = call[c].seen
        /\ \A x \in Actions \ {a} : row'[x] = row[x] /\ orig'[x] = orig[x]
    BY <2>1, <2>2, <2>4 DEF Inv, TypeOK
  <2>6. /\ call' \in [Slots -> ToolCalls] /\ (\A d \in Slots \ {c} : call'[d] = call[d])
        /\ \/ call'[c].pc = "idle"
           \/ call'[c].pc = "work" /\ call'[c].req = q /\ Kind(call[c])' = "stage" /\ Act(call[c])' = a
    <3>1. CASE Return(c)
      BY <3>1, ReturnFacts DEF Inv, TypeOK
    <3>2. CASE Go(c, "work", "none")
      <4>1. PICK k \in ToolCalls : call' = [call EXCEPT ![c] = k] /\ k.pc = "work" /\ k.req = q
        BY <2>1, <3>2, GoFacts, Wording
      <4>2. call'[c] = k /\ call' \in [Slots -> ToolCalls] /\ \A d \in Slots \ {c} : call'[d] = call[d]
        BY <4>1 DEF Inv, TypeOK
      <4>3. QED
        BY <2>1, <2>2, <4>1, <4>2 DEF Kind, Act
    <3>3. QED
      BY <2>1, <3>1, <3>2
  <2>7. TypeOK'
    <3>1. \A j \in journal' : j[1] \in DOMAIN reqs'
      BY <2>1, <2>2 DEF Inv, TypeOK
    <3>2. QED
      BY <2>1, <2>5, <2>6, <3>1 DEF Inv, TypeOK
  <2>8. \A x \in DOMAIN reqs : Planned(x)' <=> Planned(x)
    BY <2>1 DEF Planned
  <2>9. ~Over(a) /\ ~Settled(a) /\ dir[a]["backup"] = "none" /\ ~Holds(a)' /\ ~Holds(a)
    BY <2>1, <2>2, <2>3 DEF Over, RowFits, Holds
  <2>10. \A x \in Actions : Over(x) => Over(x)'
    <3> SUFFICES ASSUME NEW x \in Actions, Over(x) PROVE Over(x)'
      OBVIOUS
    <3>1. x # a /\ row'[x].plan
      BY <2>5, <2>9 DEF Over
    <3>2. \A d \in Slots : call'[d].pc \in {"work", "apply"} /\ Kind(call[d])' = "land" => Act(call[d])' # x
      <4> SUFFICES ASSUME NEW d \in Slots, call'[d].pc \in {"work", "apply"}, Kind(call[d])' = "land"
                   PROVE  Act(call[d])' # x
        OBVIOUS
      <4>1. d # c /\ call'[d] = call[d]
        BY <2>6
      <4>2. QED
        BY <2>1, <4>1 DEF Over, Kind, Act
    <3>3. \A y \in DOMAIN reqs' : Planned(y)' /\ reqs'[y].act = x => <<y, "issue">> \in journal'
      BY <2>1, <2>8 DEF Over
    <3>4. QED
      BY <3>1, <3>2, <3>3 DEF Over
  <2>11. \A x \in Actions : (Settled(x)' <=> Settled(x)) /\ (Holds(x)' <=> Holds(x))
    <3> SUFFICES ASSUME NEW x \in Actions PROVE (Settled(x)' <=> Settled(x)) /\ (Holds(x)' <=> Holds(x))
      OBVIOUS
    <3>1. Settled(x)' <=> Settled(x)
      BY <2>1 DEF Settled
    <3>2. x # a => orig'[x] = orig[x] /\ target' = target
      BY <2>1, <2>5
    <3>3. Holds(x)' <=> Holds(x)
      BY <2>9, <3>2 DEF Holds
    <3>4. QED
      BY <3>1, <3>3
  <2>12. CallFits(call[c])'
    <3>1. CASE call'[c].pc = "idle"
      BY <3>1 DEF CallFits
    <3>2. CASE call'[c].pc # "idle"
      <4>1. call'[c].pc = "work" /\ call'[c].req = q /\ Kind(call[c])' = "stage" /\ Act(call[c])' = a
        BY <2>6, <3>2
      <4>2. StageFits(call[c])'
        BY <2>1, <2>3, <2>4, <2>5, <4>1 DEF StageFits, StageRuns
      <4>3. LandFits(call[c])' /\ ReconcileFits(call[c])' /\ DischargeFits(call[c])' /\ SettleFits(call[c])'
        BY <4>1 DEF LandFits, LandRuns, ReconcileFits, DischargeFits, SettleFits
      <4>4. QED
        BY <2>1, <2>2, <4>1, <4>2, <4>3 DEF CallFits
    <3>3. QED
      BY <3>1, <3>2
  <2>13. \A d \in Slots : CallFits(call[d])'
    <3> SUFFICES ASSUME NEW d \in Slots, d # c PROVE CallFits(call[d])'
      BY <2>12
    <3>1. call'[d] = call[d] /\ CallFits(call[d])
      BY <2>6 DEF Inv
    <3>2. call[d].pc # "idle" => Act(call[d]) \in Actions
      BY Running
    <3>3. StageRuns(call[d]) => ~row'[Act(call[d])].stageDir
      <4>1. StageRuns(call[d]) => ~row[Act(call[d])].stageDir /\ Act(call[d]) \in Actions
        BY <3>1, <3>2 DEF CallFits, StageFits, StageRuns
      <4>2. QED
        BY <2>4, <2>5, <4>1
    <3>4. call[d].pc # "idle" => (Holds(Act(call[d]))' => Holds(Act(call[d])))
      <4>1. Act(call[d])' = Act(call[d])
        BY <2>1, <3>1 DEF Act
      <4>2. \A x \in Actions : Holds(x)' => Holds(x)
        BY <2>11
      <4>3. QED
        BY <3>2, <4>1, <4>2 DEF Holds
    <3>5. \A x \in Actions : /\ row[x].state # "none" => row'[x].state # "none"
                             /\ row[x].stageDir => row'[x].stageDir
      BY <2>4, <2>5
    <3>6. QED
      BY <2>1, <2>10, <2>11, <3>1, <3>2, <3>3, <3>4, <3>5, KeepsFitting
  <2>14. \A x \in Actions : RowFits(x)' /\ DiskFits(x)'
    <3>1. RowFits(a)'
      BY <2>1, <2>2, <2>4, <2>5, <2>9, <2>11 DEF RowFits, Cands, Maps
    <3>2. DiskFits(a)'
      BY <2>1, <2>2, <2>4, <2>5, <2>9, <2>11 DEF DiskFits
    <3> SUFFICES ASSUME NEW x \in Actions, x # a PROVE RowFits(x)' /\ DiskFits(x)'
      BY <3>1, <3>2
    <3>3. /\ RowFits(x) /\ DiskFits(x)
          /\ row'[x] = row[x] /\ hist'[x] = hist[x] /\ disp'[x] = disp[x] /\ dir'[x] = dir[x]
      BY <2>1, <2>5 DEF Inv
    <3>4. QED
      BY <2>1, <2>10, <2>11, <3>3, KeepsAction DEF RowFits
  <2>15. /\ \A x \in DOMAIN reqs : reqs[x].act \in Actions
         /\ \A x \in Actions : (row[x].plan => row'[x].plan) /\ (x # a => row'[x] = row[x])
         /\ \A x \in DOMAIN reqs : <<x, "admit">> \notin journal' => x # q /\ <<x, "admit">> \notin journal
    BY <2>1, <2>4, <2>5, Requested DEF Requests
  <2>16. PlannedOnce'
    BY <2>1, <2>8, <2>15 DEF Inv, PlannedOnce
  <2>17. StagedOnce' /\ OneStage'
    <3>1. \A x \in DOMAIN reqs : reqs[x].act = a => x = q
      BY <2>2 DEF Inv, StagedOnce
    <3>2. OneStage'
      BY <2>1 DEF Inv, OneStage
    <3>3. StagedOnce'
      BY <2>1, <2>15, <3>1 DEF Inv, StagedOnce
    <3>4. QED
      BY <3>2, <3>3
  <2>18. OneRuns'
    <3>1. ~LandRuns(call[c])' /\ (StageRuns(call[c])' => call'[c].req = q)
      BY <2>6 DEF LandRuns, StageRuns
    <3>2. \A d \in Slots : StageRuns(call[d]) => call[d].req # q
      <4> SUFFICES ASSUME NEW d \in Slots, StageRuns(call[d]) PROVE call[d].req # q
        OBVIOUS
      <4>1. CallFits(call[d])
        BY Running DEF StageRuns
      <4>2. QED
        BY <2>2, <4>1 DEF CallFits, StageFits, StageRuns
    <3>3. QED
      BY <2>1, <2>6, <3>1, <3>2 DEF Inv, OneRuns, LandRuns, StageRuns, Kind
  <2>19. QED
    BY <2>7, <2>13, <2>14, <2>16, <2>17, <2>18 DEF Inv
<1> QED
  BY <1>1, <1>2

-----------------------------------------------------------------------------
(* Steps of a call that write its stage or its backup                        *)

LEMMA DirStep ==
    ASSUME Inv, NEW c \in Slots, call[c].pc # "idle", NEW a \in Actions, a = A(c),
           dir' \in [Actions -> Dirs], \A x \in Actions \ {a} : dir'[x] = dir[x],
           call' \in [Slots -> ToolCalls], \A d \in Slots \ {c} : call'[d] = call[d],
           call'[c].req = call[c].req,
           UNCHANGED <<target, orig, row, disp, hist, journal, reqs>>,
           LandRuns(call[c])' => LandRuns(call[c]) /\ call'[c].pc \notin {"work", "apply"},
           StageRuns(call[c])' => StageRuns(call[c]),
           \A x \in Res : dir[a][x] = "gone" => dir'[a][x] = "gone",
           dir'[a]["backup"] # "none" => Over(a),
           dir'[a]["stage"] \in {"cut", "gone"} => row[a].stageDir,
           Holds(a) /\ hist[a].proof # "full-applied" => dir'[a]["backup"] = "full",
           CallFits(call[c])'
    PROVE  Inv'
<1>1. \A x \in DOMAIN reqs : Planned(x)' <=> Planned(x)
  BY DEF Planned
<1>2. \A x \in Actions : Over(x) => Over(x)'
  <2> SUFFICES ASSUME NEW x \in Actions, Over(x) PROVE Over(x)'
    OBVIOUS
  <2>1. row'[x].plan
    BY DEF Over
  <2>2. \A d \in Slots : call'[d].pc \in {"work", "apply"} /\ Kind(call[d])' = "land" => Act(call[d])' # x
    <3> SUFFICES ASSUME NEW d \in Slots, call'[d].pc \in {"work", "apply"}, Kind(call[d])' = "land"
                 PROVE  Act(call[d])' # x
      OBVIOUS
    <3>1. d # c /\ call'[d] = call[d]
      BY DEF LandRuns
    <3>2. QED
      BY <3>1 DEF Over, Kind, Act
  <2>3. \A y \in DOMAIN reqs' : Planned(y)' /\ reqs'[y].act = x => <<y, "issue">> \in journal'
    BY <1>1 DEF Over
  <2>4. QED
    BY <2>1, <2>2, <2>3 DEF Over
<1>3. \A x \in Actions : (Settled(x)' <=> Settled(x)) /\ (Holds(x)' <=> Holds(x))
  BY DEF Settled, Holds
<1>4. \A d \in Slots : CallFits(call[d])'
  <2> SUFFICES ASSUME NEW d \in Slots, d # c PROVE CallFits(call[d])'
    OBVIOUS
  <2>1. call'[d] = call[d] /\ CallFits(call[d])
    BY DEF Inv
  <2>2. call[d].pc # "idle" => Act(call[d]) \in Actions
    BY Running
  <2>3. StageRuns(call[d]) => ~row'[Act(call[d])].stageDir
    BY <2>1 DEF CallFits, StageFits, StageRuns
  <2>4. call[d].pc # "idle" => (Holds(Act(call[d]))' => Holds(Act(call[d])))
    BY <2>1 DEF Holds, Act
  <2>5. \A r \in Res : call[d].pc = "settle" /\ dir[Act(call[d])][r] = "gone" => dir'[Act(call[d])][r] = "gone"
    <3>1. CASE Act(call[d]) # a
      BY <2>2, <3>1
    <3>2. CASE Act(call[d]) = a
      BY <3>2
    <3>3. QED
      BY <3>1, <3>2
  <2>6. QED
    BY <1>2, <1>3, <2>1, <2>2, <2>3, <2>4, <2>5, KeepsFitting
<1>5. \A x \in Actions : RowFits(x)' /\ DiskFits(x)'
  <2>1. RowFits(a) /\ DiskFits(a)
    BY DEF Inv
  <2>2. RowFits(a)'
    BY <1>2, <1>3, <2>1 DEF RowFits, Cands, Maps
  <2>3. DiskFits(a)'
    BY <1>3, <2>1 DEF DiskFits
  <2> SUFFICES ASSUME NEW x \in Actions, x # a PROVE RowFits(x)' /\ DiskFits(x)'
    BY <2>2, <2>3
  <2>4. RowFits(x) /\ DiskFits(x) /\ dir'[x] = dir[x]
    BY DEF Inv
  <2>5. QED
    BY <1>2, <1>3, <2>4, KeepsAction DEF RowFits
<1>6. TypeOK'
  BY DEF Inv, TypeOK
<1>7. PlannedOnce' /\ StagedOnce' /\ OneStage'
  BY <1>1 DEF Inv, PlannedOnce, StagedOnce, OneStage
<1>8. OneRuns'
  BY DEF Inv, OneRuns, LandRuns, StageRuns, Kind
<1> QED
  BY <1>4, <1>5, <1>6, <1>7, <1>8 DEF Inv

\* Materializing never follows an observation, so that nothing was removed yet.
LEMMA StageWorkStep == ASSUME Inv, NEW c \in Slots, StageWork(c) PROVE Inv'
<1>1. CASE Refuse(c)
  BY <1>1, RefuseStep
<1>2. CASE ~Refuse(c)
  <2> PICK a : a = A(c)
    OBVIOUS
  <2>1. PICK out \in {"observed", "failed"} :
          /\ Kind(call[c]) = "stage" /\ call[c].pc = "work"
          /\ dir' = [dir EXCEPT ![a].stage = IF out = "observed" THEN "full" ELSE "bad"]
          /\ Go(c, "observe", out)
          /\ UNCHANGED <<target, orig, row, disp, hist, journal, reqs>>
    BY <1>2 DEF StageWork, At, Kind, ledgerVars
  <2>2. /\ a \in Actions /\ dir[a] \in Dirs /\ RowFits(a) /\ DiskFits(a) /\ a = Act(call[c])
        /\ call[c].req \in DOMAIN reqs /\ StageFits(call[c]) /\ StageRuns(call[c])
    BY <2>1, Running DEF CallFits, StageRuns
  <2>3. row[a].state # "none" /\ ~row[a].stageDir /\ <<call[c].req, "admit">> \in journal
    BY <2>2 DEF StageFits
  <2> DEFINE e == [dir[a] EXCEPT !.stage = IF out = "observed" THEN "full" ELSE "bad"]
  <2>4. dir' = [dir EXCEPT ![a] = e]
    BY <2>1 DEF Inv, TypeOK
  <2>5. /\ e \in Dirs /\ e["backup"] = dir[a]["backup"] /\ e["stage"] \in {"full", "bad"}
        /\ dir[a]["stage"] # "gone"
    BY <2>2, <2>3 DEF Dirs, Res, DiskFits
  <2> HIDE DEF e
  <2>6. dir' \in [Actions -> Dirs] /\ dir'[a] = e /\ \A x \in Actions \ {a} : dir'[x] = dir[x]
    BY <2>2, <2>4, <2>5 DEF Inv, TypeOK
  <2>7. PICK k \in ToolCalls : /\ call' = [call EXCEPT ![c] = k]
                               /\ k.pc = "observe" /\ k.req = call[c].req /\ k.out = out
    BY <2>1, GoFacts, Wording
  <2>8. call' \in [Slots -> ToolCalls] /\ call'[c] = k /\ \A d \in Slots \ {c} : call'[d] = call[d]
    BY <2>7 DEF Inv, TypeOK
  <2>9. Kind(call[c])' = "stage" /\ Act(call[c])' = a
    BY <2>1, <2>2, <2>7, <2>8 DEF Kind, Act
  <2>10. CallFits(call[c])'
    BY <2>1, <2>2, <2>3, <2>7, <2>8, <2>9
    DEF CallFits, StageFits, LandFits, ReconcileFits, DischargeFits, SettleFits, StageRuns, LandRuns
  <2>11. /\ ~LandRuns(call[c])' /\ call'[c].req = call[c].req /\ call[c].pc # "idle"
         /\ \A x \in Res : dir[a][x] = "gone" => dir'[a][x] = "gone"
    BY <2>1, <2>5, <2>6, <2>7, <2>8, <2>9 DEF LandRuns, Res
  <2>12. /\ dir'[a]["backup"] # "none" => Over(a)
         /\ dir'[a]["stage"] \notin {"cut", "gone"}
         /\ Holds(a) /\ hist[a].proof # "full-applied" => dir'[a]["backup"] = "full"
    BY <2>2, <2>5, <2>6 DEF RowFits, DiskFits
  <2>13. QED
    BY <2>1, <2>2, <2>6, <2>8, <2>10, <2>11, <2>12, DirStep
<1> QED
  BY <1>1, <1>2

LEMMA CheckWorkStep == ASSUME Inv, NEW c \in Slots, CheckWork(c) PROVE Inv'
<1> PICK a : a = A(c)
  OBVIOUS
<1>1. PICK out \in {"drift", "passed", "blocked"} :
        /\ Kind(call[c]) = "check" /\ call[c].pc = "work" /\ Go(c, "observe", out)
        /\ UNCHANGED <<target, orig, row, disp, hist, journal, reqs>>
        /\ \/ dir' = dir
           \/ dir[a].stage = "full" /\ dir' = [dir EXCEPT ![a].stage = "bad"]
  BY DEF CheckWork, At, Kind, ledgerVars
<1>2. /\ a \in Actions /\ dir[a] \in Dirs /\ RowFits(a) /\ DiskFits(a) /\ a = Act(call[c])
      /\ call[c].req \in DOMAIN reqs
  BY <1>1, Running
<1>3. PICK k \in ToolCalls : /\ call' = [call EXCEPT ![c] = k] /\ k.pc = "observe" /\ k.req = call[c].req
  BY <1>1, GoFacts, Wording
<1>4. call' \in [Slots -> ToolCalls] /\ call'[c] = k /\ \A d \in Slots \ {c} : call'[d] = call[d]
  BY <1>3 DEF Inv, TypeOK
<1>5. Kind(call[c])' = "check"
  BY <1>1, <1>3, <1>4 DEF Kind
<1>6. CallFits(call[c])'
  BY <1>1, <1>2, <1>3, <1>4, <1>5
  DEF CallFits, StageFits, LandFits, ReconcileFits, DischargeFits, SettleFits, StageRuns, LandRuns
<1>7. /\ dir' \in [Actions -> Dirs] /\ (\A x \in Actions \ {a} : dir'[x] = dir[x])
      /\ dir'[a]["backup"] = dir[a]["backup"]
      /\ dir'[a] = dir[a] \/ (dir[a]["stage"] = "full" /\ dir'[a]["stage"] = "bad")
  <2>1. CASE dir' = dir
    BY <2>1 DEF Inv, TypeOK
  <2>2. CASE dir[a].stage = "full" /\ dir' = [dir EXCEPT ![a].stage = "bad"]
    <3> DEFINE e == [dir[a] EXCEPT !.stage = "bad"]
    <3>1. dir' = [dir EXCEPT ![a] = e]
      BY <2>2 DEF Inv, TypeOK
    <3>2. e \in Dirs /\ e["backup"] = dir[a]["backup"] /\ e["stage"] = "bad"
      BY <1>2 DEF Dirs, Res
    <3> HIDE DEF e
    <3>3. QED
      BY <1>2, <2>2, <3>1, <3>2 DEF Inv, TypeOK
  <2>3. QED
    BY <1>1, <2>1, <2>2
<1>8. /\ ~LandRuns(call[c])' /\ ~StageRuns(call[c])' /\ call'[c].req = call[c].req /\ call[c].pc # "idle"
      /\ \A x \in Res : dir[a][x] = "gone" => dir'[a][x] = "gone"
  BY <1>1, <1>3, <1>4, <1>5, <1>7 DEF LandRuns, StageRuns, Res
<1>9. /\ dir'[a]["backup"] # "none" => Over(a)
      /\ dir'[a]["stage"] \in {"cut", "gone"} => row[a].stageDir
      /\ Holds(a) /\ hist[a].proof # "full-applied" => dir'[a]["backup"] = "full"
  BY <1>2, <1>7 DEF RowFits, DiskFits
<1> QED
  BY <1>1, <1>2, <1>4, <1>6, <1>7, <1>8, <1>9, DirStep

\* A backup is removed only once its landing is settled.
LEMMA RemoveWorkStep == ASSUME Inv, NEW c \in Slots, RemoveWork(c) PROVE Inv'
<1> PICK a, res : a = A(c) /\ res = call[c].res
  OBVIOUS
<1>1. PICK left \in {dir[a][res], "cut", "gone"} :
        /\ Kind(call[c]) = "discharge" /\ call[c].pc = "work" /\ call[c].step = "remove-resource"
        /\ dir[a][res] = "gone" => left = "gone"
        /\ dir' = [dir EXCEPT ![a][res] = left]
        /\ Go(c, "measure", "none") /\ UNCHANGED <<target, orig, row, disp, hist, journal, reqs>>
  BY DEF RemoveWork, At, Kind, ledgerVars
<1>2. /\ a \in Actions /\ dir[a] \in Dirs /\ RowFits(a) /\ DiskFits(a) /\ a = Act(call[c])
      /\ call[c].req \in DOMAIN reqs /\ DischargeFits(call[c])
  BY <1>1, Running DEF CallFits
<1>3. res \in Res /\ (res = "backup" => Settled(a)) /\ row[a].stageDir
  BY <1>1, <1>2 DEF DischargeFits
<1> DEFINE e == [dir[a] EXCEPT ![res] = left]
<1>4. dir' = [dir EXCEPT ![a] = e]
  BY <1>1 DEF Inv, TypeOK
<1>5. e \in Dirs /\ \A x \in Res : e[x] = IF x = res THEN left ELSE dir[a][x]
  BY <1>1, <1>2, <1>3 DEF Dirs
<1> HIDE DEF e
<1>6. dir' \in [Actions -> Dirs] /\ dir'[a] = e /\ \A x \in Actions \ {a} : dir'[x] = dir[x]
  BY <1>2, <1>4, <1>5 DEF Inv, TypeOK
<1>7. PICK k \in ToolCalls :
        /\ call' = [call EXCEPT ![c] = k] /\ k.pc = "measure" /\ k.req = call[c].req
        /\ k.step = call[c].step /\ k.res = call[c].res /\ k.cand = call[c].cand
  BY <1>1, GoFacts, Wording
<1>8. call' \in [Slots -> ToolCalls] /\ call'[c] = k /\ \A d \in Slots \ {c} : call'[d] = call[d]
  BY <1>7 DEF Inv, TypeOK
<1>9. CallFits(call[c])'
  BY <1>1, <1>2, <1>7, <1>8, DischargeGoes
<1>10. /\ ~LandRuns(call[c])' /\ ~StageRuns(call[c])' /\ call'[c].req = call[c].req /\ call[c].pc # "idle"
       /\ \A x \in Res : dir[a][x] = "gone" => dir'[a][x] = "gone"
  BY <1>1, <1>3, <1>5, <1>6, <1>7, <1>8 DEF LandRuns, StageRuns
<1>11. /\ dir'[a]["backup"] # "none" => Over(a)
       /\ Holds(a) /\ hist[a].proof # "full-applied" => dir'[a]["backup"] = "full"
  <2>1. "backup" \in Res
    BY DEF Res
  <2>2. CASE res = "backup"
    BY <1>2, <1>3, <2>2 DEF RowFits, DiskFits, Settled
  <2>3. CASE res # "backup"
    BY <1>2, <1>5, <1>6, <2>1, <2>3 DEF RowFits, DiskFits
  <2>4. QED
    BY <2>2, <2>3
<1> QED
  BY <1>1, <1>2, <1>3, <1>6, <1>8, <1>9, <1>10, <1>11, DirStep

LEMMA VerifyWorkStep == ASSUME Inv, NEW c \in Slots, VerifyWork(c) PROVE Inv'
<1>1. /\ Kind(call[c]) = "discharge" /\ call[c].pc = "work" /\ Go(c, "measure", "none")
      /\ UNCHANGED <<target, orig, row, disp, hist, dir, journal, reqs>>
  BY DEF VerifyWork, At, Kind, ledgerVars
<1>2. A(c) \in Actions /\ "measure" \in Words /\ "none" \in Words
  BY <1>1, Running, Wording
<1>3. /\ call'[c].pc = "measure" /\ call'[c].req = call[c].req
      /\ call'[c].step = call[c].step /\ call'[c].res = call[c].res /\ call'[c].cand = call[c].cand
  BY <1>1, <1>2, GoFacts
<1>4. CallFits(call[c])'
  BY <1>1, <1>2, <1>3, DischargeGoes
<1> QED
  BY <1>1, <1>2, <1>4, GoStep

LEMMA PreflightStep == ASSUME Inv, NEW c \in Slots, Preflight(c) PROVE Inv'
<1>1. CASE Refuse(c)
  BY <1>1, RefuseStep
<1>2. CASE ~Refuse(c)
  <2> DEFINE k == [call[c] EXCEPT !.pc = "issue", !.seen = dir[A(c)]]
  <2>1. /\ Kind(call[c]) = "discharge" /\ call[c].pc = "preflight" /\ call' = [call EXCEPT ![c] = k]
        /\ UNCHANGED <<target, orig, row, disp, hist, dir, journal, reqs>>
    BY <1>2 DEF Preflight, At, Kind, diskVars, ledgerVars
  <2>2. call[c] \in ToolCalls /\ A(c) \in Actions /\ dir[A(c)] \in Dirs
    BY <2>1, Running
  <2>3. /\ k \in ToolCalls /\ k.pc = "issue" /\ k.req = call[c].req
        /\ k.step = call[c].step /\ k.res = call[c].res /\ k.cand = call[c].cand
    BY <2>2, Wording DEF ToolCalls
  <2>4. call'[c] = k
    BY <2>1 DEF Inv, TypeOK
  <2> HIDE DEF k
  <2>5. CallFits(call[c])'
    BY <2>1, <2>2, <2>3, <2>4, DischargeGoes
  <2>6. ~LandRuns(k) /\ ~StageRuns(k)
    BY <2>3 DEF LandRuns, StageRuns
  <2>7. QED
    BY <2>1, <2>3, <2>5, <2>6, CallStep
<1> QED
  BY <1>1, <1>2

\* A removal is found done only when nothing is left of its resource.
LEMMA Findings ==
    ASSUME NEW a, Finding(a) # "none"
    PROVE  /\ Finding(a) \in {"observed", "held"}
           /\ Finding(a) = "observed" /\ row[a].body.step = "remove-resource"
                => dir[a][row[a].body.res] = "gone"
BY DEF Finding

LEMMA CleanMeasureStep == ASSUME Inv, NEW c \in Slots, CleanMeasure(c) PROVE Inv'
<1>1. CASE Refuse(c)
  BY <1>1, RefuseStep
<1>2. CASE ~Refuse(c)
  <2> PICK a, out : a = A(c) /\ out = Finding(a)
    OBVIOUS
  <2> DEFINE k == [call[c] EXCEPT !.pc = "settle", !.out = out, !.seen = row[a]]
  <2>1. /\ \/ Kind(call[c]) = "discharge" /\ call[c].pc = "measure"
           \/ Kind(call[c]) = "reconcile" /\ call[c].pc = "clean"
        /\ call' = [call EXCEPT ![c] = k] /\ out # "none"
        /\ UNCHANGED <<target, orig, row, disp, hist, dir, journal, reqs>>
    BY <1>2 DEF CleanMeasure, Measurable, At, Kind, diskVars, ledgerVars
  <2>2. /\ call[c] \in ToolCalls /\ a \in Actions /\ row[a] \in Rows /\ RowFits(a) /\ CallFits(call[c])
        /\ call[c].req \in DOMAIN reqs /\ a = Act(call[c])
    BY <2>1, Running
  <2>3. /\ out \in {"observed", "held"}
        /\ out = "observed" /\ row[a].body.step = "remove-resource"
             => row[a].body.res \in Res /\ dir[a][row[a].body.res] = "gone"
    BY <2>1, <2>2, Findings DEF RowFits
  <2>4. out \in Words /\ "settle" \in Words
    BY <2>3, Wording
  <2>5. /\ k \in ToolCalls /\ k.pc = "settle" /\ k.req = call[c].req /\ k.out = out /\ k.seen = row[a]
        /\ k.step = call[c].step /\ k.res = call[c].res /\ k.cand = call[c].cand
    BY <2>2, <2>4 DEF ToolCalls
  <2>6. call'[c] = k
    BY <2>1 DEF Inv, TypeOK
  <2> HIDE DEF k
  <2>7. Kind(call[c])' = Kind(call[c]) /\ Act(call[c])' = a
    BY <2>1, <2>2, <2>5, <2>6 DEF Kind, Act
  <2>8. SettleFits(call[c])'
    BY <2>1, <2>2, <2>3, <2>5, <2>6, <2>7 DEF SettleFits
  <2>9. DischargeFits(call[c])'
    <3>1. CASE Kind(call[c]) = "discharge"
      <4>1. DischargeFits(call[c]) /\ call[c].pc = "measure"
        BY <2>1, <2>2, <3>1 DEF CallFits
      <4>2. Settled(Act(call[c]))' <=> Settled(Act(call[c]))
        BY <2>1, <2>2, <2>7 DEF Settled
      <4>3. QED
        BY <2>1, <2>2, <2>5, <2>6, <2>7, <4>1, <4>2 DEF DischargeFits, Cands, Maps
    <3>2. CASE Kind(call[c]) # "discharge"
      BY <2>7, <3>2 DEF DischargeFits
    <3>3. QED
      BY <3>1, <3>2
  <2>10. ReconcileFits(call[c])'
    BY <2>5, <2>6 DEF ReconcileFits
  <2>11. CallFits(call[c])'
    BY <2>1, <2>2, <2>5, <2>6, <2>8, <2>9, <2>10 DEF CallFits, StageFits, LandFits, StageRuns, LandRuns
  <2>12. ~LandRuns(k) /\ ~StageRuns(k)
    BY <2>5 DEF LandRuns, StageRuns
  <2>13. QED
    BY <2>1, <2>5, <2>11, <2>12, CallStep
<1> QED
  BY <1>1, <1>2

LEMMA ReconcileCleanStep == ASSUME Inv, NEW c \in Slots, ReconcileClean(c) PROVE Inv'
<1>1. CASE Refuse(c)
  BY <1>1, RefuseStep
<1>2. CASE ~Refuse(c)
  <2>1. /\ Kind(call[c]) = "reconcile" /\ call[c].pc = "begin" /\ Go(c, "clean", "none")
        /\ UNCHANGED <<target, orig, row, disp, hist, dir, journal, reqs>>
    BY <1>2 DEF ReconcileClean, At, Kind, diskVars, ledgerVars
  <2>2. /\ call'[c].pc = "clean" /\ call'[c].req = call[c].req /\ Kind(call[c])' = "reconcile"
        /\ call[c].req \in DOMAIN reqs
    BY <2>1, GoFacts, Running, Wording
  <2>3. CallFits(call[c])'
    BY <2>1, <2>2
    DEF CallFits, StageFits, LandFits, ReconcileFits, DischargeFits, SettleFits, StageRuns, LandRuns
  <2>4. QED
    BY <2>1, <2>3, GoStep, Wording
<1> QED
  BY <1>1, <1>2

\* The target is written only over the admitted original, behind a complete
\* backup of it, by the only call that may.
LEMMA LandApplyStep == ASSUME Inv, NEW c \in Slots, LandApply(c) PROVE Inv'
<1> PICK a : a = A(c)
  OBVIOUS
<1>1. PICK pc \in {"final", "observe"}, f \in {"full", "bad"} :
        /\ Kind(call[c]) = "land" /\ call[c].pc = "apply" /\ Go(c, pc, "unknown")
        /\ dir' = [dir EXCEPT ![a].backup = f]
        /\ UNCHANGED <<orig, row, disp, hist, journal, reqs>>
        /\ \/ f = "bad" /\ target' = target
           \/ /\ f = "full"
              /\ \E S \in SUBSET Paths : target' = [p \in Paths |-> IF p \in S THEN a ELSE target[p]]
  BY DEF LandApply, BackupProves, At, Kind, ledgerVars
<1>2. /\ a \in Actions /\ dir[a] \in Dirs /\ RowFits(a) /\ DiskFits(a) /\ a = Act(call[c])
      /\ call[c].req \in DOMAIN reqs /\ LandFits(call[c]) /\ LandRuns(call[c]) /\ call[c].pc # "idle"
  BY <1>1, Running DEF CallFits, LandRuns
<1>3. ~Holds(a) /\ ~Over(a) /\ ~Settled(a) /\ dir[a]["backup"] = "none" /\ row[a].plan /\ row[a].state # "none"
  <2>1. ~Holds(a) /\ ~Over(a)
    BY <1>1, <1>2 DEF LandFits, Over
  <2>2. row[a].plan
    BY <1>2, LandPlanned
  <2>3. QED
    BY <1>2, <2>1, <2>2 DEF RowFits
<1> DEFINE e == [dir[a] EXCEPT !.backup = f]
<1>4. dir' = [dir EXCEPT ![a] = e]
  BY <1>1 DEF Inv, TypeOK
<1>5. e \in Dirs /\ e["stage"] = dir[a]["stage"] /\ e["backup"] = f
  BY <1>1, <1>2 DEF Dirs, Res
<1> HIDE DEF e
<1>6. dir' \in [Actions -> Dirs] /\ dir'[a] = e /\ \A x \in Actions \ {a} : dir'[x] = dir[x]
  BY <1>2, <1>4, <1>5 DEF Inv, TypeOK
<1>7. PICK k \in ToolCalls : /\ call' = [call EXCEPT ![c] = k] /\ k.pc = pc /\ k.req = call[c].req
  <2>1. pc \in Words /\ "unknown" \in Words
    BY Wording
  <2>2. QED
    BY <1>1, <1>2, <2>1, GoFacts
<1>8. call' \in [Slots -> ToolCalls] /\ call'[c] = k /\ \A d \in Slots \ {c} : call'[d] = call[d]
  BY <1>7 DEF Inv, TypeOK
<1>9. Kind(call[c])' = "land" /\ Act(call[c])' = a
  BY <1>1, <1>2, <1>7, <1>8 DEF Kind, Act
<1>10. /\ target' \in Maps
       /\ \A p \in Paths : target'[p] \in {target[p], a}
       /\ target' = target \/ e["backup"] = "full"
  BY <1>1, <1>2, <1>5 DEF Inv, TypeOK, Maps
<1>11. \A x \in Actions \ {a} : Holds(x)' => Holds(x)
  BY <1>1, <1>10 DEF Holds
<1>12. Holds(a)' => e["backup"] = "full"
  BY <1>1, <1>3, <1>10 DEF Holds
<1>13. \A x \in DOMAIN reqs : Planned(x)' <=> Planned(x)
  BY <1>1 DEF Planned
<1>14. \A x \in Actions : Over(x) \/ x = a => Over(x)'
  <2> SUFFICES ASSUME NEW x \in Actions, Over(x) \/ x = a PROVE Over(x)'
    OBVIOUS
  <2>1. row'[x].plan
    BY <1>1, <1>3 DEF Over
  <2>2. \A d \in Slots : call'[d].pc \in {"work", "apply"} /\ Kind(call[d])' = "land" => Act(call[d])' # x
    <3> SUFFICES ASSUME NEW d \in Slots, call'[d].pc \in {"work", "apply"}, Kind(call[d])' = "land"
                 PROVE  Act(call[d])' # x
      OBVIOUS
    <3>1. d # c /\ call'[d] = call[d]
      BY <1>7, <1>8
    <3>2. LandRuns(call[d]) /\ Act(call[d])' = Act(call[d])
      BY <1>1, <3>1 DEF LandRuns, Kind, Act
    <3>3. CASE x = a
      BY <1>2, <3>1, <3>2, <3>3, OneLands
    <3>4. CASE Over(x)
      BY <1>1, <3>1, <3>2, <3>4 DEF Over, LandRuns
    <3>5. QED
      BY <3>3, <3>4
  <2>3. \A y \in DOMAIN reqs' : Planned(y)' /\ reqs'[y].act = x => <<y, "issue">> \in journal'
    <3>1. CASE x = a
      BY <1>1, <1>2, <1>13, <3>1, LandPlanned
    <3>2. CASE Over(x)
      BY <1>1, <1>13, <3>2 DEF Over
    <3>3. QED
      BY <3>1, <3>2
  <2>4. QED
    BY <2>1, <2>2, <2>3 DEF Over
<1>15. \A x \in Actions : Settled(x)' <=> Settled(x)
  BY <1>1 DEF Settled
<1>16. \A d \in Slots : CallFits(call[d])'
  <2>1. CallFits(call[c])'
    BY <1>1, <1>2, <1>7, <1>8, <1>9
    DEF CallFits, StageFits, LandFits, ReconcileFits, DischargeFits, SettleFits, StageRuns, LandRuns
  <2> SUFFICES ASSUME NEW d \in Slots, d # c PROVE CallFits(call[d])'
    BY <2>1
  <2>2. call'[d] = call[d] /\ CallFits(call[d])
    BY <1>8 DEF Inv
  <2>3. call[d].pc # "idle" => Act(call[d]) \in Actions
    BY Running
  <2>4. StageRuns(call[d]) => ~row'[Act(call[d])].stageDir
    BY <1>1, <2>2 DEF CallFits, StageFits, StageRuns
  <2>5. (call[d].pc = "apply" \/ (Kind(call[d]) = "reconcile" /\ call[d].pc = "observe" /\ call[d].out = "original"))
          => Act(call[d]) # a /\ Act(call[d]) \in Actions
    <3>1. CASE call[d].pc = "apply"
      <4>1. LandRuns(call[d])
        BY <2>2, <3>1 DEF CallFits, LandFits, LandRuns
      <4>2. QED
        BY <1>2, <2>3, <3>1, <4>1, OneLands
    <3>2. CASE Kind(call[d]) = "reconcile" /\ call[d].pc = "observe" /\ call[d].out = "original"
      BY <1>3, <2>2, <2>3, <3>2 DEF CallFits, ReconcileFits
    <3>3. QED
      BY <3>1, <3>2
  <2>6. Act(call[d])' = Act(call[d])
    BY <1>1, <2>2 DEF Act
  <2>7. (call[d].pc = "apply" \/ (Kind(call[d]) = "reconcile" /\ call[d].pc = "observe" /\ call[d].out = "original"))
          /\ Holds(Act(call[d]))' => Holds(Act(call[d]))
    BY <1>11, <2>5, <2>6 DEF Holds
  <2>8. \A r \in Res : call[d].pc = "settle" /\ dir[Act(call[d])][r] = "gone" => dir'[Act(call[d])][r] = "gone"
    <3>1. CASE Act(call[d]) # a
      BY <1>6, <2>3, <3>1
    <3>2. CASE Act(call[d]) = a
      BY <1>3, <1>5, <1>6, <3>2 DEF Res
    <3>3. QED
      BY <3>1, <3>2
  <2>9. QED
    BY <1>1, <1>14, <1>15, <2>2, <2>3, <2>4, <2>7, <2>8, KeepsFitting
<1>17. \A x \in Actions : RowFits(x)' /\ DiskFits(x)'
  <2>1. RowFits(a)'
    BY <1>1, <1>2, <1>3, <1>14, <1>15 DEF RowFits, Cands, Maps
  <2>2. DiskFits(a)'
    <3>1. hist'[a].proof # "original"
      BY <1>1, <1>3 DEF Settled
    <3>2. \A r \in Res : disp'[a][r] = "released" => dir'[a][r] = "gone"
      BY <1>1, <1>2, <1>3, <1>5, <1>6 DEF DiskFits, Res
    <3>3. QED
      BY <1>1, <1>2, <1>5, <1>6, <1>12, <3>1, <3>2 DEF DiskFits
  <2> SUFFICES ASSUME NEW x \in Actions, x # a PROVE RowFits(x)' /\ DiskFits(x)'
    BY <2>1, <2>2
  <2>3. RowFits(x) /\ DiskFits(x) /\ dir'[x] = dir[x]
    BY <1>6 DEF Inv
  <2>4. row[x].state = "none" => /\ \A p \in Paths : target'[p] # x
                                 /\ \A q \in DOMAIN reqs' : reqs'[q].act = x => reqs'[q].kind = "stage"
    BY <1>1, <1>10, <2>3 DEF RowFits
  <2>5. QED
    BY <1>1, <1>11, <1>14, <2>3, <2>4, KeepsAction
<1>18. TypeOK'
  BY <1>1, <1>6, <1>8, <1>10 DEF Inv, TypeOK
<1>19. PlannedOnce' /\ StagedOnce' /\ OneStage'
  BY <1>1, <1>13 DEF Inv, PlannedOnce, StagedOnce, OneStage
<1>20. OneRuns'
  <2>1. ~StageRuns(call[c])' /\ LandRuns(call[c]) /\ call'[c].req = call[c].req
    BY <1>2, <1>7, <1>8, <1>9 DEF StageRuns
  <2>2. QED
    BY <1>1, <1>8, <2>1 DEF Inv, OneRuns, LandRuns, StageRuns, Kind
<1> QED
  BY <1>16, <1>17, <1>18, <1>19, <1>20 DEF Inv

-----------------------------------------------------------------------------
(* Requests, retries and the rest of the world                               *)

\* A call that begins.
LEMMA Begins ==
    ASSUME NEW q \in Nat
    PROVE  /\ [Idle EXCEPT !.req = q, !.pc = "begin"] \in ToolCalls
           /\ [Idle EXCEPT !.req = q, !.pc = "begin"].pc = "begin"
           /\ [Idle EXCEPT !.req = q, !.pc = "begin"].req = q
<1>1. "begin" \in Words /\ "idle" \in Words /\ "none" \in Words
  BY Wording
<1> QED
  BY <1>1 DEF Idle, ToolCalls

LEMMA RetryStep == ASSUME Inv, NEW c \in Slots, NEW q \in DOMAIN reqs, Retry(c, q) PROVE Inv'
<1> DEFINE k == [Idle EXCEPT !.req = q, !.pc = "begin"]
<1>1. call' = [call EXCEPT ![c] = k] /\ UNCHANGED <<target, orig, row, disp, hist, dir, journal, reqs>>
  BY DEF Retry, Started, diskVars, ledgerVars
<1>2. q \in Nat
  BY Requested
<1>3. k \in ToolCalls /\ k.pc = "begin" /\ k.req = q
  BY <1>2, Begins
<1> HIDE DEF k
<1>4. call'[c] = k
  BY <1>1 DEF Inv, TypeOK
<1>5. CallFits(call[c])'
  BY <1>1, <1>3, <1>4
  DEF CallFits, StageFits, LandFits, ReconcileFits, DischargeFits, SettleFits, StageRuns, LandRuns
<1>6. ~LandRuns(k) /\ ~StageRuns(k)
  BY <1>3 DEF LandRuns, StageRuns
<1> QED
  BY <1>1, <1>3, <1>5, <1>6, CallStep

\* Only the first request of an action may stage it.
LEMMA CallingStep ==
    ASSUME Inv, NEW c \in Slots, NEW kind \in Kinds, NEW a \in Actions, Call(c, kind, a)
    PROVE  Inv'
<1> PICK n : n = Len(reqs) + 1
  OBVIOUS
<1> DEFINE k == [Idle EXCEPT !.req = n, !.pc = "begin"]
           m == [kind |-> kind, act |-> a]
<1>1. /\ call[c] = Idle /\ reqs' = Append(reqs, m)
      /\ UNCHANGED <<target, orig, row, disp, hist, dir, journal>>
      /\ kind = "stage" => row[a].state = "none" /\ \A q \in DOMAIN reqs : reqs[q].act # a
      /\ kind # "stage" => row[a].state # "none"
  BY DEF Call, diskVars, ledgerVars
<1>2. m \in Requests /\ m.kind = kind /\ m.act = a
  BY DEF Requests
<1> HIDE DEF m
<1>3. /\ reqs \in Seq(Requests) /\ Len(reqs) \in Nat /\ DOMAIN reqs = 1..Len(reqs) /\ n \in Nat
      /\ \A q \in DOMAIN reqs : reqs[q] \in Requests
  BY Requested DEF Inv, TypeOK
<1>4. /\ reqs' \in Seq(Requests) /\ Len(reqs') = n /\ DOMAIN reqs' = 1..n /\ reqs'[n] = m
      /\ \A q \in DOMAIN reqs : reqs'[q] = reqs[q]
  BY <1>1, <1>2, <1>3, AppendProperties
<1>5. DOMAIN reqs' = DOMAIN reqs \cup {n} /\ n \notin DOMAIN reqs
  BY <1>3, <1>4
<1>6. call' = [call EXCEPT ![c] = k]
  BY <1>4 DEF Call, Started
<1>7. k \in ToolCalls /\ k.pc = "begin" /\ k.req = n
  BY <1>3, Begins
<1> HIDE DEF k
<1>8. call'[c] = k /\ call' \in [Slots -> ToolCalls] /\ \A d \in Slots \ {c} : call'[d] = call[d]
  BY <1>6, <1>7 DEF Inv, TypeOK
<1>9. \A q \in DOMAIN reqs' : Planned(q)' <=> q \in DOMAIN reqs /\ Planned(q)
  BY <1>1, <1>4, <1>5 DEF Planned, Inv, TypeOK
<1>10. \A d \in Slots : call[d].pc # "idle" => call[d].req \in DOMAIN reqs
  BY Running
<1>11. ~LandRuns(call[c])' /\ ~StageRuns(call[c])'
  BY <1>7, <1>8 DEF LandRuns, StageRuns
<1>12. \A d \in Slots \ {c} : call[d].pc # "idle"
         => Kind(call[d])' = Kind(call[d]) /\ Act(call[d])' = Act(call[d])
  BY <1>4, <1>8, <1>10 DEF Kind, Act
<1>13. \A x \in Actions : Over(x) => Over(x)'
  <2> SUFFICES ASSUME NEW x \in Actions, Over(x) PROVE Over(x)'
    OBVIOUS
  <2>1. row'[x].plan
    BY <1>1 DEF Over
  <2>2. \A d \in Slots : call'[d].pc \in {"work", "apply"} /\ Kind(call[d])' = "land" => Act(call[d])' # x
    BY <1>7, <1>8, <1>12 DEF Over
  <2>3. \A y \in DOMAIN reqs' : Planned(y)' /\ reqs'[y].act = x => <<y, "issue">> \in journal'
    BY <1>1, <1>4, <1>9 DEF Over
  <2>4. QED
    BY <2>1, <2>2, <2>3 DEF Over
<1>14. \A x \in Actions : (Settled(x)' <=> Settled(x)) /\ (Holds(x)' <=> Holds(x))
  BY <1>1 DEF Settled, Holds
<1>15. \A d \in Slots : CallFits(call[d])'
  <2>1. CallFits(call[c])'
    BY <1>5, <1>7, <1>8
    DEF CallFits, StageFits, LandFits, ReconcileFits, DischargeFits, SettleFits, StageRuns, LandRuns
  <2> SUFFICES ASSUME NEW d \in Slots, d # c PROVE CallFits(call[d])'
    BY <2>1
  <2>2. call'[d] = call[d] /\ CallFits(call[d])
    BY <1>8 DEF Inv
  <2>3. call[d].pc # "idle" => Act(call[d]) \in Actions
    BY Running
  <2>4. StageRuns(call[d]) => ~row'[Act(call[d])].stageDir
    BY <1>1, <2>2 DEF CallFits, StageFits, StageRuns
  <2>5. call[d].pc # "idle" => (Holds(Act(call[d]))' => Holds(Act(call[d])))
    BY <1>1, <1>12 DEF Holds
  <2>6. (call[d].pc = "apply" \/ (Kind(call[d]) = "reconcile" /\ call[d].pc = "observe" /\ call[d].out = "original"))
             /\ Holds(Act(call[d]))' => Holds(Act(call[d]))
    BY <2>5
  <2>7. \A q \in DOMAIN reqs : q \in DOMAIN reqs' /\ reqs'[q] = reqs[q]
    BY <1>4, <1>5
  <2>8. QED
    BY <1>1, <1>13, <1>14, <2>2, <2>3, <2>4, <2>6, <2>7, KeepsFitting
<1>16. \A x \in Actions : RowFits(x)' /\ DiskFits(x)'
  <2> SUFFICES ASSUME NEW x \in Actions PROVE RowFits(x)' /\ DiskFits(x)'
    OBVIOUS
  <2>1. RowFits(x) /\ DiskFits(x)
    BY DEF Inv
  <2>2. row[x].state = "none" => /\ \A p \in Paths : target'[p] # x
                                 /\ \A q \in DOMAIN reqs' : reqs'[q].act = x => reqs'[q].kind = "stage"
    BY <1>1, <1>2, <1>4, <1>5, <2>1 DEF RowFits
  <2>3. QED
    BY <1>1, <1>13, <1>14, <2>1, <2>2, KeepsAction
<1>17. TypeOK'
  <2>1. \A j \in journal' : j[1] \in DOMAIN reqs'
    BY <1>1, <1>5 DEF Inv, TypeOK
  <2>2. QED
    BY <1>1, <1>4, <1>8, <2>1 DEF Inv, TypeOK
<1>18. PlannedOnce'
  BY <1>1, <1>4, <1>9 DEF Inv, PlannedOnce
<1>19. OneStage'
  BY <1>1, <1>2, <1>4, <1>5 DEF Inv, OneStage
<1>20. StagedOnce'
  BY <1>1, <1>2, <1>4, <1>5 DEF Inv, StagedOnce
<1>21. OneRuns'
  <2> SUFFICES ASSUME NEW d \in Slots, NEW e \in Slots, call'[d].req = call'[e].req,
                      \/ LandRuns(call[d])' /\ LandRuns(call[e])'
                      \/ StageRuns(call[d])' /\ StageRuns(call[e])'
               PROVE  d = e
    BY DEF OneRuns
  <2>1. d # c /\ e # c /\ call'[d] = call[d] /\ call'[e] = call[e]
    BY <1>8, <1>11
  <2>2. call[d].pc # "idle" /\ call[e].pc # "idle"
    BY <2>1 DEF LandRuns, StageRuns
  <2>3. \/ LandRuns(call[d]) /\ LandRuns(call[e])
        \/ StageRuns(call[d]) /\ StageRuns(call[e])
    BY <1>12, <2>1, <2>2 DEF LandRuns, StageRuns
  <2>4. QED
    BY <2>1, <2>3 DEF Inv, OneRuns
<1> QED
  BY <1>15, <1>16, <1>17, <1>18, <1>19, <1>20, <1>21 DEF Inv

-----------------------------------------------------------------------------
(* The rest of the world, and the theorems *)

\* What no call of the process does: it ends calls, writes no content of an
\* integration, and leaves the plan, the resources and the journal alone.
LEMMA WorldStep ==
    ASSUME Inv, UNCHANGED <<orig, disp, hist, dir, reqs, journal>>,
           target' \in Maps, row' \in [Actions -> Rows], call' \in [Slots -> ToolCalls],
           \A c \in Slots : call'[c] = call[c] \/ call'[c].pc = "idle",
           \A a \in Actions : \A p \in Paths : target'[p] = a => target[p] = a,
           \A a \in Actions :
               /\ row'[a].state = "none" <=> row[a].state = "none"
               /\ row'[a].plan <=> row[a].plan
               /\ row'[a].stageDir <=> row[a].stageDir
               /\ row'[a].verified <=> row[a].verified
               /\ row'[a].body = row[a].body
    PROVE  Inv'
<1>1. \A q \in DOMAIN reqs : Planned(q)' <=> Planned(q)
  BY DEF Planned
<1>2. \A d \in Slots : Kind(call[d])' = reqs[call'[d].req].kind /\ Act(call[d])' = reqs[call'[d].req].act
  BY DEF Kind, Act
<1>3. \A a \in Actions : Over(a) => Over(a)'
  <2> SUFFICES ASSUME NEW a \in Actions, Over(a) PROVE Over(a)'
    OBVIOUS
  <2>1. \A d \in Slots : call'[d].pc \in {"work", "apply"} /\ Kind(call[d])' = "land" => Act(call[d])' # a
    <3> SUFFICES ASSUME NEW d \in Slots, call'[d].pc \in {"work", "apply"}, Kind(call[d])' = "land"
                 PROVE  Act(call[d])' # a
      OBVIOUS
    <3>1. call'[d] = call[d]
      OBVIOUS
    <3>2. QED
      BY <1>2, <3>1 DEF Over, Kind, Act
  <2>2. QED
    BY <1>1, <2>1 DEF Over
<1>4. \A a \in Actions : (Settled(a)' <=> Settled(a)) /\ (Holds(a)' => Holds(a))
  BY DEF Settled, Holds
<1>5. \A d \in Slots : CallFits(call[d])'
  <2> SUFFICES ASSUME NEW d \in Slots, call'[d].pc # "idle" PROVE CallFits(call[d])'
    BY DEF CallFits
  <2>1. call'[d] = call[d] /\ CallFits(call[d])
    BY DEF Inv
  <2>2. call[d].pc # "idle" => Act(call[d]) \in Actions
    BY Running
  <2>3. StageRuns(call[d]) => ~row'[Act(call[d])].stageDir
    BY <2>1, <2>2 DEF CallFits, StageFits, StageRuns
  <2>4. Act(call[d])' = Act(call[d]) /\ (Holds(Act(call[d]))' => Holds(Act(call[d])))
    BY <1>2, <1>4, <2>1, <2>2 DEF Act
  <2>5. (call[d].pc = "apply" \/ (Kind(call[d]) = "reconcile" /\ call[d].pc = "observe" /\ call[d].out = "original"))
             /\ Holds(Act(call[d]))' => Holds(Act(call[d]))
    BY <2>4
  <2>6. \A a \in Actions : /\ row[a].state # "none" => row'[a].state # "none"
                           /\ row[a].stageDir => row'[a].stageDir
                           /\ Over(a) => Over(a)'
                           /\ Settled(a) => Settled(a)'
    BY <1>3, <1>4
  <2>7. QED
    BY <2>1, <2>2, <2>3, <2>5, <2>6, KeepsFitting
<1>6. \A a \in Actions : RowFits(a)' /\ DiskFits(a)'
  <2> SUFFICES ASSUME NEW a \in Actions PROVE RowFits(a)' /\ DiskFits(a)'
    OBVIOUS
  <2>1. RowFits(a) /\ DiskFits(a)
    BY DEF Inv
  <2>2. RowFits(a)'
    BY <1>3, <1>4, <2>1 DEF RowFits, Cands, Maps
  <2>3. DiskFits(a)'
    BY <1>4, <2>1 DEF DiskFits
  <2>4. QED
    BY <2>2, <2>3
<1>7. TypeOK'
  BY DEF Inv, TypeOK
<1>8. \A q \in DOMAIN reqs : reqs[q].act \in Actions
  BY Requested DEF Requests
<1>9. PlannedOnce'
  BY <1>1, <1>8 DEF Inv, PlannedOnce
<1>10. StagedOnce' /\ OneStage'
  BY <1>8 DEF Inv, StagedOnce, OneStage
<1>11. OneRuns'
  <2> SUFFICES ASSUME NEW d \in Slots, NEW e \in Slots, call'[d].req = call'[e].req,
                      \/ LandRuns(call[d])' /\ LandRuns(call[e])'
                      \/ StageRuns(call[d])' /\ StageRuns(call[e])'
               PROVE  d = e
    BY DEF OneRuns
  <2>1. call'[d] = call[d] /\ call'[e] = call[e]
    BY DEF LandRuns, StageRuns
  <2>2. \/ LandRuns(call[d]) /\ LandRuns(call[e])
        \/ StageRuns(call[d]) /\ StageRuns(call[e])
    BY <1>2, <2>1 DEF LandRuns, StageRuns, Kind
  <2>3. QED
    BY <2>1, <2>2 DEF Inv, OneRuns
<1> QED
  BY <1>5, <1>6, <1>7, <1>9, <1>10, <1>11 DEF Inv

LEMMA StutterStep == ASSUME Inv, UNCHANGED <<target, orig, row, disp, hist, dir, reqs, journal, call>> PROVE Inv'
<1>1. TypeOK
  BY DEF Inv
<1> QED
  BY <1>1, WorldStep DEF TypeOK

LEMMA IdleCall == Idle \in ToolCalls /\ Idle.pc = "idle"
BY Wording DEF Idle, ToolCalls

\* A restart forgets every call and nothing else.
LEMMA CrashStep == ASSUME Inv, Crash PROVE Inv'
<1>1. /\ UNCHANGED <<target, orig, row, disp, hist, dir, reqs, journal>>
      /\ call' = [c \in Slots |-> Idle]
  BY DEF Crash, diskVars, ledgerVars
<1>2. call' \in [Slots -> ToolCalls] /\ \A c \in Slots : call'[c].pc = "idle"
  BY <1>1, IdleCall
<1>3. TypeOK
  BY DEF Inv
<1> QED
  BY <1>1, <1>2, <1>3, WorldStep DEF TypeOK

LEMMA MarkUncertainStep == ASSUME Inv, NEW a \in Actions, MarkUncertain(a) PROVE Inv'
<1> DEFINE e == [row[a] EXCEPT !.state = "uncertain",
                               !.receipt = Receipt("reconciled", "none", "uncertain", "none")]
<1>1. /\ UNCHANGED <<target, orig, disp, hist, dir, reqs, journal, call>>
      /\ row[a].state # "none" /\ row' = [row EXCEPT ![a] = e]
  BY DEF MarkUncertain, Observable, diskVars, Inv, TypeOK
<1>2. row[a] \in Rows /\ row \in [Actions -> Rows] /\ TypeOK
  BY DEF Inv, TypeOK
<1>3. Receipt("reconciled", "none", "uncertain", "none") \in Receipts
  BY Wording DEF Receipt, Receipts
<1>4. /\ e \in Rows /\ e.state = "uncertain" /\ e.body = row[a].body
      /\ e.plan = row[a].plan /\ e.stageDir = row[a].stageDir /\ e.verified = row[a].verified
  BY <1>2, <1>3, Wording DEF Rows
<1> HIDE DEF e
<1>5. row' \in [Actions -> Rows] /\ row'[a] = e /\ \A x \in Actions \ {a} : row'[x] = row[x]
  BY <1>1, <1>2, <1>4
<1> QED
  BY <1>1, <1>2, <1>4, <1>5, WorldStep DEF TypeOK

\* Somebody else's edit writes no content of an integration.
LEMMA EditTargetStep == ASSUME Inv, EditTarget PROVE Inv'
<1>1. PICK p \in Paths, v \in {"base", "other"} : target' = [target EXCEPT ![p] = v]
  BY DEF EditTarget
<1>2. UNCHANGED <<orig, row, disp, hist, dir, reqs, journal, call>>
  BY DEF EditTarget, ledgerVars
<1>3. TypeOK
  BY DEF Inv
<1>4. target' \in Maps
  BY <1>1, <1>3 DEF TypeOK, Maps
<1>5. \A a \in Actions : \A q \in Paths : target'[q] = a => target[q] = a
  BY <1>1, <1>3, IntegrateAssumption DEF TypeOK, Maps
<1> QED
  BY <1>2, <1>3, <1>4, <1>5, WorldStep DEF TypeOK

LEMMA WorldNextStep == ASSUME Inv, WorldNext PROVE Inv'
<1>1. ASSUME NEW a \in Actions, MarkUncertain(a) PROVE Inv'
  BY <1>1, MarkUncertainStep
<1>2. ASSUME NEW a \in Actions, EditSource(a) PROVE Inv'
  BY <1>2, StutterStep DEF EditSource, ledgerVars
<1>3. CASE OtherCommit
  BY <1>3, StutterStep DEF OtherCommit, diskVars
<1> QED
  BY <1>1, <1>2, <1>3, EditTargetStep, CrashStep DEF WorldNext

LEMMA InitInv == ASSUME Init PROVE Inv
<1>1. /\ target = Base /\ orig = [a \in Actions |-> Base] /\ row = [a \in Actions |-> NoRow]
      /\ disp = [a \in Actions |-> [r \in Res |-> "none"]] /\ hist = [a \in Actions |-> NoHist]
      /\ dir = [a \in Actions |-> [r \in Res |-> "none"]]
      /\ reqs = <<>> /\ journal = {} /\ call = [c \in Slots |-> Idle]
  BY DEF Init
<1>2. Base \in Maps
  BY DEF Base, Maps
<1>3. NoBody \in Bodies /\ NoReceipt \in Receipts
  BY Wording DEF NoBody, Bodies, NoReceipt, Receipts
<1>4. NoRow \in Rows
  BY <1>3, Wording DEF NoRow, Rows
<1>5. NoHist \in Hists
  BY Wording DEF NoHist, Hists
<1>6. [r \in Res |-> "none"] \in Dirs /\ [r \in Res |-> "none"] \in [Res -> Words]
  BY Wording DEF Dirs
<1>7. TypeOK
  BY <1>1, <1>2, <1>4, <1>5, <1>6, IdleCall DEF TypeOK
<1>8. DOMAIN reqs = {}
  BY <1>1
<1>9. PlannedOnce /\ StagedOnce /\ OneStage
  BY <1>8 DEF PlannedOnce, StagedOnce, OneStage
<1>10. \A c \in Slots : call[c].pc = "idle"
  BY <1>1, IdleCall
<1>11. OneRuns /\ \A c \in Slots : CallFits(call[c])
  BY <1>10 DEF OneRuns, LandRuns, StageRuns, CallFits
<1>12. ASSUME NEW a \in Actions PROVE RowFits(a) /\ DiskFits(a)
  <2>1. /\ row[a] = NoRow /\ hist[a] = NoHist
        /\ \A r \in Res : dir[a][r] = "none" /\ disp[a][r] = "none"
    BY <1>1
  <2>2. "stage" \in Res /\ "backup" \in Res
    BY DEF Res
  <2>3. \A p \in Paths : target[p] # a
    BY <1>1, IntegrateAssumption DEF Base
  <2>4. RowFits(a)
    BY <1>8, <2>1, <2>2, <2>3 DEF RowFits, NoRow, NoHist, NoBody, Settled
  <2>5. DiskFits(a)
    BY <2>1, <2>2, <2>3 DEF DiskFits, Holds
  <2>6. QED
    BY <2>4, <2>5
<1> QED
  BY <1>7, <1>9, <1>11, <1>12 DEF Inv

LEMMA CallsStep ==
    ASSUME Inv, NEW c \in Slots,
           StageNext(c) \/ CheckNext(c) \/ LandNext(c) \/ ReconcileNext(c) \/ DischargeNext(c) \/ Issue(c)
    PROVE  Inv'
<1>1. CASE StageNext(c)
  <2>1. ASSUME NEW kind \in StageKinds, NEW base, StageAdmit(c, kind, base) PROVE Inv'
    BY <2>1, StageAdmitStep
  <2>2. QED
    BY <1>1, <2>1, StageBeginStep, StageWorkStep, StageObserveStep DEF StageNext
<1>2. CASE CheckNext(c)
  BY <1>2, CheckBeginStep, CheckIntentStep, CheckWorkStep, CheckObserveStep DEF CheckNext
<1>3. CASE LandNext(c)
  BY <1>3, LandBeginStep, LandPlanStep, LandIntentStep, LandWorkStep, LandApplyStep, LandFinalStep,
     LandObserveStep DEF LandNext
<1>4. CASE ReconcileNext(c)
  BY <1>4, ReconcileBeginStep, ReconcileMeasureStep, ReconcileObserveStep DEF ReconcileNext
<1>5. CASE DischargeNext(c)
  BY <1>5, DischargeBeginStep, DischargeIntentStep, PreflightStep, VerifyWorkStep, RemoveWorkStep,
     CleanMeasureStep, CleanSettleStep, ReconcileCleanStep DEF DischargeNext
<1> QED
  BY <1>1, <1>2, <1>3, <1>4, <1>5, IssueStep

LEMMA NextStep == ASSUME Inv, [Next]_vars PROVE Inv'
<1>1. CASE UNCHANGED vars
  BY <1>1, StutterStep DEF vars, diskVars, ledgerVars
<1>2. ASSUME NEW c \in Slots, NEW q \in DOMAIN reqs, Retry(c, q) PROVE Inv'
  BY <1>2, RetryStep
<1>3. ASSUME NEW c \in Slots, NEW k \in Kinds, NEW a \in Actions, Call(c, k, a) PROVE Inv'
  BY <1>3, CallingStep
<1> QED
  BY <1>1, <1>2, <1>3, CallsStep, WorldNextStep DEF Next, Kinds

\* At every step of the public integration calls, their observations and
\* cleanups, of a restart and of somebody else's edits, what the ledger says
\* of an action, what is on disk and what a running call relies on fit:
\* only one landing of an action is ever planned and its request applies it
\* once, a settled landing has no apply left to come, and a removal runs only
\* on resources the verified account named.
THEOREM IntegrationFits == Spec => []Inv
<1>1. Init => Inv
  BY InitInv
<1>2. Inv /\ [Next]_vars => Inv'
  BY NextStep
<1> QED
  BY <1>1, <1>2, PTL DEF Spec

\* applyPreparedLanding writes the target only over a backup it has proved, and
\* no removal takes that backup before the landing is settled: whatever the
\* target holds of an integration, its original can be put back until the
\* landing is proved fully applied.
THEOREM OriginalsRecoverable == Spec => []RecoverableTarget
<1>1. ASSUME Inv PROVE RecoverableTarget
  BY <1>1 DEF Inv, DiskFits, Holds, RecoverableTarget
<1> QED
  BY <1>1, IntegrationFits, PTL

\* A target counts as free only when the cleanup is complete, and a resource
\* is released only by an observation that found nothing of it on disk.
THEOREM FreedIsClean == Spec => []FreedMeansClean
<1>1. ASSUME Inv, NEW a \in Actions, row[a].state # "none", ~Reserved(a)
      PROVE  dir[a].stage = "gone" /\ dir[a].backup \in {"none", "gone"}
  <2>1. RowFits(a) /\ DiskFits(a) /\ "stage" \in Res /\ "backup" \in Res
    BY <1>1 DEF Inv, Res
  <2>2. \A q \in Owed(a) : disp[a][q] = "released"
    BY <1>1 DEF Reserved, DischargeComplete
  <2>3. "stage" \in Owed(a) /\ (row[a].plan => "backup" \in Owed(a))
    BY <2>1 DEF Owed
  <2>4. dir[a]["stage"] = "gone" /\ (row[a].plan => dir[a]["backup"] = "gone")
    BY <2>1, <2>2, <2>3 DEF DiskFits
  <2>5. ~row[a].plan => dir[a]["backup"] = "none"
    BY <2>1 DEF RowFits, Over
  <2>6. QED
    BY <2>4, <2>5
<1>2. ASSUME Inv PROVE FreedMeansClean
  BY <1>1, <1>2 DEF FreedMeansClean
<1> QED
  BY <1>2, IntegrationFits, PTL

\* A landing is settled by its own observation or by a reconcile, and neither
\* happens while a call that is still to apply it runs: what is settled is
\* not written again.
THEOREM SettledForGood == Spec => SettledStaysSettled
<1>1. ASSUME Inv, NEW c \in Slots, LandApply(c), Settled(A(c)) PROVE UNCHANGED target
  <2>1. call[c].pc = "apply" /\ Kind(call[c]) = "land"
    BY <1>1 DEF LandApply, At, Kind
  <2>2. A(c) = Act(call[c]) /\ RowFits(A(c))
    BY <1>1, <2>1, Running
  <2>3. Over(A(c))
    BY <1>1, <2>2 DEF RowFits
  <2>4. QED
    BY <2>1, <2>2, <2>3 DEF Over
<1>2. ASSUME Inv, [Next]_vars
      PROVE  [\A c \in Slots : LandApply(c) /\ Settled(A(c)) => UNCHANGED target]_vars
  BY <1>1, <1>2
<1> QED
  BY <1>2, IntegrationFits, PTL DEF Spec, SettledStaysSettled

==============================================================================
