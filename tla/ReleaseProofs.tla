---------------------------- MODULE ReleaseProofs ----------------------------
(***************************************************************************)
(* Proofs about module Release, which composes Custody, Scope, Rollout and *)
(* Settlement: for any number of agents, scopes, checks, rollouts,         *)
(* transcripts and requests, and any bounds.                               *)
(*                                                                         *)
(* The ledger only grows.  A row is shown to fit when it is written, and   *)
(* to fit still when anything else has been written since; what the loader *)
(* demands of the whole follows from what every row is.                    *)
(***************************************************************************)
EXTENDS Release, SequenceTheorems, FunctionTheorems, FiniteSetTheorems, WellFoundedInduction, TLAPS


-----------------------------------------------------------------------------
(* Sequences that grow, and the last of their elements of a kind. *)

\* What was in a is where it was in b.
Continues(a, b) == Len(a) <= Len(b) /\ \A i \in DOMAIN a : b[i] = a[i]

\* What is there of the operators of the modules, written without a test.
LastOf(I) == IF I = {} THEN 0 ELSE Max(I)
Submits(ms) == {i \in DOMAIN ms : ms[i].command = "submit-for-review"}
Ends(ms) == {i \in DOMAIN ms : ms[i].to \in {"advanced", "closed"}}
Approvals(ms) == {i \in DOMAIN ms : ms[i].to = "approved"}
Canaries(ms) == {i \in DOMAIN ms : ms[i].command = "start-canary"}

\* A set of numbers that is not empty has a least one.
LEMMA LeastOne == ASSUME NEW S \in SUBSET Nat, S # {} PROVE \E x \in S : \A y \in S : x <= y
<1> DEFINE R == {ss \in Nat \X Nat : ss[1] < ss[2]}
<1>1. IsWellFoundedOn(R, Nat)
  BY NatLessThanWellFounded DEF OpToRel
<1> HIDE DEF R
<1>2. PICK x \in S : \A y \in S : ~(<<y, x>> \in R)
  BY <1>1, WFMin
<1>3. ASSUME NEW y \in S PROVE x <= y
  <2>1. <<y, x>> \notin R /\ x \in Nat /\ y \in Nat
    BY <1>2
  <2>2. ~(y < x)
    BY <2>1 DEF R
  <2>3. QED
    BY <2>1, <2>2
<1> QED
  BY <1>3

\* The least of a set is what Min chooses.
LEMMA MinIs == ASSUME NEW S \in SUBSET Nat, NEW n \in S, \A y \in S : n <= y PROVE Min(S) = n
<1>1. \A x \in S : (\A y \in S : x <= y) => x = n
  OBVIOUS
<1> QED
  BY <1>1 DEF Min

\* A bounded set of numbers has a greatest element: the least of its bounds.
LEMMA Greatest ==
    ASSUME NEW n \in Nat, NEW I \in SUBSET (0..n), I # {}
    PROVE  Max(I) \in I /\ \A j \in I : j <= Max(I)
<1> DEFINE U == {u \in Nat : \A j \in I : j <= u}
<1>1. n \in U /\ U \in SUBSET Nat
  OBVIOUS
<1>2. PICK u \in U : \A v \in U : u <= v
  BY <1>1, LeastOne
<1>3. u \in I
  <2>1. CASE u = 0
    <3>1. PICK j \in I : j <= u
      BY <1>2
    <3>2. j = 0
      BY <3>1, <2>1
    <3>3. QED
      BY <3>2, <2>1
  <2>2. CASE u # 0 /\ u \notin I
    <3>1. u - 1 \in Nat
      BY <2>2
    <3>2. u - 1 \in U
      BY <3>1, <2>2
    <3>3. QED
      BY <3>2, <1>2
  <2>3. QED
    BY <2>1, <2>2
<1>4. \A j \in I : j <= u
  OBVIOUS
<1>5. \E x \in I : \A y \in I : x >= y
  BY <1>3, <1>4
<1> HIDE DEF U
<1> QED
  BY <1>5 DEF Max

\* LastOf is the greatest of a set of places, or 0.
LEMMA LastIs ==
    ASSUME NEW n \in Nat, NEW I \in SUBSET (1..n)
    PROVE  /\ LastOf(I) \in 0..n /\ LastOf(I) \in I \cup {0}
           /\ LastOf(I) = 0 <=> I = {}
           /\ \A j \in I : j <= LastOf(I)
<1>1. CASE I = {}
  BY <1>1 DEF LastOf
<1>2. CASE I # {}
  <2>1. I \in SUBSET (0..n)
    OBVIOUS
  <2>2. Max(I) \in I /\ \A j \in I : j <= Max(I)
    BY <2>1, <1>2, Greatest
  <2>3. Max(I) \in 1..n
    BY <2>2
  <2>4. QED
    BY <2>2, <2>3, <1>2 DEF LastOf
<1> QED
  BY <1>1, <1>2

\* The places that the modules look for, with the test spelled out.
LEMMA TestsNamed ==
    ASSUME NEW ms
    PROVE  /\ LastIndex(ms, LAMBDA m : m.command = "submit-for-review") = LastOf(Submits(ms))
           /\ LastIndex(ms, LAMBDA m : m.to \in {"advanced", "closed"}) = LastOf(Ends(ms))
           /\ LastIndex(ms, LAMBDA m : m.to = "approved") = LastOf(Approvals(ms))
           /\ LastIndex(ms, LAMBDA m : m.command = "start-canary") = LastOf(Canaries(ms))
  BY DEF LastIndex, LastOf, Submits, Ends, Approvals, Canaries

\* A review round is open after a submission that no end follows.
LEMMA RoundNamed ==
    ASSUME NEW ms
    PROVE  RoundIn(ms) = IF LastOf(Submits(ms)) > LastOf(Ends(ms))
                         THEN [rev |-> ms[LastOf(Submits(ms))].rev, snap |-> ms[LastOf(Submits(ms))].snap,
                               brief |-> ms[LastOf(Submits(ms))].brief, plan |-> ms[LastOf(Submits(ms))].plan]
                         ELSE None
  BY DEF RoundIn, LastIndex, LastOf, Submits, Ends

\* A sequence read up to a place it had already is what it was.
LEMMA Beginning ==
    ASSUME NEW S, NEW a \in Seq(S), NEW b \in Seq(S), Continues(a, b), NEW i \in 0..Len(a)
    PROVE  SubSeq(b, 1, i) = SubSeq(a, 1, i)
<1>1. Len(a) \in Nat /\ Len(b) \in Nat /\ DOMAIN a = 1..Len(a) /\ DOMAIN b = 1..Len(b)
  BY LenProperties
<1>2. SubSeq(a, 1, i) = [k \in 1..i |-> a[k]] /\ SubSeq(b, 1, i) = [k \in 1..i |-> b[k]]
  BY <1>1 DEF Continues
<1>3. \A k \in 1..i : a[k] = b[k]
  BY <1>1 DEF Continues
<1> QED
  BY <1>2, <1>3

\* The first rows of a sequence are a sequence of the same rows.
LEMMA Begins ==
    ASSUME NEW S, NEW a \in Seq(S), NEW i \in 0..Len(a)
    PROVE  /\ SubSeq(a, 1, i) \in Seq(S) /\ DOMAIN SubSeq(a, 1, i) = 1..i
           /\ \A k \in 1..i : SubSeq(a, 1, i)[k] = a[k]
<1>1. Len(a) \in Nat /\ DOMAIN a = 1..Len(a)
  BY LenProperties
<1>2. SubSeq(a, 1, i) = [k \in 1..i |-> a[k]]
  BY <1>1
<1>3. \A k \in 1..i : a[k] \in S
  BY <1>1, ElementOfSeq
<1>4. [k \in 1..i |-> a[k]] \in Seq(S)
  BY <1>3, IsASeq
<1> QED
  BY <1>2, <1>4

\* What a row appended to a sequence does to it.
LEMMA Appends ==
    ASSUME NEW S, NEW a \in Seq(S), NEW e \in S
    PROVE  /\ Append(a, e) \in Seq(S) /\ Len(Append(a, e)) = Len(a) + 1
           /\ DOMAIN a = 1..Len(a) /\ Len(a) \in Nat /\ DOMAIN Append(a, e) = 1..Len(a) + 1
           /\ DOMAIN Append(a, e) \ DOMAIN a = {Len(a) + 1}
           /\ Append(a, e)[Len(a) + 1] = e /\ Last(Append(a, e)) = e
           /\ Continues(a, Append(a, e))
           /\ SubSeq(Append(a, e), 1, Len(a)) = a
<1>1. Len(a) \in Nat /\ DOMAIN a = 1..Len(a)
  BY LenProperties
<1>2. /\ Append(a, e) \in Seq(S) /\ Len(Append(a, e)) = Len(a) + 1
      /\ \A i \in 1..Len(a) : Append(a, e)[i] = a[i]
      /\ Append(a, e)[Len(a) + 1] = e
  BY AppendProperties
<1>3. DOMAIN Append(a, e) = 1..Len(a) + 1
  BY <1>1, <1>2, LenProperties
<1>4. DOMAIN Append(a, e) \ DOMAIN a = {Len(a) + 1}
  BY <1>1, <1>3
<1>5. Continues(a, Append(a, e))
  BY <1>1, <1>2 DEF Continues
<1>6. SubSeq(Append(a, e), 1, Len(a)) = SubSeq(a, 1, Len(a))
  BY <1>1, <1>2, <1>5, Beginning
<1>7. SubSeq(a, 1, Len(a)) = a
  BY SubSeqFull
<1> QED
  BY <1>1, <1>2, <1>3, <1>4, <1>5, <1>6, <1>7 DEF Last

\* A sequence that does not change continues itself.
LEMMA Stays == ASSUME NEW S, NEW a \in Seq(S) PROVE Continues(a, a)
  BY LenProperties DEF Continues

-----------------------------------------------------------------------------
(* The inductive invariant.  A row is as the loader wants it, and stays so  *)
(* because nothing it rests on is ever taken back.                         *)

GapNames == {"delivery", "rework", "resources", "sink", "export", "unverified", "decision"}
SettlementRows ==
    [by : Leads, req : SettleRequests, claim : Claims, verdict : Verdict, rev : Nat,
     status : {"completed", "partial", "blocked"}, gaps : SUBSET GapNames]
RecorderRows == [by : Leads, req : SettleRequests, claim : Claims, verdict : Verdict]
Typed ==
    /\ RolloutTypeOK
    /\ recorders \subseteq RecorderRows /\ settlements \in Seq(SettlementRows)

\* Who owns and who sits here.
OwnersFit ==
    /\ owners # <<>> /\ IsFiniteSet(seats)
    /\ OffersRead /\ LineageReads

\* A candidate is what was observed of one handback, and of no other.
HandbacksFit ==
    /\ \A m \in captures : m.handback \in DOMAIN handbacks
    /\ \A h \in DOMAIN handbacks :
         /\ handbacks[h].seat \in seats
         /\ handbacks[h].observed = "ok" => \E i \in DOMAIN candidates : candidates[i].handback = h
    /\ \A i \in DOMAIN candidates :
         /\ candidates[i].handback \in DOMAIN handbacks
         /\ handbacks[candidates[i].handback].observed = "ok"
         /\ candidates[i].seat = handbacks[candidates[i].handback].seat
         /\ \A j \in DOMAIN candidates : candidates[i].handback = candidates[j].handback => i = j

DeclarationFits(s, i) ==
    LET d == decls[s][i] IN
    /\ d.by \in Lineage
    /\ d.form.seat \in seats \cup {None}
    /\ d.form.writer # None => d.form.writer \in seats \cup {d.by}
    /\ d.form.deps \subseteq Declared \ {s}

ReviewFits(i) ==
    LET r == reviews[i] IN
    /\ r.by \in seats
    /\ Len(owners) = 1 => r.by # EffectiveOwner
    /\ r.scope \in Scopes /\ r.rev \in DOMAIN decls[r.scope]
    /\ r.lens \in Form(r.scope, r.rev).plan /\ r.plan = Form(r.scope, r.rev).plan
    /\ r.brief = decls[r.scope][r.rev].brief
    /\ r.by \notin {Form(r.scope, r.rev).seat, Form(r.scope, r.rev).writer}
    /\ CandidateOf(r.snap) # None
    /\ Form(r.scope, r.rev).seat \in {None, CandidateOf(r.snap).seat}

\* The observations D of the round that the row m submitted.
Discharged(s, m, D) ==
    /\ D \subseteq DOMAIN reviews
    /\ \A k \in D : /\ reviews[k].scope = s /\ reviews[k].rev = m.rev /\ reviews[k].snap = m.snap
                    /\ reviews[k].brief = m.brief /\ reviews[k].plan = m.plan
    /\ {reviews[k].lens : k \in D} = Form(s, m.rev).plan
    /\ Cardinality(D) = Cardinality(Form(s, m.rev).plan)

MoveFits(s, i) ==
    LET m == moves[s][i] IN
    /\ m.by \in Lineage
    /\ m.rev \in DOMAIN decls[s]
    /\ m.plan = Form(s, m.rev).plan
    /\ m.command # "task-cancel" => m.brief = decls[s][m.rev].brief
    /\ m.snap # None <=> m.command = "submit-for-review"
    /\ m.command = "submit-for-review" =>
         CandidateOf(m.snap) # None /\ Form(s, m.rev).seat \in {None, CandidateOf(m.snap).seat}
    /\ i = 1 => m.command = "declare" /\ m.from = None /\ m.to = "declared"
    /\ i # 1 => m.from = moves[s][i - 1].to /\ <<m.from, m.command, m.to>> \in Edges
    /\ m.command \in GatedCommands =>
         LET sub == LastOf(Submits(SubSeq(moves[s], 1, i))) IN
         sub \in 1..i /\ Discharged(s, moves[s][sub], m.discharged)
    /\ m.command \notin GatedCommands => m.discharged = {}

ScopesFit ==
    /\ \A s \in Scopes : decls[s] = <<>> <=> moves[s] = <<>>
    /\ \A s \in Scopes : \A i \in DOMAIN decls[s] : DeclarationFits(s, i)
    /\ \A i \in DOMAIN reviews : ReviewFits(i)
    /\ \A s \in Scopes : \A i \in DOMAIN moves[s] : MoveFits(s, i)

\* What depends on what, and what moves, by the latest declarations.
GraphFits == Acyclic({e \in Declared \X Declared : e[2] \in Latest(e[1]).deps})

DefinitionFits(q, i) == defs[q][i].by \in Lineage /\ defs[q][i].scope \in Declared

RolloutFits(r, i) ==
    LET d == rollouts[r][i] IN
    /\ d.by \in Lineage /\ d.scope \in Declared
    /\ CandidateOf(d.snap) # None
    /\ d.required \subseteq Definable(d.scope)
    /\ \A x, y \in d.required : x[1] = y[1] => x = y

RunFits(i) ==
    LET n == runs[i] IN
    /\ n.by \in Lineage
    /\ n.def \in DOMAIN defs[n.check] /\ n.rev \in DOMAIN rollouts[n.rollout]
    /\ n.snap = rollouts[n.rollout][n.rev].snap
    /\ defs[n.check][n.def].scope = rollouts[n.rollout][n.rev].scope
    /\ n.status = "passed" /\ DefinitionOf(n.check, n.def).evidence => n.evidence

\* The attempts on a candidate, which are recorded one after the other.
StreamFits(i) ==
    LET S == RetryStream(runs[i].rollout, runs[i].check, runs[i].snap) IN
    /\ \A k \in S : runs[k].def = runs[i].def
    /\ {runs[k].attempt : k \in S} = 1..Cardinality(S)
    /\ Cardinality(S) <= 1 + DefinitionOf(runs[i].check, runs[i].def).retries

RunsFit ==
    /\ \A i \in DOMAIN runs : RunFits(i)
    /\ \A i, k \in DOMAIN runs : runs[k].by = runs[i].by /\ runs[k].req = runs[i].req => k = i
    /\ \A i \in DOMAIN runs : StreamFits(i)

RolloutMoveFits(r, i) ==
    LET m == rmoves[r][i] IN
    /\ m.by \in Lineage /\ m.rev \in DOMAIN rollouts[r]
    /\ i = 1 => m.command = "declare" /\ m.from = None /\ m.to = "declared"
    /\ i # 1 => m.from = rmoves[r][i - 1].to /\ <<m.from, m.command, m.to>> \in RolloutEdges
    /\ m.cohort # None <=> m.command = "start-canary"
    /\ m.cohort # None => /\ m.cohort.members \subseteq Lineage \cup seats
                          /\ m.cohort.assignment \in 1..StructuralRevision
    /\ m.target # None <=> m.command = "rollback"
    /\ m.target # None => CandidateOf(m.target) # None
    /\ m.command \in CheckGated => ChecksDischarged(r, m)
    /\ m.command \notin CheckGated => m.checked = {}
    /\ m.command = "promote" => ReviewsDischarged(r, m)
    /\ m.command # "promote" => m.reviewed = {}
    /\ m.command \in CohortGated =>
         LET start == LastOf(Canaries(SubSeq(rmoves[r], 1, i))) IN
         start > 0 /\ m.gate = rmoves[r][start].cohort
    /\ m.command \notin CohortGated => m.gate = None

RolloutsFit ==
    /\ \A r \in Rollouts : rollouts[r] = <<>> <=> rmoves[r] = <<>>
    /\ \A q \in Checks : \A i \in DOMAIN defs[q] : DefinitionFits(q, i)
    /\ \A r \in Rollouts : \A i \in DOMAIN rollouts[r] : RolloutFits(r, i)
    /\ \A r \in Rollouts : \A i \in DOMAIN rmoves[r] : RolloutMoveFits(r, i)
    /\ \A j \in jobs : j.at = "measured" => j.status \in {"passed", "failed"}

VerdictFits(claim, verdict) == (claim.export = None) <=> (verdict = None)

SettlementFits(i) ==
    LET r == settlements[i] IN
    /\ r.by \in Lineage /\ r.claim.seat \in seats /\ RefsResolve(r.claim)
    /\ r.rev \in 1..i
    /\ VerdictFits(r.claim, r.verdict)
    /\ r.verdict = "unavailable" => r.status # "completed" /\ "unverified" \in r.gaps
    /\ r.verdict = "verified" => "unverified" \notin r.gaps

SettlementsFit ==
    /\ \A j \in recorders : VerdictFits(j.claim, j.verdict)
    /\ \A i \in DOMAIN settlements : SettlementFits(i)
    /\ \A i, j \in DOMAIN settlements :
         \/ i = j
         \/ /\ <<settlements[i].claim.seat, settlements[i].rev>> # <<settlements[j].claim.seat, settlements[j].rev>>
            /\ <<settlements[i].by, settlements[i].req>> # <<settlements[j].by, settlements[j].req>>

ReleaseInv ==
    /\ Typed /\ OwnersFit /\ HandbacksFit
    /\ ScopesFit /\ GraphFits /\ SurfacesRead
    /\ RunsFit /\ RolloutsFit /\ SettlementsFit

-----------------------------------------------------------------------------
(* Nothing is taken back. *)

CustodyGrows ==
    /\ seats \subseteq seats' /\ offers \subseteq offers' /\ (open' => open)
    /\ Continues(owners, owners') /\ Continues(candidates, candidates')
    /\ Len(handbacks) <= Len(handbacks')
    /\ \A h \in DOMAIN handbacks : handbacks'[h].seat = handbacks[h].seat
Grown ==
    /\ CustodyGrows
    /\ \A s \in Scopes : Continues(decls[s], decls'[s]) /\ Continues(moves[s], moves'[s])
    /\ Continues(reviews, reviews') /\ Continues(runs, runs')
    /\ \A q \in Checks : Continues(defs[q], defs'[q])
    /\ \A r \in Rollouts : Continues(rollouts[r], rollouts'[r]) /\ Continues(rmoves[r], rmoves'[r])
    /\ Continues(settlements, settlements')

\* What was in a sequence is still there when it has grown.
LEMMA Kept ==
    ASSUME NEW S, NEW a \in Seq(S), NEW T, NEW b \in Seq(T), Continues(a, b)
    PROVE  /\ DOMAIN a = 1..Len(a) /\ DOMAIN b = 1..Len(b) /\ Len(a) \in Nat /\ Len(b) \in Nat
           /\ DOMAIN a \subseteq DOMAIN b
           /\ \A i \in DOMAIN a : b[i] = a[i]
           /\ a # <<>> => b # <<>>
           /\ Len(a) = Len(b) => a = b
<1>1. DOMAIN a = 1..Len(a) /\ DOMAIN b = 1..Len(b) /\ Len(a) \in Nat /\ Len(b) \in Nat
  BY LenProperties
<1>2. Len(a) <= Len(b) /\ \A i \in DOMAIN a : b[i] = a[i]
  BY DEF Continues
<1>3. a # <<>> => b # <<>>
  BY <1>1, <1>2, EmptySeq
<1>4. Len(a) = Len(b) => a = b
  BY <1>1, <1>2, SeqEqual
<1>5. DOMAIN a \subseteq DOMAIN b
  BY <1>1, <1>2
<1> QED
  BY <1>1, <1>2, <1>3, <1>4, <1>5

\* Owners, declared scopes and the first candidate of a content stay.
LEMMA LineageGrows ==
    ASSUME Typed, Typed', Grown
    PROVE  /\ Lineage \subseteq Lineage' /\ Declared \subseteq Declared'
           /\ owners # <<>> => owners' # <<>> /\ (Len(owners') = 1 => Len(owners) = 1 /\ EffectiveOwner' = EffectiveOwner)
           /\ \A c : CandidateOf(c) # None => CandidateOf(c)' # None /\ CandidateOf(c)' = CandidateOf(c)
<1>1. /\ owners \in Seq(Leads) /\ owners' \in Seq(Leads) /\ Continues(owners, owners')
      /\ candidates \in Seq(CandidateRow) /\ candidates' \in Seq(CandidateRow) /\ Continues(candidates, candidates')
      /\ \A s \in Scopes : decls[s] \in Seq(DeclarationRow) /\ decls'[s] \in Seq(DeclarationRow)
                           /\ Continues(decls[s], decls'[s])
  BY DEF Typed, RolloutTypeOK, ScopeTypeOK, CustodyTypeOK, Grown, CustodyGrows
<1>2. Lineage \subseteq Lineage'
  BY <1>1, Kept DEF Lineage
<1>3. Declared \subseteq Declared'
  BY <1>1, Kept DEF Declared
<1>4. ASSUME owners # <<>>
      PROVE  owners' # <<>> /\ (Len(owners') = 1 => Len(owners) = 1 /\ EffectiveOwner' = EffectiveOwner)
  <2>1. owners' # <<>> /\ Len(owners) \in Nat /\ Len(owners) # 0 /\ Len(owners) <= Len(owners')
    BY <1>1, <1>4, Kept, EmptySeq DEF Continues
  <2>2. ASSUME Len(owners') = 1 PROVE Len(owners) = 1 /\ owners'[1] = owners[1]
    BY <1>1, <2>1, <2>2, Kept
  <2>3. QED
    BY <2>1, <2>2 DEF EffectiveOwner
<1>5. ASSUME NEW c, CandidateOf(c) # None PROVE CandidateOf(c)' # None /\ CandidateOf(c)' = CandidateOf(c)
  <2> DEFINE I == {i \in DOMAIN candidates : candidates[i].snap = c}
             J == {i \in DOMAIN candidates' : candidates'[i].snap = c}
  <2>1. I # {} /\ CandidateOf(c) = candidates[Min(I)]
    BY <1>5 DEF CandidateOf
  <2>2. /\ I \subseteq Nat /\ J \subseteq Nat /\ I \subseteq J
        /\ \A j \in J \ I : j > Len(candidates) /\ \A i \in I : i <= Len(candidates)
    BY <1>1, Kept
  <2>3. PICK n \in I : \A i \in I : n <= i
    BY <2>1, <2>2, LeastOne
  <2>4. \A j \in J : n <= j
    BY <2>2, <2>3
  <2> HIDE DEF I, J
  <2>5. Min(I) = n /\ Min(J) = n
    <3>1. n \in J
      BY <2>2
    <3>2. QED
      BY <3>1, <2>2, <2>3, <2>4, MinIs
  <2>6. CandidateOf(c)' = candidates'[Min(J)]
    BY <2>2, <2>3 DEF CandidateOf, I, J
  <2>7. n \in DOMAIN candidates /\ candidates'[n] = candidates[n]
    BY <1>1, <2>3, Kept DEF I
  <2>8. QED
    BY <1>5, <2>1, <2>5, <2>6, <2>7
<1> QED
  BY <1>2, <1>3, <1>4, <1>5

\* A declaration stays, and still fits.
LEMMA DeclarationsStay ==
    ASSUME Typed, Typed', Grown, NEW s \in Scopes, NEW i \in DOMAIN decls[s]
    PROVE  /\ i \in DOMAIN decls'[s] /\ decls'[s][i] = decls[s][i] /\ Form(s, i)' = Form(s, i)
           /\ DeclarationFits(s, i) => DeclarationFits(s, i)'
<1>1. decls[s] \in Seq(DeclarationRow) /\ decls'[s] \in Seq(DeclarationRow) /\ Continues(decls[s], decls'[s])
  BY DEF Typed, RolloutTypeOK, ScopeTypeOK, Grown
<1>2. i \in DOMAIN decls'[s] /\ decls'[s][i] = decls[s][i]
  BY <1>1, Kept
<1>3. Lineage \subseteq Lineage' /\ Declared \subseteq Declared' /\ seats \subseteq seats'
  BY LineageGrows DEF Grown, CustodyGrows
<1>4. DeclarationFits(s, i) => DeclarationFits(s, i)'
  BY <1>2, <1>3 DEF DeclarationFits
<1> QED
  BY <1>2, <1>4 DEF Form

\* An observation stays, and still fits.
LEMMA ReviewsStay ==
    ASSUME Typed, Typed', Grown, owners # <<>>, NEW i \in DOMAIN reviews
    PROVE  /\ i \in DOMAIN reviews' /\ reviews'[i] = reviews[i]
           /\ ReviewFits(i) => ReviewFits(i)'
<1>1. reviews \in Seq(ReviewRow) /\ reviews' \in Seq(ReviewRow) /\ Continues(reviews, reviews')
  BY DEF Typed, RolloutTypeOK, ScopeTypeOK, Grown
<1>2. i \in DOMAIN reviews' /\ reviews'[i] = reviews[i]
  BY <1>1, Kept
<1>3. ASSUME ReviewFits(i) PROVE ReviewFits(i)'
  <2> PICK r : r = reviews[i]
    OBVIOUS
  <2>1. /\ r.by \in seats /\ (Len(owners) = 1 => r.by # EffectiveOwner)
        /\ r.scope \in Scopes /\ r.rev \in DOMAIN decls[r.scope]
        /\ CandidateOf(r.snap) # None
    BY <1>3 DEF ReviewFits
  <2>2. /\ r.rev \in DOMAIN decls'[r.scope] /\ decls'[r.scope][r.rev] = decls[r.scope][r.rev]
        /\ Form(r.scope, r.rev)' = Form(r.scope, r.rev)
    BY <2>1, DeclarationsStay
  <2>3. CandidateOf(r.snap)' # None /\ CandidateOf(r.snap)' = CandidateOf(r.snap)
    BY <2>1, LineageGrows
  <2>4. r.by \in seats' /\ (Len(owners') = 1 => r.by # EffectiveOwner')
    BY <2>1, LineageGrows DEF Grown, CustodyGrows
  <2>5. /\ r.lens \in Form(r.scope, r.rev).plan /\ r.plan = Form(r.scope, r.rev).plan
        /\ r.brief = decls[r.scope][r.rev].brief
        /\ r.by \notin {Form(r.scope, r.rev).seat, Form(r.scope, r.rev).writer}
        /\ Form(r.scope, r.rev).seat \in {None, CandidateOf(r.snap).seat}
    BY <1>3 DEF ReviewFits
  <2>6. r = reviews'[i]
    BY <1>2
  <2>7. QED
    BY <2>1, <2>2, <2>3, <2>4, <2>5, <2>6 DEF ReviewFits
<1> QED
  BY <1>2, <1>3

\* What discharged a round still does.
LEMMA DischargeStays ==
    ASSUME Typed, Typed', Grown, NEW s \in Scopes, NEW m, m.rev \in DOMAIN decls[s],
           NEW D, Discharged(s, m, D)
    PROVE  Discharged(s, m, D)'
<1>1. reviews \in Seq(ReviewRow) /\ reviews' \in Seq(ReviewRow) /\ Continues(reviews, reviews')
  BY DEF Typed, RolloutTypeOK, ScopeTypeOK, Grown
<1>2. DOMAIN reviews \subseteq DOMAIN reviews' /\ \A i \in DOMAIN reviews : reviews'[i] = reviews[i]
  BY <1>1, Kept
<1>3. Form(s, m.rev)' = Form(s, m.rev)
  BY DeclarationsStay
<1>4. D \subseteq DOMAIN reviews
  BY DEF Discharged
<1>5. {reviews'[k].lens : k \in D} = {reviews[k].lens : k \in D}
  BY <1>2, <1>4
<1> QED
  BY <1>2, <1>3, <1>4, <1>5 DEF Discharged

\* A move stays, and still fits: only earlier rows are looked at.
LEMMA MovesStay ==
    ASSUME Typed, Typed', Grown, NEW s \in Scopes, NEW i \in DOMAIN moves[s]
    PROVE  /\ i \in DOMAIN moves'[s] /\ moves'[s][i] = moves[s][i]
           /\ \A n \in 0..i : SubSeq(moves'[s], 1, n) = SubSeq(moves[s], 1, n)
           /\ (MoveFits(s, i) /\ \A n \in DOMAIN moves[s] : moves[s][n].rev \in DOMAIN decls[s]) => MoveFits(s, i)'
<1>1. moves[s] \in Seq(MoveRow) /\ moves'[s] \in Seq(MoveRow) /\ Continues(moves[s], moves'[s])
  BY DEF Typed, RolloutTypeOK, ScopeTypeOK, Grown
<1>2. /\ DOMAIN moves[s] = 1..Len(moves[s]) /\ Len(moves[s]) \in Nat
      /\ DOMAIN moves[s] \subseteq DOMAIN moves'[s]
      /\ \A n \in DOMAIN moves[s] : moves'[s][n] = moves[s][n]
  BY <1>1, Kept
<1>3. \A n \in 0..i : SubSeq(moves'[s], 1, n) = SubSeq(moves[s], 1, n)
  <2>1. \A n \in 0..i : n \in 0..Len(moves[s])
    BY <1>2
  <2>2. QED
    BY <1>1, <2>1, Beginning
<1>4. ASSUME MoveFits(s, i), \A n \in DOMAIN moves[s] : moves[s][n].rev \in DOMAIN decls[s]
      PROVE  MoveFits(s, i)'
  <2> PICK m : m = moves[s][i]
    OBVIOUS
  <2> PICK sub : sub = LastOf(Submits(SubSeq(moves[s], 1, i)))
    OBVIOUS
  <2>1. m = moves'[s][i]
    BY <1>2
  <2>2. /\ m.by \in Lineage /\ m.rev \in DOMAIN decls[s] /\ m.plan = Form(s, m.rev).plan
        /\ (m.command # "task-cancel" => m.brief = decls[s][m.rev].brief)
        /\ (m.snap # None <=> m.command = "submit-for-review")
        /\ (m.command = "submit-for-review" =>
              CandidateOf(m.snap) # None /\ Form(s, m.rev).seat \in {None, CandidateOf(m.snap).seat})
    BY <1>4 DEF MoveFits
  <2>3. /\ i = 1 => m.command = "declare" /\ m.from = None /\ m.to = "declared"
        /\ i # 1 => m.from = moves[s][i - 1].to /\ <<m.from, m.command, m.to>> \in Edges
        /\ m.command \in GatedCommands => sub \in 1..i /\ Discharged(s, moves[s][sub], m.discharged)
        /\ m.command \notin GatedCommands => m.discharged = {}
    BY <1>4 DEF MoveFits
  <2>4. m.by \in Lineage'
    BY <2>2, LineageGrows
  <2>5. /\ m.rev \in DOMAIN decls'[s] /\ decls'[s][m.rev] = decls[s][m.rev]
        /\ Form(s, m.rev)' = Form(s, m.rev)
    BY <2>2, DeclarationsStay
  <2>6. CandidateOf(m.snap) # None => CandidateOf(m.snap)' # None /\ CandidateOf(m.snap)' = CandidateOf(m.snap)
    BY LineageGrows
  <2>7. i # 1 => moves'[s][i - 1] = moves[s][i - 1]
    BY <1>2
  <2>8. sub = LastOf(Submits(SubSeq(moves'[s], 1, i)))
    <3>1. SubSeq(moves'[s], 1, i) = SubSeq(moves[s], 1, i)
      BY <1>2, <1>3
    <3>2. QED
      BY <3>1
  <2>9. ASSUME m.command \in GatedCommands
        PROVE  sub \in 1..i /\ Discharged(s, moves[s][sub], m.discharged)' /\ moves'[s][sub] = moves[s][sub]
    <3>1. sub \in 1..i /\ Discharged(s, moves[s][sub], m.discharged)
      BY <2>3, <2>9
    <3>2. sub \in DOMAIN moves[s]
      BY <3>1, <1>2
    <3> PICK row : row = moves[s][sub]
      OBVIOUS
    <3>3. Discharged(s, row, m.discharged)'
      BY <3>1, <3>2, <1>4, DischargeStays
    <3>4. QED
      BY <3>1, <3>2, <3>3, <1>2
  <2>10. QED
    BY <2>1, <2>2, <2>3, <2>4, <2>5, <2>6, <2>7, <2>8, <2>9 DEF MoveFits
<1> QED
  BY <1>2, <1>3, <1>4

\* A check definition stays, and still fits.
LEMMA DefinitionsStay ==
    ASSUME Typed, Typed', Grown, NEW q \in Checks, NEW i \in DOMAIN defs[q]
    PROVE  /\ i \in DOMAIN defs'[q] /\ defs'[q][i] = defs[q][i]
           /\ DefinitionOf(q, i)' = DefinitionOf(q, i)
           /\ DefinitionFits(q, i) => DefinitionFits(q, i)'
<1>1. defs[q] \in Seq(DefinitionRow) /\ defs'[q] \in Seq(DefinitionRow) /\ Continues(defs[q], defs'[q])
  BY DEF Typed, RolloutTypeOK, Grown
<1>2. i \in DOMAIN defs'[q] /\ defs'[q][i] = defs[q][i]
  BY <1>1, Kept
<1>3. Lineage \subseteq Lineage' /\ Declared \subseteq Declared'
  BY LineageGrows
<1> QED
  BY <1>2, <1>3 DEF DefinitionOf, DefinitionFits

\* A check that could be required still can.
LEMMA DefinableGrows == ASSUME Typed, Typed', Grown PROVE \A s : Definable(s) \subseteq Definable(s)'
  BY DefinitionsStay DEF Definable

\* A rollout declaration stays, and still fits.
LEMMA RolloutsStay ==
    ASSUME Typed, Typed', Grown, NEW r \in Rollouts, NEW i \in DOMAIN rollouts[r]
    PROVE  /\ i \in DOMAIN rollouts'[r] /\ rollouts'[r][i] = rollouts[r][i]
           /\ RolloutFits(r, i) => RolloutFits(r, i)'
<1>1. rollouts[r] \in Seq(RolloutRow) /\ rollouts'[r] \in Seq(RolloutRow) /\ Continues(rollouts[r], rollouts'[r])
  BY DEF Typed, RolloutTypeOK, Grown
<1>2. i \in DOMAIN rollouts'[r] /\ rollouts'[r][i] = rollouts[r][i]
  BY <1>1, Kept
<1>3. ASSUME RolloutFits(r, i) PROVE RolloutFits(r, i)'
  <2> PICK d : d = rollouts[r][i]
    OBVIOUS
  <2>1. /\ d.by \in Lineage /\ d.scope \in Declared /\ CandidateOf(d.snap) # None
        /\ d.required \subseteq Definable(d.scope)
        /\ \A x, y \in d.required : x[1] = y[1] => x = y
    BY <1>3 DEF RolloutFits
  <2>2. /\ d.by \in Lineage' /\ d.scope \in Declared' /\ CandidateOf(d.snap)' # None
        /\ d.required \subseteq Definable(d.scope)'
    BY <2>1, LineageGrows, DefinableGrows
  <2>3. d = rollouts'[r][i]
    BY <1>2
  <2>4. QED
    BY <2>1, <2>2, <2>3 DEF RolloutFits
<1> QED
  BY <1>2, <1>3

\* A run stays, and still fits.
LEMMA RunsStay ==
    ASSUME Typed, Typed', Grown, NEW i \in DOMAIN runs
    PROVE  /\ i \in DOMAIN runs' /\ runs'[i] = runs[i]
           /\ RunFits(i) => RunFits(i)'
<1>1. runs \in Seq(RunRow) /\ runs' \in Seq(RunRow) /\ Continues(runs, runs')
  BY DEF Typed, RolloutTypeOK, Grown
<1>2. i \in DOMAIN runs' /\ runs'[i] = runs[i] /\ runs[i] \in RunRow
  BY <1>1, Kept, ElementOfSeq
<1>3. ASSUME RunFits(i) PROVE RunFits(i)'
  <2> PICK n : n = runs[i]
    OBVIOUS
  <2>1. /\ n.by \in Lineage
        /\ n.def \in DOMAIN defs[n.check] /\ n.rev \in DOMAIN rollouts[n.rollout]
        /\ n.snap = rollouts[n.rollout][n.rev].snap
        /\ defs[n.check][n.def].scope = rollouts[n.rollout][n.rev].scope
        /\ n.status = "passed" /\ DefinitionOf(n.check, n.def).evidence => n.evidence
        /\ n.check \in Checks /\ n.rollout \in Rollouts
    BY <1>2, <1>3 DEF RunFits, RunRow
  <2>2. /\ n.by \in Lineage' /\ n.def \in DOMAIN defs'[n.check] /\ n.rev \in DOMAIN rollouts'[n.rollout]
        /\ rollouts'[n.rollout][n.rev] = rollouts[n.rollout][n.rev]
        /\ defs'[n.check][n.def] = defs[n.check][n.def]
        /\ DefinitionOf(n.check, n.def)' = DefinitionOf(n.check, n.def)
    BY <2>1, LineageGrows, DefinitionsStay, RolloutsStay
  <2>3. n = runs'[i]
    BY <1>2
  <2>4. QED
    BY <2>1, <2>2, <2>3 DEF RunFits
<1> QED
  BY <1>2, <1>3

\* What a round pins is what one of its rows says.
LEMMA RoundIsRow ==
    ASSUME NEW ms \in Seq(MoveRow), RoundIn(ms) # None
    PROVE  LET sub == LastOf(Submits(ms)) IN
           /\ sub \in DOMAIN ms /\ ms[sub].command = "submit-for-review"
           /\ RoundIn(ms).rev = ms[sub].rev /\ RoundIn(ms).snap = ms[sub].snap
           /\ RoundIn(ms).brief = ms[sub].brief /\ RoundIn(ms).plan = ms[sub].plan
<1>1. DOMAIN ms = 1..Len(ms) /\ Len(ms) \in Nat
  BY LenProperties
<1>2. Submits(ms) \in SUBSET (1..Len(ms)) /\ Ends(ms) \in SUBSET (1..Len(ms))
  BY <1>1 DEF Submits, Ends
<1>3. LastOf(Submits(ms)) > LastOf(Ends(ms))
  BY RoundNamed
<1>4. LastOf(Submits(ms)) \in Submits(ms)
  BY <1>1, <1>2, <1>3, LastIs
<1>5. RoundIn(ms) = [rev |-> ms[LastOf(Submits(ms))].rev, snap |-> ms[LastOf(Submits(ms))].snap,
                     brief |-> ms[LastOf(Submits(ms))].brief, plan |-> ms[LastOf(Submits(ms))].plan]
  BY <1>3, RoundNamed
<1> QED
  BY <1>4, <1>5 DEF Submits

\* A round read up to a row pins a declaration that is there.
LEMMA RoundOfPart ==
    ASSUME Typed, ScopesFit, NEW s \in Scopes, NEW i \in 0..Len(moves[s]),
           NEW pin, pin = RoundIn(SubSeq(moves[s], 1, i)), pin # None
    PROVE  LET sub == LastOf(Submits(SubSeq(moves[s], 1, i))) IN
           /\ sub \in 1..i /\ sub \in DOMAIN moves[s] /\ moves[s][sub].command = "submit-for-review"
           /\ pin.rev = moves[s][sub].rev /\ pin.snap = moves[s][sub].snap
           /\ pin.brief = moves[s][sub].brief /\ pin.plan = moves[s][sub].plan
           /\ pin.rev \in DOMAIN decls[s] /\ pin.plan = Form(s, pin.rev).plan
           /\ pin.brief = decls[s][pin.rev].brief
           /\ CandidateOf(pin.snap) # None /\ Form(s, pin.rev).seat \in {None, CandidateOf(pin.snap).seat}
<1>1. moves[s] \in Seq(MoveRow)
  BY DEF Typed, RolloutTypeOK, ScopeTypeOK
<1> PICK ms : ms = SubSeq(moves[s], 1, i)
  OBVIOUS
<1>2. ms \in Seq(MoveRow) /\ DOMAIN ms = 1..i /\ \A k \in 1..i : ms[k] = moves[s][k]
  BY <1>1, Begins
<1> PICK sub : sub = LastOf(Submits(ms))
  OBVIOUS
<1>3. /\ sub \in 1..i /\ ms[sub].command = "submit-for-review"
      /\ pin.rev = ms[sub].rev /\ pin.snap = ms[sub].snap
      /\ pin.brief = ms[sub].brief /\ pin.plan = ms[sub].plan
  BY <1>2, RoundIsRow
<1>4. sub \in DOMAIN moves[s] /\ ms[sub] = moves[s][sub]
  BY <1>1, <1>2, <1>3, LenProperties
<1>5. MoveFits(s, sub)
  BY <1>4 DEF ScopesFit
<1>6. /\ pin.rev \in DOMAIN decls[s] /\ pin.plan = Form(s, pin.rev).plan
      /\ pin.brief = decls[s][pin.rev].brief
      /\ CandidateOf(pin.snap) # None /\ Form(s, pin.rev).seat \in {None, CandidateOf(pin.snap).seat}
  BY <1>3, <1>4, <1>5 DEF MoveFits
<1> QED
  BY <1>3, <1>4, <1>6

\* A move discharges observations that are in the ledger.
LEMMA DischargedIsThere ==
    ASSUME Typed, ScopesFit, NEW s \in Scopes, NEW i \in DOMAIN moves[s]
    PROVE  moves[s][i].discharged \subseteq DOMAIN reviews
<1>1. MoveFits(s, i)
  BY DEF ScopesFit
<1> QED
  BY <1>1 DEF MoveFits, Discharged

\* The runs that discharged the checks of a rollout still do.
LEMMA ChecksStay ==
    ASSUME Typed, Typed', Grown, NEW r \in Rollouts, NEW m, m.rev \in DOMAIN rollouts[r], ChecksDischarged(r, m)
    PROVE  ChecksDischarged(r, m)'
<1>1. m.checked \subseteq DOMAIN runs
  BY DEF ChecksDischarged
<1>2. rollouts'[r][m.rev] = rollouts[r][m.rev]
  BY RolloutsStay
<1>3. \A n \in m.checked : n \in DOMAIN runs' /\ runs'[n] = runs[n]
  BY <1>1, RunsStay
<1>4. {runs'[n].check : n \in m.checked} = {runs[n].check : n \in m.checked}
  BY <1>3
<1> PICK d : d = rollouts[r][m.rev]
  OBVIOUS
<1>5. /\ \A n \in m.checked : runs[n].rollout = r /\ runs[n].status = "passed" /\ runs[n].snap = d.snap
      /\ {runs[n].check : n \in m.checked} = {x[1] : x \in d.required}
      /\ Cardinality(m.checked) = Cardinality(d.required)
  BY DEF ChecksDischarged
<1> QED
  BY <1>2, <1>3, <1>4, <1>5 DEF ChecksDischarged

\* The reviews that a promotion consumed are still those of an approval.
LEMMA ReviewedStay ==
    ASSUME Typed, Typed', Grown, ScopesFit, RolloutsFit, owners # <<>>,
           NEW r \in Rollouts, NEW m, m.rev \in DOMAIN rollouts[r], ReviewsDischarged(r, m)
    PROVE  ReviewsDischarged(r, m)'
<1> PICK d : d = rollouts[r][m.rev]
  OBVIOUS
<1>1. d.scope \in Scopes
  BY DEF RolloutsFit, RolloutFits, Declared
<1> PICK s : s = d.scope
  OBVIOUS
<1>2. PICK i \in DOMAIN moves[s] :
        /\ moves[s][i].to = "approved" /\ moves[s][i].discharged = m.reviewed
        /\ LET pin == RoundIn(SubSeq(moves[s], 1, i)) IN
             /\ pin # None /\ pin.snap = d.snap
             /\ \A n \in m.reviewed : reviews[n].rev = pin.rev /\ reviews[n].brief = pin.brief
             /\ m.reviewed = {} => Form(s, pin.rev).plan = {}
  BY DEF ReviewsDischarged
<1> PICK pin : pin = RoundIn(SubSeq(moves[s], 1, i))
  OBVIOUS
<1>3. rollouts'[r][m.rev] = d
  BY RolloutsStay
<1>4. /\ i \in DOMAIN moves'[s] /\ moves'[s][i] = moves[s][i]
      /\ SubSeq(moves'[s], 1, i) = SubSeq(moves[s], 1, i) /\ i \in 0..Len(moves[s])
  <2>1. moves[s] \in Seq(MoveRow)
    BY <1>1 DEF Typed, RolloutTypeOK, ScopeTypeOK
  <2>2. i \in 0..i /\ i \in 0..Len(moves[s])
    BY <2>1, LenProperties
  <2>3. QED
    BY <1>1, <2>2, MovesStay
<1>5. \A n \in m.reviewed : n \in DOMAIN reviews /\ reviews'[n] = reviews[n]
  BY <1>1, <1>2, DischargedIsThere, ReviewsStay
<1>6. pin.rev \in DOMAIN decls[s]
  BY <1>1, <1>2, <1>4, RoundOfPart
<1>7. Form(s, pin.rev)' = Form(s, pin.rev)
  BY <1>1, <1>6, DeclarationsStay
<1>8. \A n \in m.reviewed : reviews[n].scope = s /\ reviews[n].snap = d.snap
  BY DEF ReviewsDischarged
<1>9. pin = RoundIn(SubSeq(moves'[s], 1, i))
  BY <1>4
<1>10. \A n \in m.reviewed : /\ reviews'[n].scope = s /\ reviews'[n].snap = d.snap
                             /\ reviews'[n].rev = pin.rev /\ reviews'[n].brief = pin.brief
  BY <1>2, <1>5, <1>8
<1>11. /\ moves'[s][i].to = "approved" /\ moves'[s][i].discharged = m.reviewed
       /\ pin # None /\ pin.snap = d.snap
       /\ m.reviewed = {} => decls'[s][pin.rev].form.plan = {}
  BY <1>2, <1>4, <1>7 DEF Form
<1>12. /\ i \in DOMAIN moves'[s]
       /\ moves'[s][i].to = "approved" /\ moves'[s][i].discharged = m.reviewed
       /\ RoundIn(SubSeq(moves'[s], 1, i)) # None /\ RoundIn(SubSeq(moves'[s], 1, i)).snap = d.snap
       /\ \A n \in m.reviewed : /\ reviews'[n].rev = RoundIn(SubSeq(moves'[s], 1, i)).rev
                               /\ reviews'[n].brief = RoundIn(SubSeq(moves'[s], 1, i)).brief
       /\ m.reviewed = {} => decls'[s][RoundIn(SubSeq(moves'[s], 1, i)).rev].form.plan = {}
  BY <1>4, <1>9, <1>10, <1>11
<1>13. s = rollouts'[r][m.rev].scope /\ d.snap = rollouts'[r][m.rev].snap
  BY <1>3
<1>14. \A n \in m.reviewed : reviews'[n].scope = s /\ reviews'[n].snap = d.snap
  BY <1>10
<1> QED
  BY <1>12, <1>13, <1>14 DEF ReviewsDischarged, Form

\* The revision of the roster never falls.
LEMMA RevisionGrows ==
    ASSUME Typed, Typed', Grown, IsFiniteSet(seats')
    PROVE  StructuralRevision \in Nat /\ StructuralRevision' \in Nat /\ StructuralRevision <= StructuralRevision'
<1>1. seats \subseteq seats' /\ (open' => open)
  BY DEF Grown, CustodyGrows
<1>2. IsFiniteSet(seats) /\ Cardinality(seats) <= Cardinality(seats')
  BY <1>1, FS_Subset
<1>3. Cardinality(seats) \in Nat /\ Cardinality(seats') \in Nat
  BY <1>2, FS_CardinalityType
<1> QED
  BY <1>1, <1>2, <1>3 DEF StructuralRevision

\* A rollout transition stays, and still fits.
LEMMA RolloutMovesStay ==
    ASSUME Typed, Typed', Grown, ScopesFit, RolloutsFit, owners # <<>>, IsFiniteSet(seats'),
           NEW r \in Rollouts, NEW i \in DOMAIN rmoves[r]
    PROVE  /\ i \in DOMAIN rmoves'[r] /\ rmoves'[r][i] = rmoves[r][i]
           /\ RolloutMoveFits(r, i)'
<1>1. rmoves[r] \in Seq(RolloutMove) /\ rmoves'[r] \in Seq(RolloutMove) /\ Continues(rmoves[r], rmoves'[r])
  BY DEF Typed, RolloutTypeOK, Grown
<1>2. /\ DOMAIN rmoves[r] = 1..Len(rmoves[r]) /\ Len(rmoves[r]) \in Nat
      /\ i \in DOMAIN rmoves'[r]
      /\ \A n \in DOMAIN rmoves[r] : rmoves'[r][n] = rmoves[r][n]
  BY <1>1, Kept
<1>3. SubSeq(rmoves'[r], 1, i) = SubSeq(rmoves[r], 1, i)
  <2>1. i \in 0..Len(rmoves[r])
    BY <1>2
  <2>2. QED
    BY <1>1, <2>1, Beginning
<1> PICK m : m = rmoves[r][i]
  OBVIOUS
<1> PICK start : start = LastOf(Canaries(SubSeq(rmoves[r], 1, i)))
  OBVIOUS
<1>4. RolloutMoveFits(r, i)
  BY DEF RolloutsFit
<1>5. /\ m.by \in Lineage /\ m.rev \in DOMAIN rollouts[r]
      /\ i = 1 => m.command = "declare" /\ m.from = None /\ m.to = "declared"
      /\ i # 1 => m.from = rmoves[r][i - 1].to /\ <<m.from, m.command, m.to>> \in RolloutEdges
      /\ m.cohort # None <=> m.command = "start-canary"
      /\ m.cohort # None => /\ m.cohort.members \subseteq Lineage \cup seats
                            /\ m.cohort.assignment \in 1..StructuralRevision
      /\ m.target # None <=> m.command = "rollback"
      /\ m.target # None => CandidateOf(m.target) # None
  BY <1>4 DEF RolloutMoveFits
<1>6. /\ m.command \in CheckGated => ChecksDischarged(r, m)
      /\ m.command \notin CheckGated => m.checked = {}
      /\ m.command = "promote" => ReviewsDischarged(r, m)
      /\ m.command # "promote" => m.reviewed = {}
      /\ m.command \in CohortGated => start > 0 /\ m.gate = rmoves[r][start].cohort
      /\ m.command \notin CohortGated => m.gate = None
  BY <1>4 DEF RolloutMoveFits
<1>7. /\ m.by \in Lineage' /\ m.rev \in DOMAIN rollouts'[r]
      /\ (CandidateOf(m.target) # None => CandidateOf(m.target)' # None)
      /\ Lineage \cup seats \subseteq Lineage' \cup seats'
  BY <1>5, LineageGrows, RolloutsStay DEF Grown, CustodyGrows
<1>8. 1..StructuralRevision \subseteq 1..StructuralRevision'
  BY RevisionGrows
<1>9. i # 1 => rmoves'[r][i - 1] = rmoves[r][i - 1]
  BY <1>2
<1>10. start = LastOf(Canaries(SubSeq(rmoves'[r], 1, i))) /\ m = rmoves'[r][i]
  BY <1>2, <1>3
<1>11. m.command \in CheckGated => ChecksDischarged(r, m)'
  BY <1>5, <1>6, ChecksStay
<1>12. m.command = "promote" => ReviewsDischarged(r, m)'
  BY <1>5, <1>6, ReviewedStay
<1>13. m.command \in CohortGated => rmoves'[r][start] = rmoves[r][start]
  <2>1. SubSeq(rmoves[r], 1, i) \in Seq(RolloutMove) /\ DOMAIN SubSeq(rmoves[r], 1, i) = 1..i /\ i \in Nat
    BY <1>1, <1>2, Begins
  <2>2. Canaries(SubSeq(rmoves[r], 1, i)) \in SUBSET (1..i)
    BY <2>1 DEF Canaries
  <2>3. start \in 0..i
    BY <2>1, <2>2, LastIs
  <2>4. QED
    BY <1>2, <1>6, <2>3
<1>14. RolloutMoveFits(r, i)'
  BY <1>5, <1>6, <1>7, <1>8, <1>9, <1>10, <1>11, <1>12, <1>13 DEF RolloutMoveFits
<1> QED
  BY <1>2, <1>14

\* A settlement stays, and still fits.
LEMMA SettlementsStay ==
    ASSUME Typed, Typed', Grown, NEW i \in DOMAIN settlements
    PROVE  /\ i \in DOMAIN settlements' /\ settlements'[i] = settlements[i]
           /\ SettlementFits(i) => SettlementFits(i)'
<1>1. /\ settlements \in Seq(SettlementRows) /\ settlements' \in Seq(SettlementRows)
      /\ Continues(settlements, settlements')
      /\ candidates \in Seq(CandidateRow) /\ candidates' \in Seq(CandidateRow) /\ Continues(candidates, candidates')
      /\ handbacks \in Seq(HandbackRow) /\ handbacks' \in Seq(HandbackRow)
  BY DEF Typed, RolloutTypeOK, ScopeTypeOK, CustodyTypeOK, Grown, CustodyGrows
<1>2. i \in DOMAIN settlements' /\ settlements'[i] = settlements[i]
  BY <1>1, Kept
<1>3. \A n \in DOMAIN candidates : n \in DOMAIN candidates' /\ candidates'[n] = candidates[n]
  BY <1>1, Kept
<1>4. \A h \in DOMAIN handbacks : h \in DOMAIN handbacks' /\ handbacks'[h].seat = handbacks[h].seat
  <2>1. Len(handbacks) <= Len(handbacks')
    BY DEF Grown, CustodyGrows
  <2>2. DOMAIN handbacks = 1..Len(handbacks) /\ DOMAIN handbacks' = 1..Len(handbacks')
        /\ Len(handbacks) \in Nat /\ Len(handbacks') \in Nat
    BY <1>1, LenProperties
  <2>3. QED
    BY <2>1, <2>2 DEF Grown, CustodyGrows
<1>5. Lineage \subseteq Lineage' /\ seats \subseteq seats'
  BY LineageGrows DEF Grown, CustodyGrows
<1>6. ASSUME SettlementFits(i) PROVE SettlementFits(i)'
  <2> PICK r : r = settlements[i]
    OBVIOUS
  <2>1. r.by \in Lineage' /\ r.claim.seat \in seats'
    BY <1>5, <1>6 DEF SettlementFits
  <2>2. RefsResolve(r.claim)'
    BY <1>3, <1>4, <1>6 DEF SettlementFits, RefsResolve
  <2>3. r = settlements'[i]
    BY <1>2
  <2>4. QED
    BY <1>6, <2>1, <2>2, <2>3 DEF SettlementFits, VerdictFits
<1> QED
  BY <1>2, <1>6

-----------------------------------------------------------------------------
(* The assignment and its handbacks. *)

CustodyFits == CustodyTypeOK /\ OwnersFit /\ HandbacksFit

\* There is an owner, and it is of the lineage.
LEMMA AgentsKnown ==
    ASSUME CustodyFits
    PROVE EffectiveOwner \in Leads /\ EffectiveOwner \in Lineage /\ Len(owners) \in Nat \ {0}
<1>1. owners \in Seq(Leads) /\ owners # <<>>
  BY DEF CustodyFits, CustodyTypeOK, OwnersFit
<1>2. Len(owners) \in DOMAIN owners /\ Len(owners) \in Nat \ {0}
  BY <1>1, LenProperties, EmptySeq
<1>3. owners[Len(owners)] \in Leads
  BY <1>1, <1>2, ElementOfSeq, LenProperties
<1> QED
  BY <1>2, <1>3 DEF EffectiveOwner, Lineage

\* Nothing recorded is taken back when nothing is recorded.
LEMMA SameSequences ==
    ASSUME CustodyTypeOK
    PROVE  Continues(owners, owners) /\ Continues(candidates, candidates) /\ Len(handbacks) <= Len(handbacks)
  BY Stays, LenProperties DEF CustodyTypeOK

\* Only who sits here, what is offered, what is open, live or in force changes.
LEMMA RosterStep ==
    ASSUME CustodyFits, UNCHANGED <<owners, handbackVars>>,
           seats \subseteq seats', seats' \subseteq Agents, IsFiniteSet(seats'),
           open' \in BOOLEAN, (open' => open), live' \subseteq Agents, brief' \in 0..MaxBrief,
           offers \subseteq offers', offers' \subseteq OfferRow,
           \A o \in offers' \ offers : o.rev < Len(owners) /\ owners[o.rev + 1] = o.from
    PROVE  CustodyFits' /\ CustodyGrows
<1>1. UNCHANGED <<owners, tree, handbacks, candidates, captures>>
  BY DEF handbackVars
<1>2. CustodyTypeOK'
  BY <1>1 DEF CustodyFits, CustodyTypeOK
<1>3. OwnersFit'
  <2>1. OffersRead'
    BY <1>1 DEF CustodyFits, OwnersFit, OffersRead
  <2>2. LineageReads'
    BY <1>1 DEF CustodyFits, OwnersFit, LineageReads
  <2>3. QED
    BY <1>1, <2>1, <2>2 DEF CustodyFits, OwnersFit
<1>4. HandbacksFit'
  BY <1>1 DEF CustodyFits, HandbacksFit
<1>5. CustodyGrows
  BY <1>1, SameSequences DEF CustodyFits, CustodyGrows
<1> QED
  BY <1>2, <1>3, <1>4, <1>5 DEF CustodyFits

\* An agent that is attached joins the seats.
LEMMA AttachStep ==
    ASSUME CustodyFits, NEW l, NEW a \in Agents, Attach(l, a) PROVE CustodyFits' /\ CustodyGrows
<1>1. seats' = seats \cup {a} /\ UNCHANGED <<open, live, owners, offers, brief, handbackVars>>
  BY DEF Attach
<1>2. IsFiniteSet(seats \cup {a})
  BY FS_AddElement DEF CustodyFits, OwnersFit
<1> QED
  BY <1>1, <1>2, RosterStep DEF CustodyFits, CustodyTypeOK

\* Closing, amending, revoking and offering write no row of owners.
LEMMA OtherRosterSteps ==
    ASSUME CustodyFits, NEW l \in Leads,
           \/ CloseAssignment(l) \/ Amend(l) \/ \E a \in Agents : Revoke(a)
           \/ \E to \in Leads : Offer(l, to)
    PROVE  CustodyFits' /\ CustodyGrows
<1>1. CASE CloseAssignment(l)
  BY <1>1, RosterStep DEF CloseAssignment, CustodyFits, CustodyTypeOK, OwnersFit
<1>2. CASE Amend(l)
  <2>1. brief + 1 \in 0..MaxBrief
    BY <1>2, CustodyAssumption DEF Amend, CustodyFits, CustodyTypeOK
  <2>2. QED
    BY <1>2, <2>1, RosterStep DEF Amend, CustodyFits, CustodyTypeOK, OwnersFit
<1>3. CASE \E a \in Agents : Revoke(a)
  BY <1>3, RosterStep DEF Revoke, CustodyFits, CustodyTypeOK, OwnersFit
<1>4. ASSUME NEW to \in Leads, Offer(l, to) PROVE CustodyFits' /\ CustodyGrows
  <2> PICK o : o = [from |-> l, to |-> to, rev |-> OwnershipRevision]
    OBVIOUS
  <2>1. offers' = offers \cup {o} /\ UNCHANGED <<open, live, seats, owners, brief, handbackVars>>
        /\ l = EffectiveOwner
    BY <1>4 DEF Offer, OwnsOpen, Owner
  <2>2. OwnershipRevision \in Nat /\ OwnershipRevision < Len(owners) /\ OwnershipRevision + 1 = Len(owners)
    BY AgentsKnown DEF OwnershipRevision
  <2>3. o \in OfferRow /\ o.rev < Len(owners) /\ owners[o.rev + 1] = o.from
    BY <2>1, <2>2 DEF OfferRow, EffectiveOwner
  <2>4. QED
    BY <2>1, <2>3, RosterStep DEF CustodyFits, CustodyTypeOK, OwnersFit
<1> QED
  BY <1>1, <1>2, <1>3, <1>4

\* Ownership passes to whom it was offered at the current revision.
LEMMA AcceptStep == ASSUME CustodyFits, NEW l \in Leads, Accept(l) PROVE CustodyFits' /\ CustodyGrows
<1>1. /\ owners' = Append(owners, l) /\ UNCHANGED <<open, live, seats, offers, brief, handbackVars>>
      /\ \E o \in offers : o.to = l /\ o.rev = OwnershipRevision
  BY DEF Accept
<1>2. UNCHANGED <<open, live, seats, offers, brief, tree, handbacks, candidates, captures>>
  BY <1>1 DEF handbackVars
<1>3. owners \in Seq(Leads)
  BY DEF CustodyFits, CustodyTypeOK
<1>4. /\ owners' \in Seq(Leads) /\ Len(owners') = Len(owners) + 1 /\ Len(owners) \in Nat \ {0}
      /\ Continues(owners, owners') /\ \A i \in 1..Len(owners) : owners'[i] = owners[i]
      /\ owners'[Len(owners) + 1] = l /\ owners' # <<>>
  BY <1>1, <1>3, Appends, AgentsKnown, EmptySeq DEF Continues
<1>5. OffersRead'
  <2>1. ASSUME NEW o \in offers PROVE o.rev < Len(owners') /\ owners'[o.rev + 1] = o.from
    <3>1. o.rev < Len(owners) /\ owners[o.rev + 1] = o.from /\ o.rev \in Nat
      BY DEF CustodyFits, CustodyTypeOK, OfferRow, OwnersFit, OffersRead
    <3>2. QED
      BY <3>1, <1>4
  <2>2. QED
    BY <2>1, <1>2 DEF OffersRead
<1>6. LineageReads'
  <2>1. ASSUME NEW i \in 2..Len(owners') PROVE \E o \in offers : o.rev = i - 2 /\ o.to = owners'[i]
    <3>1. CASE i \in 2..Len(owners)
      <4>1. \E o \in offers : o.rev = i - 2 /\ o.to = owners[i]
        BY <3>1 DEF CustodyFits, OwnersFit, LineageReads
      <4>2. QED
        BY <3>1, <4>1, <1>4
    <3>2. CASE i = Len(owners) + 1
      BY <3>2, <1>1, <1>4 DEF OwnershipRevision
    <3>3. QED
      BY <3>1, <3>2, <1>4
  <2>2. QED
    BY <2>1, <1>2 DEF LineageReads
<1>7. CustodyTypeOK' /\ HandbacksFit'
  BY <1>2, <1>4 DEF CustodyFits, CustodyTypeOK, HandbacksFit
<1>8. CustodyGrows
  BY <1>2, <1>4, SameSequences DEF CustodyFits, CustodyGrows
<1> QED
  BY <1>2, <1>4, <1>5, <1>6, <1>7, <1>8 DEF CustodyFits, OwnersFit

\* A handback changes nobody's place.
LEMMA HandbackStep ==
    ASSUME CustodyFits, UNCHANGED custodyVars, HandbacksFit',
           tree' \in [Agents -> Snapshots], handbacks' \in Seq(HandbackRow),
           candidates' \in Seq(CandidateRow), captures' \subseteq Capture,
           Continues(candidates, candidates'), Len(handbacks) <= Len(handbacks'),
           \A h \in DOMAIN handbacks : handbacks'[h].seat = handbacks[h].seat
    PROVE  CustodyFits' /\ CustodyGrows
<1>1. UNCHANGED <<open, live, seats, owners, offers, brief>>
  BY DEF custodyVars
<1>2. CustodyTypeOK'
  BY <1>1 DEF CustodyFits, CustodyTypeOK
<1>3. OwnersFit'
  BY <1>1 DEF CustodyFits, OwnersFit, OffersRead, LineageReads
<1>4. CustodyGrows
  BY <1>1, SameSequences DEF CustodyFits, CustodyGrows
<1> QED
  BY <1>2, <1>3, <1>4 DEF CustodyFits

\* An edit, and a measurement of a pending handback, record nothing.
LEMMA WorkStep ==
    ASSUME CustodyFits, \/ \E a \in Agents, c \in Snapshots : Edit(a, c)
                        \/ \E h \in DOMAIN handbacks : CaptureTree(h)
    PROVE  CustodyFits' /\ CustodyGrows
<1>1. ASSUME NEW a \in Agents, NEW c \in Snapshots, Edit(a, c) PROVE CustodyFits' /\ CustodyGrows
  <2>1. tree' = [tree EXCEPT ![a] = c] /\ UNCHANGED <<custodyVars, handbacks, candidates, captures>>
    BY <1>1 DEF Edit
  <2>2. tree' \in [Agents -> Snapshots] /\ HandbacksFit'
    BY <2>1, CustodyAssumption DEF CustodyFits, CustodyTypeOK, custodyVars, HandbacksFit
  <2>3. QED
    BY <2>1, <2>2, HandbackStep, SameSequences DEF CustodyFits, CustodyTypeOK
<1>2. ASSUME NEW h \in DOMAIN handbacks, CaptureTree(h) PROVE CustodyFits' /\ CustodyGrows
  <2>1. PICK c \in {tree[handbacks[h].seat], None} : captures' = captures \cup {[handback |-> h, snap |-> c]}
    BY <1>2 DEF CaptureTree
  <2>2. UNCHANGED <<custodyVars, tree, handbacks, candidates>>
    BY <1>2 DEF CaptureTree
  <2>3. h \in Nat /\ handbacks[h].seat \in Agents
    <3>1. handbacks \in Seq(HandbackRow)
      BY DEF CustodyFits, CustodyTypeOK
    <3>2. h \in 1..Len(handbacks) /\ Len(handbacks) \in Nat
      BY <3>1, LenProperties
    <3>3. handbacks[h] \in HandbackRow
      BY <3>1, <3>2, ElementOfSeq
    <3>4. QED
      BY <3>2, <3>3 DEF HandbackRow
  <2>4. [handback |-> h, snap |-> c] \in Capture
    BY <2>1, <2>3 DEF CustodyFits, CustodyTypeOK, Capture
  <2>5. HandbacksFit'
    BY <2>1, <2>2 DEF CustodyFits, HandbacksFit, custodyVars
  <2>6. QED
    BY <2>1, <2>2, <2>4, <2>5, HandbackStep, SameSequences DEF CustodyFits, CustodyTypeOK
<1> QED
  BY <1>1, <1>2

\* A handback is of a seat, and awaits its observation.
LEMMA SubmitHandbackStep ==
    ASSUME CustodyFits, NEW a \in Agents, SubmitHandback(a) PROVE CustodyFits' /\ CustodyGrows
<1> PICK row : row = [seat |-> a, observed |-> "pending"]
  OBVIOUS
<1>1. handbacks' = Append(handbacks, row) /\ UNCHANGED <<custodyVars, tree, candidates, captures>> /\ a \in seats
  BY DEF SubmitHandback
<1>2. row \in HandbackRow /\ handbacks \in Seq(HandbackRow)
  BY DEF HandbackRow, CustodyFits, CustodyTypeOK
<1>3. /\ handbacks' \in Seq(HandbackRow) /\ Len(handbacks') = Len(handbacks) + 1
      /\ Len(handbacks) \in Nat /\ DOMAIN handbacks = 1..Len(handbacks)
      /\ DOMAIN handbacks' = 1..Len(handbacks) + 1
      /\ handbacks'[Len(handbacks) + 1] = row
      /\ \A h \in DOMAIN handbacks : handbacks'[h] = handbacks[h]
  BY <1>1, <1>2, Appends DEF Continues
<1>4. seats' = seats
  BY <1>1 DEF custodyVars
<1>5. HandbacksFit'
  BY <1>1, <1>3, <1>4 DEF CustodyFits, HandbacksFit
<1> QED
  BY <1>1, <1>3, <1>5, HandbackStep, SameSequences DEF CustodyFits, CustodyTypeOK

\* The first observation of a handback stands, and names one candidate.
LEMMA ObserveStep ==
    ASSUME CustodyFits, NEW o \in captures, Observe(o) PROVE CustodyFits' /\ CustodyGrows
<1> PICK b : b = o.handback
  OBVIOUS
<1> DEFINE due == handbacks[b].observed = "pending" /\ handbacks[b].seat \in live
           row == [handback |-> b, seat |-> handbacks[b].seat, snap |-> o.snap]
<1>1. /\ captures' = captures \ {o} /\ UNCHANGED <<custodyVars, tree>>
      /\ handbacks' = IF due THEN [handbacks EXCEPT ![b].observed = IF o.snap = None THEN "failed" ELSE "ok"]
                      ELSE handbacks
      /\ candidates' = IF due /\ o.snap # None THEN Append(candidates, row) ELSE candidates
  BY DEF Observe
<1>2. /\ handbacks \in Seq(HandbackRow) /\ candidates \in Seq(CandidateRow)
      /\ b \in DOMAIN handbacks /\ o \in Capture /\ seats' = seats
  BY <1>1 DEF CustodyFits, CustodyTypeOK, HandbacksFit, custodyVars
<1>3. /\ DOMAIN handbacks = 1..Len(handbacks) /\ Len(handbacks) \in Nat
      /\ DOMAIN candidates = 1..Len(candidates) /\ Len(candidates) \in Nat
      /\ handbacks[b] \in HandbackRow
  BY <1>2, LenProperties, ElementOfSeq
<1>4. captures' \subseteq Capture /\ \A c \in captures' : c.handback \in DOMAIN handbacks
  BY <1>1 DEF CustodyFits, CustodyTypeOK, HandbacksFit
<1>5. CASE ~due
  <2>1. handbacks' = handbacks /\ candidates' = candidates
    BY <1>1, <1>5
  <2>2. HandbacksFit'
    BY <2>1, <1>2, <1>4 DEF CustodyFits, HandbacksFit
  <2>3. QED
    BY <1>1, <1>4, <2>1, <2>2, HandbackStep, SameSequences DEF CustodyFits, CustodyTypeOK
<1>6. CASE due
  <2> PICK said : said = IF o.snap = None THEN "failed" ELSE "ok"
    OBVIOUS
  <2>1. handbacks' = [handbacks EXCEPT ![b].observed = said] /\ handbacks[b].observed = "pending"
    BY <1>1, <1>6
  <2>2. [handbacks[b] EXCEPT !.observed = said] \in HandbackRow
    BY <1>3 DEF HandbackRow
  <2>3. handbacks' \in Seq(HandbackRow) /\ Len(handbacks') = Len(handbacks) /\ DOMAIN handbacks' = DOMAIN handbacks
    BY <1>2, <1>3, <2>1, <2>2, ExceptSeq, LenProperties
  <2>4. /\ \A k \in DOMAIN handbacks : k # b => handbacks'[k] = handbacks[k]
        /\ handbacks'[b].observed = said /\ handbacks'[b].seat = handbacks[b].seat
    BY <1>2, <1>3, <2>1 DEF HandbackRow
  <2>5. \A k \in DOMAIN handbacks : handbacks'[k].seat = handbacks[k].seat
    BY <2>4
  <2>6. \A i \in DOMAIN candidates : candidates[i].handback # b
    BY <2>1 DEF CustodyFits, HandbacksFit
  <2>7. CASE o.snap = None
    <3>1. candidates' = candidates /\ said # "ok"
      BY <1>1, <2>7
    <3>2. HandbacksFit'
      BY <1>2, <1>4, <2>3, <2>4, <2>5, <2>6, <3>1 DEF CustodyFits, HandbacksFit
    <3>3. QED
      BY <1>1, <1>4, <2>3, <2>5, <3>1, <3>2, HandbackStep, SameSequences DEF CustodyFits, CustodyTypeOK
  <2>8. CASE o.snap # None
    <3> PICK e : e = row
      OBVIOUS
    <3>1. e \in CandidateRow /\ e.handback = b /\ e.seat = handbacks[b].seat
      <4>1. b \in Nat /\ handbacks[b].seat \in Agents /\ o.snap \in Snapshots
        BY <1>2, <1>3, <2>8 DEF HandbackRow, Capture
      <4>2. QED
        BY <4>1 DEF CandidateRow
    <3>2. candidates' = Append(candidates, e) /\ said = "ok"
      BY <1>1, <1>6, <2>8
    <3>3. /\ candidates' \in Seq(CandidateRow) /\ DOMAIN candidates' = 1..Len(candidates) + 1
          /\ candidates'[Len(candidates) + 1] = e /\ Continues(candidates, candidates')
          /\ \A i \in DOMAIN candidates : candidates'[i] = candidates[i]
      BY <1>2, <3>1, <3>2, Appends DEF Continues
    <3>4. \A k \in DOMAIN handbacks' :
             /\ handbacks'[k].seat \in seats'
             /\ handbacks'[k].observed = "ok" => \E i \in DOMAIN candidates' : candidates'[i].handback = k
      <4>1. ASSUME NEW k \in DOMAIN handbacks, k # b, handbacks'[k].observed = "ok"
            PROVE  \E i \in DOMAIN candidates' : candidates'[i].handback = k
        <5>1. PICK i \in DOMAIN candidates : candidates[i].handback = k
          BY <4>1, <2>4 DEF CustodyFits, HandbacksFit
        <5>2. i \in DOMAIN candidates' /\ candidates'[i].handback = k
          BY <5>1, <1>3, <3>3
        <5>3. QED
          BY <5>2
      <4>2. Len(candidates) + 1 \in DOMAIN candidates' /\ candidates'[Len(candidates) + 1].handback = b
        BY <1>3, <3>1, <3>3
      <4>3. \A k \in DOMAIN handbacks : handbacks[k].seat \in seats
        BY DEF CustodyFits, HandbacksFit
      <4>4. QED
        BY <4>1, <4>2, <4>3, <1>2, <2>3, <2>5
    <3>5. ASSUME NEW i \in DOMAIN candidates'
          PROVE  /\ candidates'[i].handback \in DOMAIN handbacks'
                 /\ handbacks'[candidates'[i].handback].observed = "ok"
                 /\ candidates'[i].seat = handbacks'[candidates'[i].handback].seat
                 /\ \A j \in DOMAIN candidates' : candidates'[i].handback = candidates'[j].handback => i = j
      <4>1. \A j \in DOMAIN candidates' : j \in DOMAIN candidates \/ j = Len(candidates) + 1
        BY <1>3, <3>3
      <4>2. \A j \in DOMAIN candidates :
               /\ candidates'[j] = candidates[j] /\ candidates[j].handback \in DOMAIN handbacks
               /\ handbacks[candidates[j].handback].observed = "ok"
               /\ candidates[j].seat = handbacks[candidates[j].handback].seat
               /\ candidates[j].handback # b
               /\ \A k \in DOMAIN candidates : candidates[j].handback = candidates[k].handback => j = k
        BY <2>6, <3>3 DEF CustodyFits, HandbacksFit
      <4>3. candidates'[Len(candidates) + 1].handback = b /\ candidates'[Len(candidates) + 1].seat = handbacks[b].seat
        BY <3>1, <3>3
      <4>4. CASE i \in DOMAIN candidates
        BY <4>1, <4>2, <4>3, <4>4, <2>3, <2>4
      <4>5. CASE i = Len(candidates) + 1
        BY <4>1, <4>2, <4>3, <4>5, <1>2, <2>3, <2>4, <3>2
      <4>6. i \in DOMAIN candidates \/ i = Len(candidates) + 1
        BY <4>1
      <4>7. QED
        BY <4>4, <4>5, <4>6
    <3>6. \A c \in captures' : c.handback \in DOMAIN handbacks'
      BY <1>4, <2>3
    <3>7. HandbacksFit'
      BY <3>4, <3>5, <3>6 DEF HandbacksFit
    <3>8. QED
      BY <1>1, <1>4, <2>3, <2>5, <3>3, <3>7, HandbackStep, SameSequences DEF CustodyFits, CustodyTypeOK
  <2>9. QED
    BY <2>7, <2>8
<1> QED
  BY <1>5, <1>6

\* Every step of the assignment keeps its rows together.
LEMMA CustodyKept == ASSUME CustodyFits, CustodyNext PROVE CustodyFits' /\ CustodyGrows
<1>1. ASSUME NEW l \in Leads, \E a \in Agents : Attach(l, a) PROVE CustodyFits' /\ CustodyGrows
  BY <1>1, AttachStep
<1>2. ASSUME NEW l \in Leads, CloseAssignment(l) \/ Amend(l) \/ \E to \in Leads : Offer(l, to)
      PROVE  CustodyFits' /\ CustodyGrows
  BY <1>2, OtherRosterSteps
<1>3. ASSUME NEW l \in Leads, Accept(l) PROVE CustodyFits' /\ CustodyGrows
  BY <1>3, AcceptStep
<1>4. ASSUME NEW a \in Agents, Revoke(a) PROVE CustodyFits' /\ CustodyGrows
  <2>1. Founder \in Leads
    BY CustodyAssumption
  <2>2. QED
    BY <1>4, <2>1, OtherRosterSteps
<1>5. ASSUME NEW a \in Agents, \E c \in Snapshots : Edit(a, c) PROVE CustodyFits' /\ CustodyGrows
  BY <1>5, WorkStep
<1>6. ASSUME NEW a \in Agents, SubmitHandback(a) PROVE CustodyFits' /\ CustodyGrows
  BY <1>6, SubmitHandbackStep
<1>7. ASSUME NEW h \in DOMAIN handbacks, CaptureTree(h) PROVE CustodyFits' /\ CustodyGrows
  BY <1>7, WorkStep
<1>8. ASSUME NEW m \in captures, Observe(m) PROVE CustodyFits' /\ CustodyGrows
  BY <1>8, ObserveStep
<1> QED
  BY <1>1, <1>2, <1>3, <1>4, <1>5, <1>6, <1>7, <1>8 DEF CustodyNext

\* A step that leaves the assignment to itself, but for a seat it may attach.
LEMMA CustodySame ==
    ASSUME CustodyFits, UNCHANGED <<open, live, owners, offers, brief, handbackVars>>,
           seats' = seats \/ \E a \in Agents : seats' = seats \cup {a}
    PROVE  CustodyFits' /\ CustodyGrows
<1>1. seats \subseteq seats' /\ seats' \subseteq Agents /\ IsFiniteSet(seats')
  BY FS_AddElement DEF CustodyFits, CustodyTypeOK, OwnersFit
<1> QED
  BY <1>1, RosterStep DEF CustodyFits, CustodyTypeOK

-----------------------------------------------------------------------------
(* What was there still fits, so that a step answers for its own rows only. *)

\* The part of the invariant that the assignment answers for.
LEMMA InvCustody == ASSUME ReleaseInv PROVE CustodyFits /\ owners # <<>> /\ IsFiniteSet(seats)
  BY DEF ReleaseInv, Typed, RolloutTypeOK, ScopeTypeOK, CustodyFits, OwnersFit

\* If the rows that a step adds to the scopes fit, all do.
LEMMA ScopesKept ==
    ASSUME ReleaseInv, Typed', Grown,
           \A s \in Scopes : decls'[s] = <<>> <=> moves'[s] = <<>>,
           \A s \in Scopes : \A i \in DOMAIN decls'[s] \ DOMAIN decls[s] : DeclarationFits(s, i)',
           \A i \in DOMAIN reviews' \ DOMAIN reviews : ReviewFits(i)',
           \A s \in Scopes : \A i \in DOMAIN moves'[s] \ DOMAIN moves[s] : MoveFits(s, i)'
    PROVE  ScopesFit'
<1>1. Typed /\ ScopesFit /\ owners # <<>>
  BY InvCustody DEF ReleaseInv
<1>2. ASSUME NEW s \in Scopes, NEW i \in DOMAIN decls'[s] PROVE DeclarationFits(s, i)'
  <2>1. CASE i \in DOMAIN decls[s]
    BY <1>1, <2>1, DeclarationsStay DEF ScopesFit
  <2>2. QED
    BY <2>1
<1>3. ASSUME NEW i \in DOMAIN reviews' PROVE ReviewFits(i)'
  <2>1. CASE i \in DOMAIN reviews
    BY <1>1, <2>1, ReviewsStay DEF ScopesFit
  <2>2. QED
    BY <2>1
<1>4. ASSUME NEW s \in Scopes, NEW i \in DOMAIN moves'[s] PROVE MoveFits(s, i)'
  <2>1. CASE i \in DOMAIN moves[s]
    <3>1. \A n \in DOMAIN moves[s] : MoveFits(s, n)
      BY <1>1 DEF ScopesFit
    <3>2. ASSUME NEW n \in DOMAIN moves[s] PROVE moves[s][n].rev \in DOMAIN decls[s]
      BY <3>1 DEF MoveFits
    <3>3. QED
      BY <1>1, <2>1, <3>1, <3>2, MovesStay
  <2>2. QED
    BY <2>1
<1> QED
  BY <1>2, <1>3, <1>4 DEF ScopesFit

\* The scopes fit whatever else grows.
LEMMA SameScopes ==
    ASSUME ReleaseInv, Typed', Grown, UNCHANGED scopeVars
    PROVE  ScopesFit' /\ GraphFits' /\ SurfacesRead'
<1>1. UNCHANGED <<decls, moves, reviews, bound>>
  BY DEF scopeVars
<1>2. ScopesFit'
  BY <1>1, ScopesKept DEF ReleaseInv, ScopesFit
<1>3. GraphFits'
  BY <1>1 DEF ReleaseInv, GraphFits, Declared, Latest
<1>4. SurfacesRead'
  BY <1>1 DEF ReleaseInv, SurfacesRead, Moving, Declared, Latest, StateOf, Grown, CustodyGrows
<1> QED
  BY <1>2, <1>3, <1>4

\* If the rows that a step adds to the rollouts fit, all do.
LEMMA RolloutsKept ==
    ASSUME ReleaseInv, Typed', Grown, IsFiniteSet(seats'),
           \A r \in Rollouts : rollouts'[r] = <<>> <=> rmoves'[r] = <<>>,
           \A q \in Checks : \A i \in DOMAIN defs'[q] \ DOMAIN defs[q] : DefinitionFits(q, i)',
           \A r \in Rollouts : \A i \in DOMAIN rollouts'[r] \ DOMAIN rollouts[r] : RolloutFits(r, i)',
           \A r \in Rollouts : \A i \in DOMAIN rmoves'[r] \ DOMAIN rmoves[r] : RolloutMoveFits(r, i)',
           \A j \in jobs' : j.at = "measured" => j.status \in {"passed", "failed"}
    PROVE  RolloutsFit'
<1>1. Typed /\ ScopesFit /\ RolloutsFit /\ owners # <<>>
  BY InvCustody DEF ReleaseInv
<1>2. ASSUME NEW q \in Checks, NEW i \in DOMAIN defs'[q] PROVE DefinitionFits(q, i)'
  <2>1. CASE i \in DOMAIN defs[q]
    BY <1>1, <2>1, DefinitionsStay DEF RolloutsFit
  <2>2. QED
    BY <2>1
<1>3. ASSUME NEW r \in Rollouts, NEW i \in DOMAIN rollouts'[r] PROVE RolloutFits(r, i)'
  <2>1. CASE i \in DOMAIN rollouts[r]
    BY <1>1, <2>1, RolloutsStay DEF RolloutsFit
  <2>2. QED
    BY <2>1
<1>4. ASSUME NEW r \in Rollouts, NEW i \in DOMAIN rmoves'[r] PROVE RolloutMoveFits(r, i)'
  <2>1. CASE i \in DOMAIN rmoves[r]
    BY <1>1, <2>1, RolloutMovesStay
  <2>2. QED
    BY <2>1
<1> QED
  BY <1>2, <1>3, <1>4 DEF RolloutsFit

\* The runs fit as long as none is added.
LEMMA RunsKept == ASSUME ReleaseInv, Typed', Grown, runs' = runs PROVE RunsFit'
<1>1. Typed /\ RunsFit
  BY DEF ReleaseInv
<1>2. \A i \in DOMAIN runs' : RunFits(i)'
  BY <1>1, RunsStay DEF RunsFit
<1>3. ASSUME NEW i \in DOMAIN runs PROVE StreamFits(i)'
  <2>1. StreamFits(i) /\ RunFits(i)
    BY <1>1 DEF RunsFit
  <2>2. runs[i] \in RunRow
    BY <1>1, ElementOfSeq, LenProperties DEF Typed, RolloutTypeOK
  <2>3. DefinitionOf(runs[i].check, runs[i].def)' = DefinitionOf(runs[i].check, runs[i].def)
    BY <1>1, <2>1, <2>2, DefinitionsStay DEF RunFits, RunRow
  <2>4. RetryStream(runs[i].rollout, runs[i].check, runs[i].snap)' = RetryStream(runs[i].rollout, runs[i].check, runs[i].snap)
    BY DEF RetryStream
  <2>5. QED
    BY <2>1, <2>3, <2>4 DEF StreamFits
<1>4. \A i, k \in DOMAIN runs' : runs'[k].by = runs'[i].by /\ runs'[k].req = runs'[i].req => k = i
  BY <1>1 DEF RunsFit
<1> QED
  BY <1>2, <1>3, <1>4 DEF RunsFit

\* The rollouts fit whatever else grows.
LEMMA SameRollouts ==
    ASSUME ReleaseInv, Typed', Grown, IsFiniteSet(seats'), UNCHANGED rolloutVars
    PROVE  RunsFit' /\ RolloutsFit'
<1>1. UNCHANGED <<defs, rollouts, rmoves, runs, jobs>>
  BY DEF rolloutVars
<1>2. RunsFit'
  BY <1>1, RunsKept
<1>3. RolloutsFit'
  BY <1>1, RolloutsKept DEF ReleaseInv, RolloutsFit
<1> QED
  BY <1>2, <1>3

\* If the row that a step adds to the settlements fits, all do.
LEMMA SettlementsKept ==
    ASSUME ReleaseInv, Typed', Grown,
           \A j \in recorders' : VerdictFits(j.claim, j.verdict),
           \A i \in DOMAIN settlements' \ DOMAIN settlements :
              /\ SettlementFits(i)'
              /\ \A j \in DOMAIN settlements :
                   /\ <<settlements'[i].claim.seat, settlements'[i].rev>> # <<settlements[j].claim.seat, settlements[j].rev>>
                   /\ <<settlements'[i].by, settlements'[i].req>> # <<settlements[j].by, settlements[j].req>>,
           \A i, j \in DOMAIN settlements' \ DOMAIN settlements : i = j
    PROVE  SettlementsFit'
<1>1. Typed /\ SettlementsFit
  BY DEF ReleaseInv
<1>2. ASSUME NEW i \in DOMAIN settlements' PROVE SettlementFits(i)'
  <2>1. CASE i \in DOMAIN settlements
    BY <1>1, <2>1, SettlementsStay DEF SettlementsFit
  <2>2. QED
    BY <2>1
<1>3. \A i \in DOMAIN settlements : i \in DOMAIN settlements' /\ settlements'[i] = settlements[i]
  BY <1>1, SettlementsStay
<1>4. ASSUME NEW i \in DOMAIN settlements', NEW j \in DOMAIN settlements', i # j
      PROVE  /\ <<settlements'[i].claim.seat, settlements'[i].rev>> # <<settlements'[j].claim.seat, settlements'[j].rev>>
             /\ <<settlements'[i].by, settlements'[i].req>> # <<settlements'[j].by, settlements'[j].req>>
  <2>1. CASE i \in DOMAIN settlements /\ j \in DOMAIN settlements
    BY <1>1, <1>3, <1>4, <2>1 DEF SettlementsFit
  <2>2. CASE i \notin DOMAIN settlements /\ j \in DOMAIN settlements
    BY <1>3, <2>2
  <2>3. CASE i \in DOMAIN settlements /\ j \notin DOMAIN settlements
    BY <1>3, <2>3
  <2>4. QED
    BY <1>4, <2>1, <2>2, <2>3
<1> QED
  BY <1>2, <1>4 DEF SettlementsFit

\* The settlements fit whatever else grows.
LEMMA SameSettlements ==
    ASSUME ReleaseInv, Typed', Grown, UNCHANGED settlementVars PROVE SettlementsFit'
<1>1. UNCHANGED <<transcript, recorders, settlements>>
  BY DEF settlementVars
<1> QED
  BY <1>1, SettlementsKept DEF ReleaseInv, SettlementsFit

\* A step of the assignment leaves the rest to itself.
LEMMA CustodyStepKeeps == ASSUME ReleaseInv, CustodyStep PROVE ReleaseInv' /\ Grown
<1>1. UNCHANGED <<scopeVars, rolloutVars, settlementVars>> /\ CustodyNext
  BY DEF CustodyStep
<1>2. UNCHANGED <<decls, moves, reviews, bound, defs, rollouts, rmoves, runs, jobs, recorders, settlements>>
  BY <1>1 DEF scopeVars, rolloutVars, settlementVars
<1>3. CustodyFits' /\ CustodyGrows
  BY <1>1, InvCustody, CustodyKept
<1>4. Typed'
  BY <1>2, <1>3 DEF ReleaseInv, Typed, RolloutTypeOK, ScopeTypeOK, CustodyFits
<1>5. Grown
  BY <1>2, <1>3, Stays DEF ReleaseInv, Typed, RolloutTypeOK, ScopeTypeOK, Grown
<1>6. IsFiniteSet(seats') /\ OwnersFit' /\ HandbacksFit'
  BY <1>3 DEF CustodyFits, OwnersFit
<1> QED
  BY <1>1, <1>4, <1>5, <1>6, SameScopes, SameRollouts, SameSettlements DEF ReleaseInv

\* What a scope command leaves to itself.
LEMMA ScopeFrame ==
    ASSUME ReleaseInv, CustodyFits', CustodyGrows, UNCHANGED <<rolloutVars, settlementVars>>,
           ScopeTypeOK', reviews' \in Seq(ReviewRow), Continues(reviews, reviews'),
           \A s \in Scopes : Continues(decls[s], decls'[s]) /\ Continues(moves[s], moves'[s])
    PROVE  /\ Typed' /\ Grown
           /\ ScopesFit' /\ GraphFits' /\ SurfacesRead' => ReleaseInv'
<1>1. UNCHANGED <<defs, rollouts, rmoves, runs, jobs, recorders, settlements>>
  BY DEF rolloutVars, settlementVars
<1>2. Typed'
  BY <1>1 DEF ReleaseInv, Typed, RolloutTypeOK
<1>3. Grown
  BY <1>1, Stays DEF ReleaseInv, Typed, RolloutTypeOK, Grown
<1>4. IsFiniteSet(seats') /\ OwnersFit' /\ HandbacksFit'
  BY DEF CustodyFits, OwnersFit
<1>5. RunsFit' /\ RolloutsFit' /\ SettlementsFit'
  BY <1>2, <1>3, <1>4, SameRollouts, SameSettlements
<1> QED
  BY <1>2, <1>3, <1>4, <1>5 DEF ReleaseInv

-----------------------------------------------------------------------------
(* The scopes. *)

\* Only a submission leads back into motion, and only an approval approves.
LEMMA EdgeShape ==
    ASSUME NEW e \in Edges
    PROVE  /\ e = <<e[1], e[2], e[3]>> /\ e[1] \in States /\ e[3] \in States /\ e[2] \in Commands
           /\ e[2] # "declare" /\ (e[3] = "approved" <=> e[2] = "approve")
           /\ e[1] \in {"advanced", "closed"} /\ e[3] \notin {"advanced", "closed"} => e[2] = "submit-for-review"
<1>1. CASE e \in {<<from, "task-cancel", "closed">> : from \in States \ {"closed"}}
  BY <1>1 DEF States, Commands
<1>2. CASE e \notin {<<from, "task-cancel", "closed">> : from \in States \ {"closed"}}
  BY <1>2 DEF States, Commands, Edges
<1> QED
  BY <1>1, <1>2

\* The edge that a command takes is one of the table.
LEMMA EdgeTarget ==
    ASSUME NEW from, NEW cmd, NEW to, <<from, cmd, to>> \in Edges,
           NEW e, e = CHOOSE x \in Edges : x[1] = from /\ x[2] = cmd
    PROVE  e \in Edges /\ e[1] = from /\ e[2] = cmd /\ e = <<from, cmd, e[3]>>
<1>1. \E x \in Edges : x[1] = from /\ x[2] = cmd
  OBVIOUS
<1>2. e \in Edges /\ e[1] = from /\ e[2] = cmd
  BY <1>1
<1> QED
  BY <1>2, EdgeShape

\* A declared scope has a latest declaration.
LEMMA DeclaredRow ==
    ASSUME Typed, NEW s \in Declared
    PROVE  /\ s \in Scopes /\ decls[s] \in Seq(DeclarationRow)
           /\ Len(decls[s]) \in Nat \ {0} /\ DOMAIN decls[s] = 1..Len(decls[s])
           /\ Len(decls[s]) \in DOMAIN decls[s]
           /\ Last(decls[s]) = decls[s][Len(decls[s])] /\ Last(decls[s]) \in DeclarationRow
           /\ Latest(s) = Form(s, Len(decls[s])) /\ Latest(s) \in Forms
<1>1. s \in Scopes /\ decls[s] \in Seq(DeclarationRow) /\ decls[s] # <<>>
  BY DEF Declared, Typed, RolloutTypeOK, ScopeTypeOK
<1>2. Len(decls[s]) \in Nat \ {0} /\ DOMAIN decls[s] = 1..Len(decls[s])
  BY <1>1, LenProperties, EmptySeq
<1>3. Len(decls[s]) \in DOMAIN decls[s]
  BY <1>2
<1>4. decls[s][Len(decls[s])] \in DeclarationRow
  BY <1>1, <1>2, ElementOfSeq
<1> QED
  BY <1>1, <1>2, <1>3, <1>4 DEF Last, Latest, Form, DeclarationRow

\* A declared scope has a state, which its last row says.
LEMMA MachineRow ==
    ASSUME Typed, ScopesFit, NEW s \in Declared
    PROVE  /\ moves[s] \in Seq(MoveRow) /\ Len(moves[s]) \in Nat \ {0} /\ DOMAIN moves[s] = 1..Len(moves[s])
           /\ Len(moves[s]) \in DOMAIN moves[s]
           /\ StateOf(s) = moves[s][Len(moves[s])].to /\ StateOf(s) \in States
<1>1. s \in Scopes /\ moves[s] \in Seq(MoveRow) /\ moves[s] # <<>>
  BY DEF Declared, Typed, RolloutTypeOK, ScopeTypeOK, ScopesFit
<1>2. Len(moves[s]) \in Nat \ {0} /\ DOMAIN moves[s] = 1..Len(moves[s])
  BY <1>1, LenProperties, EmptySeq
<1>3. moves[s][Len(moves[s])] \in MoveRow
  BY <1>1, <1>2, ElementOfSeq
<1> QED
  BY <1>1, <1>2, <1>3 DEF Last, StateOf, MoveRow

\* A candidate is of some observed content.
LEMMA CandidateKnown ==
    ASSUME Typed, NEW c, CandidateOf(c) # None PROVE c \in Snapshots /\ c # None
<1>1. candidates \in Seq(CandidateRow)
  BY DEF Typed, RolloutTypeOK, ScopeTypeOK, CustodyTypeOK
<1>2. PICK i \in DOMAIN candidates : candidates[i].snap = c
  BY DEF CandidateOf
<1>3. candidates[i] \in CandidateRow
  BY <1>1, <1>2, LenProperties, ElementOfSeq
<1> QED
  BY <1>2, <1>3, CustodyAssumption DEF CandidateRow

\* What discharges a round is one observation for each lens of its plan, by
\* an agent that is independent now.
LEMMA DischargeIs ==
    ASSUME Typed, NEW s \in Declared, NEW pin, Fresh(s, pin), NEW D, D = Discharge(s, pin), D # None,
           NEW m, m.rev = pin.rev, m.snap = pin.snap, m.brief = pin.brief, m.plan = pin.plan
    PROVE  Discharged(s, m, D) /\ D \subseteq EligibleReviews(s, pin) /\ D \in SUBSET Nat
<1> DEFINE E == EligibleReviews(s, pin)
           P == Latest(s).plan
           Of(x) == {i \in E : reviews[i].lens = x}
<1>1. D = {Max(Of(x)) : x \in P} /\ \A x \in P : Of(x) # {}
  BY DEF Discharge
<1>2. /\ reviews \in Seq(ReviewRow) /\ DOMAIN reviews = 1..Len(reviews) /\ Len(reviews) \in Nat
  BY LenProperties DEF Typed, RolloutTypeOK, ScopeTypeOK
<1>3. /\ E \subseteq DOMAIN reviews
      /\ \A k \in E : /\ reviews[k].scope = s /\ reviews[k].rev = pin.rev /\ reviews[k].snap = pin.snap
                      /\ reviews[k].brief = pin.brief /\ reviews[k].plan = pin.plan
                      /\ reviews[k].lens \in P
  BY DEF EligibleReviews
<1>4. P = Form(s, m.rev).plan
  BY DeclaredRow DEF Fresh
<1> HIDE DEF E, P
<1>5. ASSUME NEW x \in P PROVE Max(Of(x)) \in E /\ reviews[Max(Of(x))].lens = x
  <2>1. Of(x) \in SUBSET (0..Len(reviews)) /\ Of(x) # {}
    BY <1>1, <1>2, <1>3
  <2>2. Max(Of(x)) \in Of(x)
    BY <1>2, <2>1, Greatest
  <2>3. QED
    BY <2>2
<1>6. /\ D \subseteq E
      /\ \A x \in P : \E k \in D : reviews[k].lens = x
      /\ \A k, n \in D : reviews[k].lens = reviews[n].lens => k = n
  <2> PICK f : f = [x \in P |-> Max(Of(x))]
    OBVIOUS
  <2>1. D = {f[x] : x \in P} /\ \A x \in P : f[x] \in E /\ reviews[f[x]].lens = x
    BY <1>1, <1>5
  <2> HIDE DEF Of
  <2>2. QED
    BY <2>1
<1>7. {reviews[k].lens : k \in D} = P
  BY <1>3, <1>6
<1>8. Cardinality(D) = Cardinality(P)
  <2> PICK g : g = [k \in D |-> reviews[k].lens]
    OBVIOUS
  <2>1. g \in Bijection(D, P)
    <3>1. g \in [D -> P]
      BY <1>3, <1>6
    <3>2. \A k, n \in D : g[k] = g[n] => k = n
      BY <1>6
    <3>3. \A x \in P : \E k \in D : g[k] = x
      BY <1>6
    <3>4. QED
      BY <3>1, <3>2, <3>3, Fun_IsBij
  <2>2. IsFiniteSet(D)
    <3>1. D \subseteq 1..Len(reviews) /\ IsFiniteSet(1..Len(reviews))
      BY <1>2, <1>3, <1>6, FS_Interval
    <3>2. QED
      BY <3>1, FS_Subset
  <2>3. QED
    BY <2>1, <2>2, FS_Bijection DEF ExistsBijection
<1>9. Discharged(s, m, D)
  BY <1>3, <1>4, <1>6, <1>7, <1>8 DEF Discharged
<1> QED
  BY <1>2, <1>3, <1>6, <1>9 DEF E

\* Surfaces stay apart if the scope that changes is apart from those that move.
LEMMA SurfacesStay ==
    ASSUME SurfacesRead, open' => open, NEW s,
           \A t \in Scopes : t # s /\ t \in Moving' => t \in Moving /\ Latest(t)' = Latest(t),
           s \in Moving' /\ open' =>
              \/ s \in Moving /\ Latest(s)' = Latest(s)
              \/ \A t \in Moving \ {s} : Latest(s)'.paths \cap Latest(t).paths = {}
    PROVE  SurfacesRead'
<1>1. Moving' \subseteq Scopes
  BY DEF Moving, Declared
<1>2. ASSUME open', NEW t \in Moving', NEW u \in Moving', t # u
      PROVE  Latest(t)'.paths \cap Latest(u)'.paths = {}
  <2>1. \A a, b \in Moving : a # b => Latest(a).paths \cap Latest(b).paths = {}
    BY <1>2 DEF SurfacesRead
  <2>2. CASE t # s /\ u # s
    BY <1>1, <1>2, <2>1, <2>2
  <2>3. CASE t = s
    BY <1>1, <1>2, <2>1, <2>3
  <2>4. CASE u = s
    BY <1>1, <1>2, <2>1, <2>4
  <2>5. QED
    BY <2>2, <2>3, <2>4
<1> QED
  BY <1>2 DEF SurfacesRead

ScopeRowsTimely ==
    /\ \A s \in Scopes : /\ DeclarationTimely(s)
                         /\ \A i \in DOMAIN moves'[s] \ DOMAIN moves[s] : MoveTimely(s, i)
    /\ \A i \in DOMAIN reviews' \ DOMAIN reviews : ReviewTimely(i)

\* The row that a gated move appends names what discharged the round.
LEMMA GatedRow ==
    ASSUME Typed, ScopesFit, NEW s \in Declared, NEW m \in MoveRow, m.command # "submit-for-review",
           NEW pin, pin = ActiveRound(s), Fresh(s, pin),
           m.discharged = Discharge(s, pin), m.discharged # None,
           NEW ms, ms = Append(moves[s], m)
    PROVE  LET sub == LastOf(Submits(ms)) IN
           /\ sub \in 1..Len(moves[s]) + 1
           /\ ms[sub].rev \in DOMAIN decls[s]
           /\ Discharged(s, ms[sub], m.discharged)
<1>1. /\ moves[s] \in Seq(MoveRow) /\ Len(moves[s]) \in Nat \ {0} /\ DOMAIN moves[s] = 1..Len(moves[s])
  BY MachineRow
<1>2. /\ ms \in Seq(MoveRow) /\ DOMAIN ms = 1..Len(moves[s]) + 1 /\ ms[Len(moves[s]) + 1] = m
      /\ \A k \in DOMAIN moves[s] : ms[k] = moves[s][k]
  BY <1>1, Appends DEF Continues
<1>3. Submits(ms) = Submits(moves[s])
  BY <1>1, <1>2 DEF Submits
<1> PICK sub : sub = LastOf(Submits(moves[s]))
  OBVIOUS
<1>4. /\ sub \in DOMAIN moves[s]
      /\ pin.rev = moves[s][sub].rev /\ pin.snap = moves[s][sub].snap
      /\ pin.brief = moves[s][sub].brief /\ pin.plan = moves[s][sub].plan
  <2>1. pin # None /\ pin = RoundIn(moves[s])
    BY DEF Fresh, ActiveRound
  <2>2. QED
    BY <1>1, <2>1, RoundIsRow
<1> PICK row : row = moves[s][sub]
  OBVIOUS
<1> PICK D : D = m.discharged
  OBVIOUS
<1>5. Discharged(s, row, D)
  BY <1>4, DischargeIs
<1>6. row.rev \in DOMAIN decls[s]
  BY <1>4, DeclaredRow DEF Fresh
<1>7. sub = LastOf(Submits(ms)) /\ ms[sub] = row /\ sub \in 1..Len(moves[s]) + 1
  BY <1>1, <1>2, <1>3, <1>4
<1> QED
  BY <1>5, <1>6, <1>7

\* A move that its command allows fits, keeps the invariant, and is timely.
LEMMA MoveAppended ==
    ASSUME ReleaseInv, NEW s \in Declared, NEW l \in Leads, l = EffectiveOwner,
           NEW cmd, NEW pinned \in Snapshots \cup {None}, NEW proof,
           NEW to \in States, <<StateOf(s), cmd, to>> \in Edges,
           NEW m, m = Moved(s, l, cmd, pinned, proof),
           \A t \in Scopes : moves'[t] = IF t = s THEN Append(moves[s], m) ELSE moves[t],
           m \in MoveRow => moves' \in [Scopes -> Seq(MoveRow)],
           bound' \in [Scopes -> Nat],
           UNCHANGED <<custodyVars, handbackVars, decls, reviews, rolloutVars, settlementVars>>,
           cmd # "task-cancel" => Last(decls[s]).brief = brief,
           pinned # None <=> cmd = "submit-for-review",
           cmd = "submit-for-review" =>
              /\ CandidateOf(pinned) # None /\ Latest(s).seat \in {None, CandidateOf(pinned).seat}
              /\ ~Overlaps(s, Latest(s)),
           cmd \in GatedCommands =>
              Fresh(s, ActiveRound(s)) /\ proof = Discharge(s, ActiveRound(s)) /\ proof # None,
           cmd \notin GatedCommands => proof = {}
    PROVE  ReleaseInv' /\ Grown /\ ScopeRowsTimely
<1>1. Typed /\ CustodyFits /\ ScopesFit
  BY InvCustody DEF ReleaseInv
<1>2. /\ moves[s] \in Seq(MoveRow) /\ Len(moves[s]) \in Nat \ {0} /\ DOMAIN moves[s] = 1..Len(moves[s])
      /\ StateOf(s) = moves[s][Len(moves[s])].to /\ StateOf(s) \in States
  BY <1>1, MachineRow
<1>3. /\ s \in Scopes /\ Len(decls[s]) \in DOMAIN decls[s] /\ Len(decls[s]) \in Nat
      /\ Last(decls[s]) = decls[s][Len(decls[s])]
      /\ Latest(s) = Form(s, Len(decls[s])) /\ Latest(s) \in Forms
  BY <1>1, DeclaredRow
<1> PICK e : e = CHOOSE x \in Edges : x[1] = StateOf(s) /\ x[2] = cmd
  OBVIOUS
<1>4. e \in Edges /\ e[1] = StateOf(s) /\ e[2] = cmd /\ e[3] \in States /\ cmd \in Commands
      /\ <<StateOf(s), cmd, e[3]>> \in Edges
  <2>1. \E x \in Edges : x[1] = StateOf(s) /\ x[2] = cmd
    OBVIOUS
  <2>2. e \in Edges /\ e[1] = StateOf(s) /\ e[2] = cmd
    BY <2>1
  <2>3. e = <<e[1], e[2], e[3]>> /\ e[3] \in States /\ e[2] \in Commands
    BY <2>2, EdgeShape
  <2>4. e = <<StateOf(s), cmd, e[3]>>
    BY <2>2, <2>3
  <2>5. QED
    BY <2>2, <2>3, <2>4
<1>5. /\ m.command = cmd /\ m.from = StateOf(s) /\ m.to = e[3] /\ m.rev = Len(decls[s])
      /\ m.brief = brief /\ m.plan = Latest(s).plan /\ m.snap = pinned /\ m.discharged = proof /\ m.by = l
      /\ m = [command |-> cmd, from |-> StateOf(s), to |-> e[3], rev |-> Len(decls[s]), brief |-> brief,
              plan |-> Latest(s).plan, snap |-> pinned, discharged |-> proof, by |-> l]
  BY DEF Moved
<1> PICK pin : pin = ActiveRound(s)
  OBVIOUS
<1>6. cmd \in GatedCommands => proof \subseteq EligibleReviews(s, pin) /\ proof \in SUBSET Nat
  BY <1>1, DischargeIs
<1>7. m \in MoveRow
  <2>1. brief \in Nat
    BY <1>1, CustodyAssumption DEF CustodyFits, CustodyTypeOK
  <2>2. proof \in SUBSET Nat
    BY <1>6
  <2>3. QED
    BY <1>2, <1>3, <1>4, <1>5, <2>1, <2>2 DEF MoveRow
<1>8. moves' \in [Scopes -> Seq(MoveRow)] /\ moves'[s] = Append(moves[s], m)
      /\ \A t \in Scopes : t # s => moves'[t] = moves[t]
  BY <1>3, <1>7
<1> PICK i : i = Len(moves[s]) + 1
  OBVIOUS
<1>9. /\ moves'[s] \in Seq(MoveRow) /\ Len(moves'[s]) = i /\ DOMAIN moves'[s] = 1..i /\ i \in Nat
      /\ DOMAIN moves'[s] \ DOMAIN moves[s] = {i}
      /\ moves'[s][i] = m /\ moves'[s][i - 1] = moves[s][i - 1] /\ i # 1
      /\ Continues(moves[s], moves'[s])
      /\ SubSeq(moves'[s], 1, i) = moves'[s] /\ SubSeq(moves'[s], 1, i - 1) = moves[s]
      /\ Last(moves'[s]) = m
  <2>1. /\ moves'[s] \in Seq(MoveRow) /\ Len(moves'[s]) = i /\ DOMAIN moves'[s] = 1..i
        /\ DOMAIN moves'[s] \ DOMAIN moves[s] = {i} /\ moves'[s][i] = m
        /\ Continues(moves[s], moves'[s]) /\ SubSeq(moves'[s], 1, Len(moves[s])) = moves[s]
        /\ Last(moves'[s]) = m
    BY <1>2, <1>7, <1>8, Appends
  <2>2. SubSeq(moves'[s], 1, i) = moves'[s]
    BY <2>1, SubSeqFull
  <2>3. i - 1 = Len(moves[s]) /\ i # 1 /\ i - 1 \in DOMAIN moves[s]
    BY <1>2
  <2>4. QED
    BY <1>2, <2>1, <2>2, <2>3 DEF Continues
<1>10. UNCHANGED <<open, live, owners, offers, seats, brief, candidates, decls, reviews>>
  BY DEF custodyVars, handbackVars
<1>11. CustodyFits' /\ CustodyGrows
  BY <1>1, <1>10, CustodySame
<1>12. /\ \A t \in Scopes : Continues(decls[t], decls'[t]) /\ Continues(moves[t], moves'[t])
       /\ reviews' \in Seq(ReviewRow) /\ Continues(reviews, reviews')
  BY <1>1, <1>8, <1>9, <1>10, Stays DEF Typed, RolloutTypeOK, ScopeTypeOK
<1>13. ScopeTypeOK'
  BY <1>1, <1>8, <1>10, <1>11 DEF Typed, RolloutTypeOK, ScopeTypeOK, CustodyFits
<1>14. Typed' /\ Grown
  BY <1>11, <1>12, <1>13, ScopeFrame
<1>15. MoveFits(s, i)'
  <2>1. l \in Lineage'
    BY <1>1, <1>10, AgentsKnown DEF Lineage
  <2>2. /\ m.rev \in DOMAIN decls'[s] /\ m.plan = Form(s, m.rev)' .plan
        /\ m.command # "task-cancel" => m.brief = decls'[s][m.rev].brief
    BY <1>3, <1>5, <1>10 DEF Form
  <2>3. m.command = "submit-for-review" =>
          CandidateOf(m.snap)' # None /\ Form(s, m.rev)'.seat \in {None, CandidateOf(m.snap)'.seat}
    BY <1>3, <1>5, <1>10 DEF CandidateOf, Form
  <2>4. ASSUME cmd \in GatedCommands
        PROVE  /\ LastOf(Submits(moves'[s])) \in 1..i
               /\ Discharged(s, moves[s][LastOf(Submits(moves[s]))], m.discharged)'
    <3>1. cmd # "submit-for-review"
      BY <2>4 DEF GatedCommands
    <3> PICK ms : ms = Append(moves[s], m)
      OBVIOUS
    <3> PICK row : row = ms[LastOf(Submits(ms))]
      OBVIOUS
    <3>2. LastOf(Submits(ms)) \in 1..i /\ row.rev \in DOMAIN decls[s] /\ Discharged(s, row, m.discharged)
      BY <1>1, <1>5, <1>7, <2>4, <3>1, GatedRow
    <3> PICK D : D = m.discharged
      OBVIOUS
    <3>3. Discharged(s, row, D)'
      BY <1>1, <1>3, <1>14, <3>2, DischargeStays
    <3>4. row = moves'[s][LastOf(Submits(moves'[s]))] /\ LastOf(Submits(moves'[s])) \in 1..i
      BY <1>8, <3>2
    <3>5. QED
      BY <3>3, <3>4 DEF Discharged
  <2>5. m.snap # None <=> m.command = "submit-for-review"
    BY <1>5
  <2>6. m.from = moves'[s][i - 1].to /\ <<m.from, m.command, m.to>> \in Edges
    <3>1. moves[s][i - 1].to = StateOf(s)
      BY <1>2
    <3>2. QED
      BY <1>4, <1>5, <1>9, <3>1
  <2>7. QED
    BY <1>5, <1>9, <2>1, <2>2, <2>3, <2>4, <2>5, <2>6 DEF MoveFits
<1>16. ScopesFit'
  <2>1. \A t \in Scopes : decls'[t] = <<>> <=> moves'[t] = <<>>
    <3>1. moves'[s] # <<>> /\ decls[s] # <<>>
      BY <1>9, EmptySeq DEF Declared
    <3>2. QED
      BY <1>1, <1>8, <1>10, <3>1 DEF ScopesFit
  <2>2. \A t \in Scopes : \A k \in DOMAIN moves'[t] \ DOMAIN moves[t] : MoveFits(t, k)'
    BY <1>8, <1>9, <1>15
  <2>3. QED
    BY <1>10, <1>14, <2>1, <2>2, ScopesKept
<1>17. GraphFits'
  BY <1>10 DEF ReleaseInv, GraphFits, Declared, Latest
<1>18. SurfacesRead'
  <2>1. \A t \in Scopes : Latest(t)' = Latest(t) /\ (t # s => (t \in Moving' <=> t \in Moving))
    BY <1>8, <1>10 DEF Latest, Moving, Declared, StateOf
  <2>2. ASSUME s \in Moving', s \notin Moving, open
        PROVE  \A t \in Moving \ {s} : Latest(s)'.paths \cap Latest(t).paths = {}
    <3>1. Latest(s).writer # None /\ StateOf(s) \in {"advanced", "closed"} /\ e[3] \notin {"advanced", "closed"}
      BY <1>5, <1>9, <1>10, <2>2 DEF Moving, Declared, Latest, StateOf
    <3>2. cmd = "submit-for-review"
      BY <1>4, <3>1, EdgeShape
    <3>3. QED
      BY <2>1, <2>2, <3>1, <3>2, <1>3 DEF Overlaps
  <2>3. QED
    BY <1>3, <1>10, <2>1, <2>2, SurfacesStay DEF ReleaseInv
<1>19. ReleaseInv'
  BY <1>11, <1>12, <1>13, <1>16, <1>17, <1>18, ScopeFrame
<1>20. MoveTimely(s, i)
  <2>1. m.command \in GatedCommands =>
          /\ RoundIn(SubSeq(moves'[s], 1, i - 1)) = pin /\ pin # None
          /\ pin.rev = m.rev /\ pin.brief = brief /\ pin.plan = m.plan
    BY <1>5, <1>9 DEF Fresh, ActiveRound
  <2>2. m.command = "approve" => ApprovalTimely(s, i)
    BY <1>5, <1>6, <1>9 DEF ApprovalTimely, GatedCommands, EligibleReviews, ReviewExclusions
  <2>3. QED
    BY <1>3, <1>5, <1>9, <1>10, <2>1, <2>2 DEF MoveTimely
<1>21. ScopeRowsTimely
  BY <1>8, <1>9, <1>10, <1>20 DEF ScopeRowsTimely, DeclarationTimely
<1> QED
  BY <1>14, <1>19, <1>21

\* The commands that append a move and nothing else.
MoveKeeps(l, s, cmd, pinned, proof) ==
    /\ moves' = [moves EXCEPT ![s] = Append(@, Moved(s, l, cmd, pinned, proof))]
    /\ UNCHANGED <<custodyVars, handbackVars, decls, reviews, rolloutVars, settlementVars>>
    /\ bound' \in [Scopes -> Nat]

\* Who commands an open assignment is its live owner.
LEMMA OwnerActs == ASSUME NEW l, OwnsOpen(l) PROVE l = EffectiveOwner /\ open /\ l \in Leads
  BY DEF OwnsOpen, Owner

\* What a command that only appends a move does to the moves.
LEMMA MovePut ==
    ASSUME ReleaseInv, NEW s \in Scopes, NEW l, NEW cmd, NEW pinned, NEW proof, MoveKeeps(l, s, cmd, pinned, proof),
           NEW m, m = Moved(s, l, cmd, pinned, proof)
    PROVE  /\ \A t \in Scopes : moves'[t] = IF t = s THEN Append(moves[s], m) ELSE moves[t]
           /\ m \in MoveRow => moves' \in [Scopes -> Seq(MoveRow)]
<1>1. moves \in [Scopes -> Seq(MoveRow)]
  BY DEF ReleaseInv, Typed, RolloutTypeOK, ScopeTypeOK
<1>2. moves' = [moves EXCEPT ![s] = Append(moves[s], m)]
  BY DEF MoveKeeps
<1>3. m \in MoveRow => Append(moves[s], m) \in Seq(MoveRow)
  BY <1>1, Appends
<1> QED
  BY <1>1, <1>2, <1>3

\* What every move of a scope has checked.
LEMMA MayMoveGives ==
    ASSUME NEW l, NEW s, NEW cmd, MayMove(l, s, cmd)
    PROVE  /\ l = EffectiveOwner /\ open /\ l \in Leads /\ s \in Declared /\ s \in Scopes
           /\ Last(decls[s]).brief = brief
           /\ \E to \in States : <<StateOf(s), cmd, to>> \in Edges
  BY OwnerActs DEF MayMove, Declared

\* A move that carries no gate.
LEMMA MoveStep ==
    ASSUME ReleaseInv, NEW l, NEW s, NEW cmd, Move(l, s, cmd), UNCHANGED <<rolloutVars, settlementVars>>
    PROVE  ReleaseInv' /\ Grown /\ ScopeRowsTimely
<1>1. MayMove(l, s, cmd) /\ cmd \notin GatedCommands /\ cmd # "submit-for-review"
  BY DEF Move
<1>2. PICK to \in States : <<StateOf(s), cmd, to>> \in Edges
  BY <1>1, MayMoveGives
<1>3. MoveKeeps(l, s, cmd, None, {})
  BY DEF Move, MoveKeeps, ReleaseInv, Typed, RolloutTypeOK, ScopeTypeOK
<1> PICK m : m = Moved(s, l, cmd, None, {})
  OBVIOUS
<1>4. /\ \A t \in Scopes : moves'[t] = IF t = s THEN Append(moves[s], m) ELSE moves[t]
      /\ m \in MoveRow => moves' \in [Scopes -> Seq(MoveRow)]
  BY <1>1, <1>3, MayMoveGives, MovePut
<1> QED
  BY <1>1, <1>2, <1>3, <1>4, MayMoveGives, MoveAppended DEF MoveKeeps

\* A submission pins a candidate, and its surfaces are compared again.
LEMMA SubmitStep ==
    ASSUME ReleaseInv, NEW l, NEW s, NEW c, Submit(l, s, c), UNCHANGED <<rolloutVars, settlementVars>>
    PROVE  ReleaseInv' /\ Grown /\ ScopeRowsTimely
<1> PICK cmd : cmd = "submit-for-review"
  OBVIOUS
<1>1. /\ MayMove(l, s, cmd) /\ CandidateOf(c) # None /\ Latest(s).seat \in {None, CandidateOf(c).seat}
      /\ ~Overlaps(s, Latest(s))
  BY DEF Submit
<1>2. PICK to \in States : <<StateOf(s), cmd, to>> \in Edges
  BY <1>1, MayMoveGives
<1>3. MoveKeeps(l, s, cmd, c, {})
  BY DEF Submit, MoveKeeps, ReleaseInv, Typed, RolloutTypeOK, ScopeTypeOK
<1> PICK m : m = Moved(s, l, cmd, c, {})
  OBVIOUS
<1>4. /\ \A t \in Scopes : moves'[t] = IF t = s THEN Append(moves[s], m) ELSE moves[t]
      /\ m \in MoveRow => moves' \in [Scopes -> Seq(MoveRow)]
  BY <1>1, <1>3, MayMoveGives, MovePut
<1>5. c \in Snapshots /\ c # None
  BY <1>1, CandidateKnown DEF ReleaseInv
<1>6. cmd \notin GatedCommands
  BY DEF GatedCommands
<1> QED
  BY <1>1, <1>2, <1>3, <1>4, <1>5, <1>6, MayMoveGives, MoveAppended DEF MoveKeeps

\* A move that carries a gate takes its evidence with it.
LEMMA MoveGatedStep ==
    ASSUME ReleaseInv, NEW l, NEW s, NEW cmd, MoveGated(l, s, cmd), UNCHANGED <<rolloutVars, settlementVars>>
    PROVE  ReleaseInv' /\ Grown /\ ScopeRowsTimely
<1> PICK D : D = Discharge(s, ActiveRound(s))
  OBVIOUS
<1>1. MayMove(l, s, cmd) /\ cmd \in GatedCommands /\ Fresh(s, ActiveRound(s)) /\ D # None
  BY DEF MoveGated
<1>2. PICK to \in States : <<StateOf(s), cmd, to>> \in Edges
  BY <1>1, MayMoveGives
<1>3. MoveKeeps(l, s, cmd, None, D)
  BY DEF MoveGated, MoveKeeps, ReleaseInv, Typed, RolloutTypeOK, ScopeTypeOK
<1> PICK m : m = Moved(s, l, cmd, None, D)
  OBVIOUS
<1>4. /\ \A t \in Scopes : moves'[t] = IF t = s THEN Append(moves[s], m) ELSE moves[t]
      /\ m \in MoveRow => moves' \in [Scopes -> Seq(MoveRow)]
  BY <1>1, <1>3, MayMoveGives, MovePut
<1>5. cmd # "submit-for-review"
  BY <1>1 DEF GatedCommands
<1> QED
  BY <1>1, <1>2, <1>3, <1>4, <1>5, MayMoveGives, MoveAppended DEF MoveKeeps

\* A scope that its attempt bound is closed with the attempt.
LEMMA TaskCancelStep ==
    ASSUME ReleaseInv, NEW l, NEW s \in Scopes, TaskCancel(l, s), UNCHANGED <<rolloutVars, settlementVars>>
    PROVE  ReleaseInv' /\ Grown /\ ScopeRowsTimely
<1> PICK cmd : cmd = "task-cancel"
  OBVIOUS
<1>1. OwnsOpen(l) /\ bound[s] > 0 /\ bound[s] = Len(decls[s]) /\ StateOf(s) # "closed"
  BY DEF TaskCancel
<1>2. s \in Declared
  <2>1. decls[s] # <<>>
    BY <1>1, EmptySeq
  <2>2. QED
    BY <2>1 DEF Declared
<1>3. StateOf(s) \in States
  BY <1>2, MachineRow DEF ReleaseInv
<1>4. <<StateOf(s), cmd, "closed">> \in Edges /\ "closed" \in States
  BY <1>1, <1>3 DEF Edges, States
<1>5. MoveKeeps(l, s, cmd, None, {})
  BY DEF TaskCancel, MoveKeeps, ReleaseInv, Typed, RolloutTypeOK, ScopeTypeOK
<1> PICK m : m = Moved(s, l, cmd, None, {})
  OBVIOUS
<1>6. /\ \A t \in Scopes : moves'[t] = IF t = s THEN Append(moves[s], m) ELSE moves[t]
      /\ m \in MoveRow => moves' \in [Scopes -> Seq(MoveRow)]
  BY <1>5, MovePut
<1>7. cmd \notin GatedCommands /\ cmd # "submit-for-review"
  BY DEF GatedCommands
<1> QED
  BY <1>1, <1>2, <1>4, <1>5, <1>6, <1>7, OwnerActs, MoveAppended DEF MoveKeeps

\* The rows that open a machine fit.
LEMMA OpeningFits ==
    ASSUME NEW s, NEW l, l = EffectiveOwner, l \in Lineage', NEW f,
           1 \in DOMAIN decls'[s], Len(decls'[s]) = 1, decls'[s][1].form = f, decls'[s][1].brief = brief,
           NEW m, m = moves'[s][1],
           m.by = l, m.rev = 1, m.brief = brief, m.plan = f.plan, m.snap = None, m.discharged = {},
           m.command = "declare", m.from = None, m.to = "declared"
    PROVE  MoveFits(s, 1)' /\ MoveTimely(s, 1)
<1>1. m.command \notin GatedCommands /\ m.command # "submit-for-review" /\ m.command # "task-cancel"
  BY DEF GatedCommands
<1>2. Form(s, 1)' = f
  BY DEF Form
<1>3. MoveFits(s, 1)'
  BY <1>1, <1>2 DEF MoveFits
<1>4. Last(decls'[s]).brief = brief
  BY DEF Last
<1>5. MoveTimely(s, 1)
  BY <1>1, <1>4 DEF MoveTimely
<1> QED
  BY <1>3, <1>5

\* The claim that a bound scope opens with.
LEMMA ClaimFits ==
    ASSUME NEW s, NEW l, l = EffectiveOwner, l \in Lineage', NEW f,
           1 \in DOMAIN decls'[s], Len(decls'[s]) = 1, decls'[s][1].form = f, decls'[s][1].brief = brief,
           NEW m, m = moves'[s][2], moves'[s][1].to = "declared",
           m.by = l, m.rev = 1, m.brief = brief, m.plan = f.plan, m.snap = None, m.discharged = {},
           m.command = "claim", m.from = "declared", m.to = "claimed"
    PROVE  MoveFits(s, 2)' /\ MoveTimely(s, 2)
<1>1. m.command \notin GatedCommands /\ m.command # "submit-for-review" /\ m.command # "task-cancel"
  BY DEF GatedCommands
<1>2. Form(s, 1)' = f
  BY DEF Form
<1>3. m.from = moves'[s][2 - 1].to /\ <<m.from, m.command, m.to>> \in Edges
  BY DEF Edges
<1>4. MoveFits(s, 2)'
  BY <1>1, <1>2, <1>3 DEF MoveFits
<1>5. Last(decls'[s]).brief = brief
  BY DEF Last
<1>6. MoveTimely(s, 2)
  BY <1>1, <1>5 DEF MoveTimely
<1> QED
  BY <1>4, <1>6

\* A part of a relation without cycles has none.
LEMMA AcyclicPart == ASSUME NEW R, NEW Q, Q \subseteq R, Acyclic(R) PROVE Acyclic(Q)
  BY DEF Acyclic

\* A declaration of s as f, with the rows that open its machine if it is the first.
Declaring(l, s, f, d) ==
    /\ l = EffectiveOwner /\ d \in DeclarationRow /\ d.form = f /\ d.by = l /\ d.brief = brief
    /\ \A t \in Scopes : decls'[t] = IF t = s THEN Append(decls[s], d) ELSE decls[t]
    /\ decls' \in [Scopes -> Seq(DeclarationRow)]
    /\ moves' \in [Scopes -> Seq(MoveRow)] /\ bound' \in [Scopes -> Nat]
    /\ \A t \in Scopes : t # s \/ decls[s] # <<>> => moves'[t] = moves[t]
    /\ decls[s] = <<>> =>
         moves'[s] # <<>> /\ \A i \in DOMAIN moves'[s] : MoveFits(s, i)' /\ MoveTimely(s, i)
    /\ CustodyFits' /\ CustodyGrows
    /\ UNCHANGED <<open, owners, brief, candidates, reviews, rolloutVars, settlementVars>>
    /\ f.seat \in seats' \cup {None}
    /\ f.writer # None => f.writer \in seats' \cup {l} /\ DependenciesGood(s, f) /\ ~Overlaps(s, f)

\* A declaration whose writer and dependencies are valid keeps the graph and the surfaces.
LEMMA Declares ==
    ASSUME ReleaseInv, NEW s \in Scopes, NEW l \in Leads, NEW f \in FormsOf[s], NEW d, Declaring(l, s, f, d)
    PROVE  ReleaseInv' /\ Grown /\ ScopeRowsTimely
<1> USE DEF Declaring
<1>1. Typed /\ CustodyFits /\ ScopesFit
  BY InvCustody DEF ReleaseInv
<1>2. f \in Forms /\ d.form = f /\ d.by = l /\ d.brief = brief
  BY DEF Forms
<1>3. d \in DeclarationRow
  OBVIOUS
<1>4. /\ decls \in [Scopes -> Seq(DeclarationRow)] /\ moves \in [Scopes -> Seq(MoveRow)]
      /\ reviews \in Seq(ReviewRow)
  BY <1>1 DEF Typed, RolloutTypeOK, ScopeTypeOK
<1> PICK n : n = Len(decls[s]) + 1
  OBVIOUS
<1>5. /\ decls'[s] \in Seq(DeclarationRow) /\ Len(decls'[s]) = n /\ n \in DOMAIN decls'[s]
      /\ DOMAIN decls'[s] \ DOMAIN decls[s] = {n}
      /\ decls'[s][n] = d /\ Continues(decls[s], decls'[s]) /\ Last(decls'[s]) = d /\ decls'[s] # <<>>
  <2>1. decls'[s] = Append(decls[s], d) /\ decls[s] \in Seq(DeclarationRow)
    BY <1>4
  <2>2. /\ decls'[s] \in Seq(DeclarationRow) /\ Len(decls'[s]) = n /\ DOMAIN decls'[s] = 1..n /\ n - 1 \in Nat
        /\ DOMAIN decls'[s] \ DOMAIN decls[s] = {n}
        /\ decls'[s][n] = d /\ Continues(decls[s], decls'[s]) /\ Last(decls'[s]) = d
    BY <1>3, <2>1, Appends
  <2>3. decls'[s] # <<>>
    BY <2>2, EmptySeq
  <2>4. QED
    BY <2>2, <2>3
<1>6. \A t \in Scopes : Continues(decls[t], decls'[t]) /\ Continues(moves[t], moves'[t])
  <2>1. ASSUME NEW t \in Scopes PROVE Continues(decls[t], decls'[t])
    BY <1>4, <1>5, Stays
  <2>2. ASSUME NEW t \in Scopes PROVE Continues(moves[t], moves'[t])
    <3>1. CASE t # s \/ decls[s] # <<>>
      BY <3>1, <1>4, Stays
    <3>2. CASE t = s /\ decls[s] = <<>>
      <4>1. moves[s] = <<>> /\ moves'[s] \in Seq(MoveRow)
        BY <1>1, <3>2 DEF ScopesFit
      <4>2. Len(moves'[s]) \in Nat /\ Len(moves[s]) = 0 /\ DOMAIN moves[s] = {}
        BY <4>1, LenProperties, EmptySeq
      <4>3. QED
        BY <3>2, <4>2 DEF Continues
    <3>3. QED
      BY <3>1, <3>2
  <2>3. QED
    BY <2>1, <2>2
<1>7. Continues(reviews, reviews') /\ reviews' \in Seq(ReviewRow)
  BY <1>4, Stays
<1>8. ScopeTypeOK'
  BY <1>3, <1>7 DEF ScopeTypeOK, CustodyFits
<1>9. Typed' /\ Grown
  BY <1>6, <1>7, <1>8, ScopeFrame
<1>10. /\ \A t \in Scopes : t # s => decls'[t] = decls[t] /\ Latest(t)' = Latest(t) /\ (t \in Declared' <=> t \in Declared)
       /\ s \in Declared' /\ Latest(s)' = f /\ Declared \subseteq Declared' /\ Declared' \subseteq Scopes
  BY <1>2, <1>5 DEF Declared, Latest
<1>11. DeclarationFits(s, n)'
  <2>1. l \in Lineage'
    BY <1>1, AgentsKnown DEF Lineage
  <2>2. f.deps \subseteq Declared' \ {s}
    <3>1. CASE f.writer # None
      BY <1>10, <3>1 DEF DependenciesGood
    <3>2. CASE f.writer = None
      BY <1>2, <3>2, ScopeAssumption
    <3>3. QED
      BY <3>1, <3>2
  <2>3. QED
    BY <1>2, <1>5, <2>1, <2>2 DEF DeclarationFits
<1>12. ScopesFit'
  <2>1. \A t \in Scopes : decls'[t] = <<>> <=> moves'[t] = <<>>
    BY <1>1, <1>5, <1>10 DEF ScopesFit
  <2>2. \A t \in Scopes : \A i \in DOMAIN decls'[t] \ DOMAIN decls[t] : DeclarationFits(t, i)'
    BY <1>5, <1>10, <1>11
  <2>3. \A t \in Scopes : \A i \in DOMAIN moves'[t] \ DOMAIN moves[t] : MoveFits(t, i)'
    OBVIOUS
  <2>4. QED
    BY <1>9, <2>1, <2>2, <2>3, ScopesKept
<1>13. GraphFits'
  <2> DEFINE G == {e \in Declared' \X Declared' : e[2] \in Latest(e[1])'.deps}
  <2>1. CASE f.writer # None
    <3>1. G \subseteq Depends(s, f)
      BY <1>10 DEF Depends
    <3>2. Acyclic(Depends(s, f))
      BY <2>1 DEF DependenciesGood
    <3>3. Acyclic(G)
      BY <3>1, <3>2, AcyclicPart
    <3>4. QED
      BY <3>3 DEF GraphFits
  <2>2. CASE f.writer = None
    <3> DEFINE H == {e \in Declared \X Declared : e[2] \in Latest(e[1]).deps}
    <3>1. f.deps = {}
      BY <1>2, <2>2, ScopeAssumption
    <3>2. ASSUME NEW t \in Declared PROVE Latest(t).deps \subseteq Declared
      <4>1. Len(decls[t]) \in DOMAIN decls[t] /\ Latest(t) = Form(t, Len(decls[t])) /\ t \in Scopes
        BY <1>1, DeclaredRow
      <4>2. DeclarationFits(t, Len(decls[t]))
        BY <1>1, <4>1 DEF ScopesFit
      <4>3. QED
        BY <4>1, <4>2 DEF DeclarationFits, Form
    <3>3. G \subseteq H
      BY <1>10, <3>1, <3>2
    <3>4. Acyclic(H)
      BY DEF ReleaseInv, GraphFits
    <3>5. Acyclic(G)
      BY <3>3, <3>4, AcyclicPart
    <3>6. QED
      BY <3>5 DEF GraphFits
  <2>3. QED
    BY <2>1, <2>2
<1>14. SurfacesRead'
  <2>1. \A t \in Scopes : t # s /\ t \in Moving' => t \in Moving /\ Latest(t)' = Latest(t)
    BY <1>10 DEF Moving, StateOf
  <2>2. s \in Moving' /\ open' => \A t \in Moving \ {s} : Latest(s)'.paths \cap Latest(t).paths = {}
    BY <1>10 DEF Moving, Overlaps
  <2>3. QED
    BY <2>1, <2>2, SurfacesStay DEF ReleaseInv
<1>15. ReleaseInv'
  BY <1>6, <1>7, <1>8, <1>12, <1>13, <1>14, ScopeFrame
<1>16. ScopeRowsTimely
  <2>1. \A t \in Scopes : DeclarationTimely(t)
    BY <1>2, <1>5, <1>10 DEF DeclarationTimely
  <2>2. \A t \in Scopes : \A i \in DOMAIN moves'[t] \ DOMAIN moves[t] : MoveTimely(t, i)
    OBVIOUS
  <2>3. QED
    BY <2>1, <2>2 DEF ScopeRowsTimely
<1> QED
  BY <1>9, <1>15, <1>16

\* A sequence of one row.
LEMMA OneRow ==
    ASSUME NEW S, NEW d \in S
    PROVE Append(<<>>, d) = <<d>> /\ <<d>> \in Seq(S) /\ Len(<<d>>) = 1 /\ DOMAIN <<d>> = {1}
  OBVIOUS

\* A declaration, first or amended.
LEMMA DeclareStep ==
    ASSUME ReleaseInv, NEW l \in Leads, NEW s \in Scopes, NEW f \in FormsOf[s], Declare(l, s, f),
           UNCHANGED <<rolloutVars, settlementVars>>
    PROVE  ReleaseInv' /\ Grown /\ ScopeRowsTimely
<1> PICK d : d = [form |-> f, by |-> l, brief |-> brief]
  OBVIOUS
<1> PICK m : m = OpeningMove(l, f)
  OBVIOUS
<1>1. /\ l = EffectiveOwner /\ open /\ ValidOwnership(s, f) /\ f.seat \in seats \cup {None}
      /\ decls' = [decls EXCEPT ![s] = Append(decls[s], d)]
      /\ moves' = IF decls[s] = <<>> THEN [moves EXCEPT ![s] = <<m>>] ELSE moves
      /\ UNCHANGED <<custodyVars, handbackVars, reviews, bound>>
  BY OwnerActs DEF Declare
<1>2. UNCHANGED <<open, live, seats, owners, offers, brief, candidates>>
  BY <1>1 DEF custodyVars, handbackVars
<1>3. /\ decls \in [Scopes -> Seq(DeclarationRow)] /\ moves \in [Scopes -> Seq(MoveRow)]
      /\ bound' \in [Scopes -> Nat] /\ CustodyFits
  BY <1>1, InvCustody DEF ReleaseInv, Typed, RolloutTypeOK, ScopeTypeOK
<1>4. f \in Forms /\ brief \in Nat
  BY <1>3, CustodyAssumption DEF Forms, CustodyFits, CustodyTypeOK
<1>5. d \in DeclarationRow /\ d.form = f /\ d.by = l /\ d.brief = brief
  BY <1>4 DEF DeclarationRow
<1>6. /\ m \in MoveRow /\ m.by = l /\ m.rev = 1 /\ m.brief = brief /\ m.plan = f.plan /\ m.snap = None
      /\ m.discharged = {} /\ m.command = "declare" /\ m.from = None /\ m.to = "declared"
  BY <1>4 DEF OpeningMove, MoveRow, States
<1>7. CustodyFits' /\ CustodyGrows
  BY <1>1, <1>2, <1>3, CustodySame
<1>8. /\ \A t \in Scopes : decls'[t] = IF t = s THEN Append(decls[s], d) ELSE decls[t]
      /\ decls' \in [Scopes -> Seq(DeclarationRow)]
  <2>1. Append(decls[s], d) \in Seq(DeclarationRow)
    BY <1>3, <1>5, Appends
  <2>2. QED
    BY <1>1, <1>3, <2>1
<1>9. <<m>> \in Seq(MoveRow) /\ DOMAIN <<m>> = {1} /\ <<m>>[1] = m /\ <<m>> # <<>>
  BY <1>6
<1>10. moves' \in [Scopes -> Seq(MoveRow)] /\ \A t \in Scopes : t # s \/ decls[s] # <<>> => moves'[t] = moves[t]
  BY <1>1, <1>3, <1>9
<1>11. ASSUME decls[s] = <<>>
       PROVE  moves'[s] # <<>> /\ \A i \in DOMAIN moves'[s] : MoveFits(s, i)' /\ MoveTimely(s, i)
  <2>1. moves'[s] = <<m>> /\ decls'[s] = <<d>>
    BY <1>1, <1>3, <1>8, <1>11
  <2>2. 1 \in DOMAIN decls'[s] /\ Len(decls'[s]) = 1 /\ decls'[s][1].form = f /\ decls'[s][1].brief = brief
    BY <1>5, <2>1
  <2>3. l \in Lineage'
    BY <1>1, <1>2, <1>3, AgentsKnown DEF Lineage
  <2>4. m = moves'[s][1]
    BY <2>1, <1>9
  <2>5. MoveFits(s, 1)' /\ MoveTimely(s, 1)
    BY <1>1, <1>6, <2>2, <2>3, <2>4, OpeningFits
  <2>6. QED
    BY <1>9, <2>1, <2>5
<1>12. f.seat \in seats' \cup {None}
       /\ (f.writer # None => f.writer \in seats' \cup {l} /\ DependenciesGood(s, f) /\ ~Overlaps(s, f))
  BY <1>1, <1>2 DEF ValidOwnership, CurrentLiveSeat
<1>13. UNCHANGED <<open, owners, brief, candidates, reviews, rolloutVars, settlementVars>>
  BY <1>1, <1>2
<1>14. decls[s] = <<>> =>
          moves'[s] # <<>> /\ \A i \in DOMAIN moves'[s] : MoveFits(s, i)' /\ MoveTimely(s, i)
  BY <1>11
<1>15. l = EffectiveOwner
  BY <1>1
<1>16. Declaring(l, s, f, d)
  BY <1>3, <1>5, <1>7, <1>8, <1>10, <1>12, <1>13, <1>14, <1>15 DEF Declaring
<1> QED
  BY <1>16, Declares

\* An attempt attaches its worker and declares and claims its scope.
LEMMA BindTaskStep ==
    ASSUME ReleaseInv, NEW l \in Leads, NEW s \in Scopes, NEW f \in FormsOf[s], NEW a \in Agents,
           BindTask(l, s, f, a), UNCHANGED <<rolloutVars, settlementVars>>
    PROVE  ReleaseInv' /\ Grown /\ ScopeRowsTimely
<1> PICK d : d = [form |-> f, by |-> l, brief |-> brief]
  OBVIOUS
<1> PICK m : m = OpeningMove(l, f)
  OBVIOUS
<1> PICK n : n = [m EXCEPT !.command = "claim", !.from = "declared", !.to = "claimed"]
  OBVIOUS
<1>1. /\ l = EffectiveOwner /\ open /\ decls[s] = <<>> /\ f.seat = a /\ f.writer \in {a, None}
      /\ (f.writer = a => DependenciesGood(s, f) /\ ~Overlaps(s, f))
      /\ seats' = seats \cup {a}
      /\ decls' = [decls EXCEPT ![s] = <<d>>]
      /\ moves' = [moves EXCEPT ![s] = <<m, n>>]
      /\ bound' = [bound EXCEPT ![s] = 1]
      /\ UNCHANGED <<open, live, owners, offers, brief, handbackVars, reviews>>
  BY OwnerActs DEF BindTask
<1>2. UNCHANGED candidates
  BY <1>1 DEF handbackVars
<1>3. /\ decls \in [Scopes -> Seq(DeclarationRow)] /\ moves \in [Scopes -> Seq(MoveRow)]
      /\ bound' \in [Scopes -> Nat] /\ CustodyFits
  BY <1>1, InvCustody DEF ReleaseInv, Typed, RolloutTypeOK, ScopeTypeOK
<1>4. f \in Forms /\ brief \in Nat
  BY <1>3, CustodyAssumption DEF Forms, CustodyFits, CustodyTypeOK
<1>5. d \in DeclarationRow /\ d.form = f /\ d.by = l /\ d.brief = brief
  BY <1>4 DEF DeclarationRow
<1>6. /\ m \in MoveRow /\ m.by = l /\ m.rev = 1 /\ m.brief = brief /\ m.plan = f.plan /\ m.snap = None
      /\ m.discharged = {} /\ m.command = "declare" /\ m.from = None /\ m.to = "declared"
      /\ n.by = l /\ n.rev = 1 /\ n.brief = brief /\ n.plan = f.plan /\ n.snap = None
      /\ n.discharged = {} /\ n.command = "claim" /\ n.from = "declared" /\ n.to = "claimed"
  BY <1>4 DEF OpeningMove, MoveRow, States
<1>7. n \in MoveRow
  <2>1. <<"declared", "claim", "claimed">> \in Edges
    BY DEF Edges
  <2>2. "claim" \in Commands
    BY <2>1, EdgeShape DEF Commands
  <2>3. n = [command |-> "claim", from |-> "declared", to |-> "claimed", rev |-> 1, brief |-> brief,
             plan |-> f.plan, snap |-> None, discharged |-> {}, by |-> l]
    BY DEF OpeningMove
  <2>4. QED
    BY <1>4, <1>6, <2>1, <2>2, <2>3 DEF MoveRow, States
<1>8. CustodyFits' /\ CustodyGrows
  BY <1>1, <1>3, CustodySame
<1>9. /\ \A t \in Scopes : decls'[t] = IF t = s THEN Append(decls[s], d) ELSE decls[t]
      /\ decls' \in [Scopes -> Seq(DeclarationRow)]
  <2>1. Append(decls[s], d) = <<d>> /\ <<d>> \in Seq(DeclarationRow)
    BY <1>1, <1>5
  <2>2. QED
    BY <1>1, <1>3, <2>1
<1>10. <<m, n>> \in Seq(MoveRow) /\ DOMAIN <<m, n>> = {1, 2} /\ <<m, n>>[1] = m /\ <<m, n>>[2] = n /\ <<m, n>> # <<>>
  BY <1>6, <1>7
<1>11. moves' \in [Scopes -> Seq(MoveRow)] /\ (\A t \in Scopes : t # s \/ decls[s] # <<>> => moves'[t] = moves[t])
       /\ moves'[s] = <<m, n>>
  BY <1>1, <1>3, <1>10
<1>12. moves'[s] # <<>> /\ \A i \in DOMAIN moves'[s] : MoveFits(s, i)' /\ MoveTimely(s, i)
  <2>1. decls'[s] = <<d>>
    BY <1>1, <1>3
  <2>2. 1 \in DOMAIN decls'[s] /\ Len(decls'[s]) = 1 /\ decls'[s][1].form = f /\ decls'[s][1].brief = brief
    BY <1>5, <2>1
  <2>3. l \in Lineage'
    BY <1>1, <1>3, AgentsKnown DEF Lineage
  <2>4. m = moves'[s][1] /\ n = moves'[s][2]
    BY <1>10, <1>11
  <2>5. MoveFits(s, 1)' /\ MoveTimely(s, 1)
    BY <1>1, <1>6, <2>2, <2>3, <2>4, OpeningFits
  <2>6. MoveFits(s, 2)' /\ MoveTimely(s, 2)
    <3>1. l = EffectiveOwner /\ moves'[s][1].to = "declared"
      BY <1>1, <1>6, <2>4
    <3>2. /\ n = moves'[s][2] /\ n.by = l /\ n.rev = 1 /\ n.brief = brief /\ n.plan = f.plan
          /\ n.snap = None /\ n.discharged = {}
      BY <1>6, <2>4
    <3>3. n.command = "claim" /\ n.from = "declared" /\ n.to = "claimed"
      BY <1>6
    <3>4. QED
      BY ONLY <2>2, <2>3, <3>1, <3>2, <3>3, ClaimFits
  <2>7. QED
    BY <1>10, <1>11, <2>5, <2>6
<1>13. f.seat \in seats' \cup {None}
       /\ (f.writer # None => f.writer \in seats' \cup {l} /\ DependenciesGood(s, f) /\ ~Overlaps(s, f))
  BY <1>1
<1>14. UNCHANGED <<open, owners, brief, candidates, reviews, rolloutVars, settlementVars>>
  BY <1>1, <1>2
<1>15. l = EffectiveOwner
  BY <1>1
<1>16. Declaring(l, s, f, d)
  BY <1>3, <1>5, <1>8, <1>9, <1>11, <1>12, <1>13, <1>14, <1>15 DEF Declaring
<1> QED
  BY <1>16, Declares

\* An observation is of the round that is open, by an independent seat.
LEMMA ReviewStep ==
    ASSUME ReleaseInv, NEW a \in Agents, NEW s \in Declared, NEW x, Review(a, s, x),
           UNCHANGED <<rolloutVars, settlementVars>>
    PROVE  ReleaseInv' /\ Grown /\ ScopeRowsTimely
<1> PICK pin : pin = ActiveRound(s)
  OBVIOUS
<1> PICK r : r = [scope |-> s, lens |-> x, by |-> a, rev |-> Len(decls[s]), brief |-> brief,
                  plan |-> Latest(s).plan, snap |-> pin.snap]
  OBVIOUS
<1>1. /\ a \in seats /\ a # EffectiveOwner /\ a \notin {Latest(s).seat, Latest(s).writer}
      /\ Fresh(s, pin) /\ x \in Latest(s).plan
      /\ reviews' = Append(reviews, r)
      /\ UNCHANGED <<custodyVars, handbackVars, decls, moves, bound>>
  BY DEF Review
<1>2. UNCHANGED <<open, live, seats, owners, offers, brief, candidates>>
  BY <1>1 DEF custodyVars, handbackVars
<1>3. Typed /\ CustodyFits /\ ScopesFit
  BY InvCustody DEF ReleaseInv
<1>4. /\ s \in Scopes /\ Len(decls[s]) \in DOMAIN decls[s] /\ Len(decls[s]) \in Nat
      /\ Last(decls[s]) = decls[s][Len(decls[s])]
      /\ Latest(s) = Form(s, Len(decls[s])) /\ Latest(s) \in Forms
  BY <1>3, DeclaredRow
<1>5. pin # None /\ pin.rev = Len(decls[s]) /\ pin.brief = brief /\ pin.plan = Latest(s).plan /\ Last(decls[s]).brief = brief
  BY <1>1 DEF Fresh
<1>6. CandidateOf(pin.snap) # None /\ Latest(s).seat \in {None, CandidateOf(pin.snap).seat} /\ pin.snap \in Snapshots
  <2>1. moves[s] \in Seq(MoveRow) /\ Len(moves[s]) \in 0..Len(moves[s])
    BY <1>3, MachineRow
  <2>2. SubSeq(moves[s], 1, Len(moves[s])) = moves[s]
    BY <2>1, SubSeqFull
  <2>3. pin = RoundIn(SubSeq(moves[s], 1, Len(moves[s])))
    BY <2>2 DEF ActiveRound
  <2>4. CandidateOf(pin.snap) # None /\ Form(s, pin.rev).seat \in {None, CandidateOf(pin.snap).seat}
    BY <1>3, <1>4, <1>5, <2>1, <2>3, RoundOfPart
  <2>5. QED
    BY <1>3, <1>4, <1>5, <2>4, CandidateKnown
<1>7. r \in ReviewRow
  <2>1. brief \in Nat
    BY <1>3, CustodyAssumption DEF CustodyFits, CustodyTypeOK
  <2>2. x \in UNION {f.plan : f \in Forms} /\ Latest(s).plan \in {f.plan : f \in Forms}
    BY <1>1, <1>4
  <2>3. QED
    BY <1>4, <1>6, <2>1, <2>2 DEF ReviewRow
<1> PICK n : n = Len(reviews) + 1
  OBVIOUS
<1>8. /\ reviews' \in Seq(ReviewRow) /\ DOMAIN reviews' \ DOMAIN reviews = {n} /\ reviews'[n] = r
      /\ Continues(reviews, reviews')
  BY <1>1, <1>3, <1>7, Appends DEF Typed, RolloutTypeOK, ScopeTypeOK
<1>9. CustodyFits' /\ CustodyGrows
  BY <1>1, <1>2, <1>3, CustodySame
<1>10. \A t \in Scopes : Continues(decls[t], decls'[t]) /\ Continues(moves[t], moves'[t])
  BY <1>1, <1>3, Stays DEF Typed, RolloutTypeOK, ScopeTypeOK
<1>11. ScopeTypeOK'
  BY <1>1, <1>3, <1>8, <1>9 DEF Typed, RolloutTypeOK, ScopeTypeOK, CustodyFits
<1>12. Typed' /\ Grown
  BY <1>8, <1>9, <1>10, <1>11, ScopeFrame
<1>13. ReviewFits(n)'
  <2>1. /\ r.scope = s /\ r.lens = x /\ r.by = a /\ r.rev = Len(decls[s]) /\ r.brief = brief
        /\ r.plan = Latest(s).plan /\ r.snap = pin.snap
    OBVIOUS
  <2>2. Form(s, r.rev)' = Latest(s)
    BY <1>1, <1>4, <2>1 DEF Form
  <2>3. CandidateOf(r.snap)' = CandidateOf(pin.snap)
    BY <1>2, <2>1 DEF CandidateOf
  <2>4. EffectiveOwner' = EffectiveOwner
    BY <1>2 DEF EffectiveOwner
  <2>5. QED
    BY <1>1, <1>2, <1>4, <1>5, <1>6, <1>8, <2>1, <2>2, <2>3, <2>4 DEF ReviewFits
<1>14. ScopesFit'
  BY <1>1, <1>3, <1>8, <1>12, <1>13, ScopesKept DEF ScopesFit
<1>15. GraphFits' /\ SurfacesRead'
  BY <1>1, <1>2 DEF ReleaseInv, GraphFits, SurfacesRead, Moving, Declared, Latest, StateOf
<1>16. ReleaseInv'
  BY <1>8, <1>9, <1>10, <1>11, <1>14, <1>15, ScopeFrame
<1>17. ReviewTimely(n)
  <2>1. pin = [rev |-> pin.rev, snap |-> pin.snap, brief |-> pin.brief, plan |-> pin.plan]
    <3>1. pin = RoundIn(moves[s]) /\ pin # None
      BY <1>5 DEF ActiveRound
    <3>2. PICK k : pin = [rev |-> moves[s][k].rev, snap |-> moves[s][k].snap,
                          brief |-> moves[s][k].brief, plan |-> moves[s][k].plan]
      BY <3>1, RoundNamed
    <3>3. QED
      BY <3>2
  <2>2. /\ r.by = a /\ r.scope = s /\ r.rev = pin.rev /\ r.brief = brief
        /\ [rev |-> r.rev, snap |-> r.snap, brief |-> r.brief, plan |-> r.plan] = pin
    BY <1>5, <2>1
  <2>3. QED
    BY <1>1, <1>5, <1>8, <2>2 DEF ReviewTimely
<1>18. ScopeRowsTimely
  BY <1>1, <1>8, <1>17 DEF ScopeRowsTimely, DeclarationTimely
<1> QED
  BY <1>12, <1>16, <1>18

\* Every scope command keeps the invariant, and writes timely rows.
LEMMA ScopeStepKeeps == ASSUME ReleaseInv, ScopeStep PROVE ReleaseInv' /\ Grown /\ ScopeRowsTimely
<1> USE DEF ScopeStep
<1>1. UNCHANGED <<rolloutVars, settlementVars>>
  OBVIOUS
<1>2. ASSUME NEW l \in Leads, NEW s \in Scopes, NEW f \in FormsOf[s], Declare(l, s, f)
      PROVE  ReleaseInv' /\ Grown /\ ScopeRowsTimely
  BY <1>1, <1>2, DeclareStep
<1>3. ASSUME NEW l \in Leads, NEW s \in Scopes, NEW f \in FormsOf[s], NEW a \in Agents, BindTask(l, s, f, a)
      PROVE  ReleaseInv' /\ Grown /\ ScopeRowsTimely
  BY <1>1, <1>3, BindTaskStep
<1>4. ASSUME NEW l \in Leads, NEW s \in Scopes, NEW cmd \in Commands, Move(l, s, cmd) \/ MoveGated(l, s, cmd)
      PROVE  ReleaseInv' /\ Grown /\ ScopeRowsTimely
  BY <1>1, <1>4, MoveStep, MoveGatedStep
<1>5. ASSUME NEW l \in Leads, NEW s \in Scopes, NEW c \in Snapshots, Submit(l, s, c)
      PROVE  ReleaseInv' /\ Grown /\ ScopeRowsTimely
  BY <1>1, <1>5, SubmitStep
<1>6. ASSUME NEW l \in Leads, NEW s \in Scopes, TaskCancel(l, s)
      PROVE  ReleaseInv' /\ Grown /\ ScopeRowsTimely
  BY <1>1, <1>6, TaskCancelStep
<1>7. ASSUME NEW a \in Agents, NEW s \in Declared, NEW x \in Latest(s).plan, Review(a, s, x)
      PROVE  ReleaseInv' /\ Grown /\ ScopeRowsTimely
  BY <1>1, <1>7, ReviewStep
<1>8. ScopeCommands
  OBVIOUS
<1> QED
  BY <1>2, <1>3, <1>4, <1>5, <1>6, <1>7, <1>8 DEF ScopeCommands

-----------------------------------------------------------------------------
(* The rollouts. *)

RolloutRowsTimely ==
    /\ OwnersRows
    /\ \A r \in Rollouts : \A i \in DOMAIN rmoves'[r] \ DOMAIN rmoves[r] : RolloutMoveTimely(r, i)

\* What a rollout command leaves to itself.
LEMMA RolloutFrame ==
    ASSUME ReleaseInv, UNCHANGED <<custodyVars, handbackVars, scopeVars, settlementVars>>,
           defs' \in [Checks -> Seq(DefinitionRow)], rollouts' \in [Rollouts -> Seq(RolloutRow)],
           rmoves' \in [Rollouts -> Seq(RolloutMove)], runs' \in Seq(RunRow), jobs' \subseteq Job,
           \A q \in Checks : Continues(defs[q], defs'[q]),
           \A r \in Rollouts : Continues(rollouts[r], rollouts'[r]) /\ Continues(rmoves[r], rmoves'[r]),
           Continues(runs, runs')
    PROVE  /\ Typed' /\ Grown /\ IsFiniteSet(seats')
           /\ RunsFit' /\ RolloutsFit' => ReleaseInv'
<1>1. UNCHANGED <<open, live, owners, offers, seats, brief, tree, handbacks, candidates, captures,
                  decls, moves, reviews, bound, recorders, settlements>>
  BY DEF custodyVars, handbackVars, scopeVars, settlementVars
<1>2. CustodyFits' /\ CustodyGrows
  BY <1>1, InvCustody, CustodySame
<1>3. Typed'
  BY <1>1, <1>2 DEF ReleaseInv, Typed, RolloutTypeOK, ScopeTypeOK, CustodyFits
<1>4. Grown
  BY <1>1, <1>2, Stays DEF ReleaseInv, Typed, RolloutTypeOK, ScopeTypeOK, Grown
<1>5. IsFiniteSet(seats') /\ OwnersFit' /\ HandbacksFit'
  BY <1>2 DEF CustodyFits, OwnersFit
<1>6. ScopesFit' /\ GraphFits' /\ SurfacesRead' /\ SettlementsFit'
  BY <1>3, <1>4, SameScopes, SameSettlements
<1> QED
  BY <1>3, <1>4, <1>5, <1>6 DEF ReleaseInv

\* The rows of the rollouts are of their types.
LEMMA RolloutTypes ==
    ASSUME ReleaseInv
    PROVE  /\ defs \in [Checks -> Seq(DefinitionRow)] /\ rollouts \in [Rollouts -> Seq(RolloutRow)]
           /\ rmoves \in [Rollouts -> Seq(RolloutMove)] /\ runs \in Seq(RunRow) /\ jobs \subseteq Job
           /\ \A q \in Checks : Continues(defs[q], defs[q])
           /\ \A r \in Rollouts : Continues(rollouts[r], rollouts[r]) /\ Continues(rmoves[r], rmoves[r])
           /\ Continues(runs, runs)
  BY Stays DEF ReleaseInv, Typed, RolloutTypeOK

\* Who commands an open assignment owns it.
LEMMA OwnerKnown == ASSUME ReleaseInv, NEW l, OwnsOpen(l) PROVE l = EffectiveOwner /\ l \in Lineage /\ l \in Leads
  BY OwnerActs, InvCustody, AgentsKnown

\* A check is declared for a declared scope.
LEMMA DeclareCheckStep ==
    ASSUME ReleaseInv, NEW l, NEW q \in Checks, NEW s, NEW df \in Definitions, DeclareCheck(l, q, s, df),
           UNCHANGED settlementVars
    PROVE  ReleaseInv' /\ Grown /\ RolloutRowsTimely
<1> PICK d : d = [scope |-> s, def |-> df, by |-> l]
  OBVIOUS
<1>1. /\ OwnsOpen(l) /\ s \in Declared
      /\ defs' = [defs EXCEPT ![q] = Append(defs[q], d)]
      /\ UNCHANGED <<custodyVars, handbackVars, scopeVars, rollouts, rmoves, runs, jobs>>
  BY DEF DeclareCheck
<1>2. d \in DefinitionRow /\ d.by = l /\ d.scope = s
  BY <1>1, OwnerKnown DEF DefinitionRow, Declared
<1>3. defs \in [Checks -> Seq(DefinitionRow)]
  BY RolloutTypes
<1> PICK n : n = Len(defs[q]) + 1
  OBVIOUS
<1>4. /\ defs'[q] \in Seq(DefinitionRow) /\ DOMAIN defs'[q] \ DOMAIN defs[q] = {n}
      /\ defs'[q][n] = d /\ Continues(defs[q], defs'[q])
  BY <1>1, <1>2, <1>3, Appends
<1>5. defs' \in [Checks -> Seq(DefinitionRow)] /\ \A p \in Checks : p # q => defs'[p] = defs[p]
  <2>1. Append(defs[q], d) \in Seq(DefinitionRow)
    BY <1>2, <1>3, Appends
  <2>2. QED
    BY <1>1, <1>3, <2>1
<1>6. \A p \in Checks : Continues(defs[p], defs'[p])
  BY <1>4, <1>5, RolloutTypes
<1>7. Typed' /\ Grown /\ IsFiniteSet(seats')
  BY <1>1, <1>5, <1>6, RolloutTypes, RolloutFrame
<1>8. RunsFit'
  BY <1>1, <1>7, RunsKept
<1>9. \A p \in Checks : \A i \in DOMAIN defs'[p] \ DOMAIN defs[p] : p = q /\ i = n /\ defs'[p][i] = d
  BY <1>4, <1>5
<1>10. DefinitionFits(q, n)'
  <2>1. l \in Lineage' /\ s \in Declared'
    BY <1>1, <1>7, OwnerKnown, LineageGrows DEF ReleaseInv
  <2>2. QED
    BY <1>2, <1>4, <2>1 DEF DefinitionFits
<1>11. RolloutsFit'
  <2>1. \A p \in Checks : \A i \in DOMAIN defs'[p] \ DOMAIN defs[p] : DefinitionFits(p, i)'
    BY <1>9, <1>10
  <2>2. QED
    BY <1>1, <1>7, <2>1, RolloutsKept DEF ReleaseInv, RolloutsFit
<1>12. ReleaseInv'
  BY <1>1, <1>5, <1>6, <1>8, <1>11, RolloutTypes, RolloutFrame
<1>13. RolloutRowsTimely
  BY <1>1, <1>2, <1>9, OwnerKnown DEF RolloutRowsTimely, OwnersRows
<1> QED
  BY <1>7, <1>12, <1>13

\* A rollout is declared, and opens its machine the first time.
LEMMA DeclareRolloutStep ==
    ASSUME ReleaseInv, NEW l, NEW r \in Rollouts, NEW s, NEW c, NEW required,
           DeclareRollout(l, r, s, c, required), UNCHANGED settlementVars
    PROVE  ReleaseInv' /\ Grown /\ RolloutRowsTimely
<1> PICK d : d = [scope |-> s, snap |-> c, by |-> l, required |-> required]
  OBVIOUS
<1> PICK m : m = RolloutOpening(l)
  OBVIOUS
<1>1. /\ OwnsOpen(l) /\ s \in Declared /\ CandidateOf(c) # None /\ required \subseteq Definable(s)
      /\ \A x, y \in required : x[1] = y[1] => x = y
      /\ rollouts' = [rollouts EXCEPT ![r] = Append(rollouts[r], d)]
      /\ rmoves' = IF rollouts[r] = <<>> THEN [rmoves EXCEPT ![r] = <<m>>] ELSE rmoves
      /\ UNCHANGED <<custodyVars, handbackVars, scopeVars, defs, runs, jobs>>
  BY DEF DeclareRollout
<1>2. Typed /\ c \in Snapshots /\ l \in Leads /\ l = EffectiveOwner /\ l \in Lineage
  BY <1>1, CandidateKnown, OwnerKnown DEF ReleaseInv
<1>3. d \in RolloutRow /\ d.by = l /\ d.scope = s /\ d.snap = c /\ d.required = required
  <2>1. required \in SUBSET (Checks \X Definitions) /\ s \in Scopes
    BY <1>1 DEF Definable, Declared
  <2>2. QED
    BY <1>2, <2>1 DEF RolloutRow
<1>4. /\ m \in RolloutMove /\ m.command = "declare" /\ m.from = None /\ m.to = "declared" /\ m.rev = 1
      /\ m.by = l /\ m.cohort = None /\ m.gate = None /\ m.target = None /\ m.checked = {} /\ m.reviewed = {}
  BY <1>2 DEF RolloutOpening, RolloutMove, RolloutStates
<1>5. /\ rollouts \in [Rollouts -> Seq(RolloutRow)] /\ rmoves \in [Rollouts -> Seq(RolloutMove)]
  BY RolloutTypes
<1> PICK n : n = Len(rollouts[r]) + 1
  OBVIOUS
<1>6. /\ rollouts'[r] \in Seq(RolloutRow) /\ DOMAIN rollouts'[r] \ DOMAIN rollouts[r] = {n}
      /\ rollouts'[r][n] = d /\ Continues(rollouts[r], rollouts'[r]) /\ rollouts'[r] # <<>>
      /\ 1 \in DOMAIN rollouts'[r]
  <2>1. /\ rollouts'[r] \in Seq(RolloutRow) /\ DOMAIN rollouts'[r] \ DOMAIN rollouts[r] = {n}
        /\ rollouts'[r][n] = d /\ Continues(rollouts[r], rollouts'[r])
        /\ Len(rollouts'[r]) = n /\ DOMAIN rollouts'[r] = 1..n /\ n - 1 \in Nat
    BY <1>1, <1>3, <1>5, Appends
  <2>2. rollouts'[r] # <<>> /\ 1 \in DOMAIN rollouts'[r]
    BY <2>1, EmptySeq
  <2>3. QED
    BY <2>1, <2>2
<1>7. rollouts' \in [Rollouts -> Seq(RolloutRow)] /\ \A p \in Rollouts : p # r => rollouts'[p] = rollouts[p]
  <2>1. Append(rollouts[r], d) \in Seq(RolloutRow)
    BY <1>3, <1>5, Appends
  <2>2. QED
    BY <1>1, <1>5, <2>1
<1>8. <<m>> \in Seq(RolloutMove) /\ DOMAIN <<m>> = {1} /\ <<m>>[1] = m /\ <<m>> # <<>>
  BY <1>4
<1>9. /\ rmoves' \in [Rollouts -> Seq(RolloutMove)]
      /\ \A p \in Rollouts : p # r \/ rollouts[r] # <<>> => rmoves'[p] = rmoves[p]
      /\ rollouts[r] = <<>> => rmoves'[r] = <<m>>
  BY <1>1, <1>5, <1>8
<1>10. ASSUME NEW p \in Rollouts PROVE Continues(rollouts[p], rollouts'[p]) /\ Continues(rmoves[p], rmoves'[p])
  <2>1. Continues(rollouts[p], rollouts'[p])
    BY <1>6, <1>7, RolloutTypes
  <2>2. CASE p # r \/ rollouts[r] # <<>>
    BY <2>1, <2>2, <1>9, RolloutTypes
  <2>3. CASE p = r /\ rollouts[r] = <<>>
    <3>1. rmoves[r] = <<>> /\ rmoves'[r] \in Seq(RolloutMove)
      BY <1>9, <2>3 DEF ReleaseInv, RolloutsFit
    <3>2. Len(rmoves'[r]) \in Nat /\ Len(rmoves[r]) = 0 /\ DOMAIN rmoves[r] = {}
      BY <3>1, LenProperties, EmptySeq
    <3>3. QED
      BY <2>1, <2>3, <3>2 DEF Continues
  <2>4. QED
    BY <2>2, <2>3
<1>11. Typed' /\ Grown /\ IsFiniteSet(seats')
  BY <1>1, <1>7, <1>9, <1>10, RolloutTypes, RolloutFrame
<1>12. RunsFit'
  BY <1>1, <1>11, RunsKept
<1>13. RolloutFits(r, n)'
  <2>1. l \in Lineage' /\ s \in Declared' /\ CandidateOf(c)' # None /\ required \subseteq Definable(s)'
    BY <1>1, <1>2, <1>11, LineageGrows, DefinableGrows
  <2>2. QED
    BY <1>1, <1>3, <1>6, <2>1 DEF RolloutFits
<1>14. rollouts[r] = <<>> => RolloutMoveFits(r, 1)'
  <2>1. ASSUME rollouts[r] = <<>> PROVE RolloutMoveFits(r, 1)'
    <3>1. rmoves'[r][1] = m /\ l \in Lineage'
      BY <1>2, <1>8, <1>9, <1>11, <2>1, LineageGrows
    <3>2. m.command \notin CheckGated /\ m.command \notin CohortGated
      BY <1>4 DEF CheckGated, CohortGated
    <3>3. QED
      BY <1>4, <1>6, <3>1, <3>2 DEF RolloutMoveFits
  <2>2. QED
    BY <2>1
<1>15. \A p \in Rollouts : \A i \in DOMAIN rmoves'[p] \ DOMAIN rmoves[p] : p = r /\ i = 1 /\ rollouts[r] = <<>> /\ rmoves'[p][i] = m
  BY <1>8, <1>9
<1>16. \A p \in Rollouts : \A i \in DOMAIN rollouts'[p] \ DOMAIN rollouts[p] : p = r /\ i = n /\ rollouts'[p][i] = d
  BY <1>6, <1>7
<1>17. RolloutsFit'
  <2>1. \A p \in Rollouts : \A i \in DOMAIN rollouts'[p] \ DOMAIN rollouts[p] : RolloutFits(p, i)'
    BY <1>13, <1>16
  <2>2. \A p \in Rollouts : \A i \in DOMAIN rmoves'[p] \ DOMAIN rmoves[p] : RolloutMoveFits(p, i)'
    BY <1>14, <1>15
  <2>3. \A p \in Rollouts : rollouts'[p] = <<>> <=> rmoves'[p] = <<>>
    <3>1. \A p \in Rollouts : rollouts[p] = <<>> <=> rmoves[p] = <<>>
      BY DEF ReleaseInv, RolloutsFit
    <3>2. rmoves'[r] # <<>>
      BY <1>8, <1>9, <3>1
    <3>3. QED
      BY <1>6, <1>7, <1>9, <3>1, <3>2
  <2>4. \A q \in Checks : \A i \in DOMAIN defs'[q] \ DOMAIN defs[q] : DefinitionFits(q, i)'
    BY <1>1
  <2>5. \A j \in jobs' : j.at = "measured" => j.status \in {"passed", "failed"}
    BY <1>1 DEF ReleaseInv, RolloutsFit
  <2>6. QED
    BY <1>11, <2>1, <2>2, <2>3, <2>4, <2>5, RolloutsKept
<1>18. ReleaseInv'
  BY <1>1, <1>7, <1>9, <1>10, <1>12, <1>17, RolloutTypes, RolloutFrame
<1>19. RolloutRowsTimely
  <2>1. OwnersRows
    BY <1>1, <1>2, <1>3, <1>16 DEF OwnersRows
  <2>2. \A p \in Rollouts : \A i \in DOMAIN rmoves'[p] \ DOMAIN rmoves[p] : RolloutMoveTimely(p, i)
    BY <1>2, <1>4, <1>15 DEF RolloutMoveTimely
  <2>3. QED
    BY <2>1, <2>2 DEF RolloutRowsTimely
<1> QED
  BY <1>11, <1>18, <1>19

\* Check runs that are still on their way leave no row.
LEMMA JobsStep ==
    ASSUME ReleaseInv, UNCHANGED <<custodyVars, handbackVars, scopeVars, settlementVars, defs, rollouts, rmoves, runs>>,
           jobs' \subseteq Job, \A j \in jobs' : j.at = "measured" => j.status \in {"passed", "failed"}
    PROVE  ReleaseInv' /\ Grown /\ RolloutRowsTimely
<1>1. Typed' /\ Grown /\ IsFiniteSet(seats')
  BY RolloutTypes, RolloutFrame
<1>2. RunsFit' /\ RolloutsFit'
  BY <1>1, RunsKept, RolloutsKept DEF ReleaseInv, RolloutsFit
<1>3. ReleaseInv'
  BY <1>2, RolloutTypes, RolloutFrame
<1>4. RolloutRowsTimely
  BY DEF RolloutRowsTimely, OwnersRows
<1> QED
  BY <1>1, <1>3, <1>4

\* A declared rollout has a latest declaration.
LEMMA LatestRollout ==
    ASSUME ReleaseInv, NEW r \in Rollouts, rollouts[r] # <<>>
    PROVE  /\ Len(rollouts[r]) \in DOMAIN rollouts[r] /\ Len(rollouts[r]) \in Nat
           /\ Last(rollouts[r]) = rollouts[r][Len(rollouts[r])]
           /\ Last(rollouts[r]) \in RolloutRow
<1>1. rollouts[r] \in Seq(RolloutRow)
  BY RolloutTypes
<1>2. Len(rollouts[r]) \in Nat \ {0} /\ DOMAIN rollouts[r] = 1..Len(rollouts[r])
  BY <1>1, LenProperties, EmptySeq
<1>3. rollouts[r][Len(rollouts[r])] \in RolloutRow
  BY <1>1, <1>2, ElementOfSeq
<1> QED
  BY <1>2, <1>3 DEF Last

\* A check run that starts records nothing.
LEMMA StartCheckStep ==
    ASSUME ReleaseInv, NEW l, NEW r \in Rollouts, NEW q \in Checks, NEW id \in CheckRequests, NEW ev \in BOOLEAN,
           StartCheck(l, r, q, id, ev), UNCHANGED settlementVars
    PROVE  ReleaseInv' /\ Grown /\ RolloutRowsTimely
<1> PICK j : j = [rollout |-> r, rev |-> Len(rollouts[r]), check |-> q, def |-> Len(defs[q]),
                  snap |-> Last(rollouts[r]).snap, status |-> None, evidence |-> ev, by |-> l, req |-> id,
                  at |-> "preflight"]
  OBVIOUS
<1>1. /\ OwnsOpen(l) /\ rollouts[r] # <<>> /\ jobs' = jobs \cup {j}
      /\ UNCHANGED <<custodyVars, handbackVars, scopeVars, defs, rollouts, rmoves, runs>>
  BY DEF StartCheck
<1>2. Len(rollouts[r]) \in Nat /\ Last(rollouts[r]) \in RolloutRow
  BY <1>1, LatestRollout
<1>3. defs[q] \in Seq(DefinitionRow) /\ l \in Leads
  BY <1>1, RolloutTypes, OwnerKnown
<1>4. Len(defs[q]) \in Nat
  BY <1>3, LenProperties
<1>5. Last(rollouts[r]).snap \in Snapshots
  BY <1>2 DEF RolloutRow
<1>6. j \in Job /\ j.at = "preflight"
  BY <1>2, <1>3, <1>4, <1>5 DEF Job
<1>7. jobs' \subseteq Job /\ \A k \in jobs' : k.at = "measured" => k.status \in {"passed", "failed"}
  BY <1>1, <1>6, RolloutTypes DEF ReleaseInv, RolloutsFit
<1> QED
  BY <1>1, <1>7, JobsStep

\* A check run that is measured records nothing.
LEMMA MeasureStep ==
    ASSUME ReleaseInv, NEW j \in jobs,
           MeasureBefore(j) \/ \E status \in {"passed", "failed"} : MeasureAfter(j, status),
           UNCHANGED settlementVars
    PROVE  ReleaseInv' /\ Grown /\ RolloutRowsTimely
<1>1. j \in Job
  BY RolloutTypes
<1>2. CASE MeasureBefore(j)
  <2> PICK k : k = [j EXCEPT !.at = "running"]
    OBVIOUS
  <2>1. jobs' \subseteq jobs \cup {k}
        /\ UNCHANGED <<custodyVars, handbackVars, scopeVars, defs, rollouts, rmoves, runs>>
    BY <1>2 DEF MeasureBefore
  <2>2. k \in Job /\ k.at = "running"
    BY <1>1 DEF Job
  <2>3. jobs' \subseteq Job /\ \A i \in jobs' : i.at = "measured" => i.status \in {"passed", "failed"}
    BY <2>1, <2>2, RolloutTypes DEF ReleaseInv, RolloutsFit
  <2>4. QED
    BY <2>1, <2>3, JobsStep
<1>3. ASSUME NEW status \in {"passed", "failed"}, MeasureAfter(j, status)
      PROVE  ReleaseInv' /\ Grown /\ RolloutRowsTimely
  <2> PICK k : k = [j EXCEPT !.at = "measured", !.status = status]
    OBVIOUS
  <2>1. jobs' \subseteq jobs \cup {k}
        /\ UNCHANGED <<custodyVars, handbackVars, scopeVars, defs, rollouts, rmoves, runs>>
    BY <1>3 DEF MeasureAfter
  <2>2. k \in Job /\ k.status \in {"passed", "failed"}
    BY <1>1 DEF Job
  <2>3. jobs' \subseteq Job /\ \A i \in jobs' : i.at = "measured" => i.status \in {"passed", "failed"}
    BY <2>1, <2>2, RolloutTypes DEF ReleaseInv, RolloutsFit
  <2>4. QED
    BY <2>1, <2>3, JobsStep
<1> QED
  BY <1>2, <1>3

\* A defined check has a latest definition.
LEMMA LatestDefinition ==
    ASSUME ReleaseInv, NEW q \in Checks, Len(defs[q]) > 0
    PROVE  /\ Len(defs[q]) \in DOMAIN defs[q] /\ Len(defs[q]) \in Nat
           /\ Last(defs[q]) = defs[q][Len(defs[q])] /\ Last(defs[q]) \in DefinitionRow
           /\ DefinitionOf(q, Len(defs[q])) = Last(defs[q]).def
           /\ Last(defs[q]).def.retries \in Nat
<1>1. defs[q] \in Seq(DefinitionRow)
  BY RolloutTypes
<1>2. Len(defs[q]) \in Nat \ {0} /\ DOMAIN defs[q] = 1..Len(defs[q])
  BY <1>1, LenProperties
<1>3. defs[q][Len(defs[q])] \in DefinitionRow
  BY <1>1, <1>2, ElementOfSeq
<1>4. defs[q][Len(defs[q])].def \in Definitions
  BY <1>3 DEF DefinitionRow
<1>5. defs[q][Len(defs[q])].def.retries \in Nat
  BY <1>4, RolloutAssumption
<1> QED
  BY <1>2, <1>3, <1>5 DEF Last, DefinitionOf

\* The next attempt of a stream that has retries left is numbered next.
LEMMA NextAttempt ==
    ASSUME ReleaseInv, NEW r \in Rollouts, NEW q \in Checks, NEW c, NEW S, S = RetryStream(r, q, c),
           NEW def, \A i \in S : runs[i].def = def
    PROVE  /\ IsFiniteSet(S) /\ Cardinality(S) \in Nat /\ S \subseteq 1..Len(runs)
           /\ {runs[k].attempt : k \in S} = 1..Cardinality(S)
<1>1. runs \in Seq(RunRow)
  BY RolloutTypes
<1>2. S \subseteq 1..Len(runs) /\ Len(runs) \in Nat
  BY <1>1, LenProperties DEF RetryStream
<1>3. IsFiniteSet(S)
  <2>1. IsFiniteSet(1..Len(runs))
    BY <1>2, FS_Interval
  <2>2. QED
    BY <1>2, <2>1, FS_Subset
<1>4. Cardinality(S) \in Nat
  BY <1>3, FS_CardinalityType
<1>5. {runs[k].attempt : k \in S} = 1..Cardinality(S)
  <2>1. CASE S = {}
    BY <2>1, FS_EmptySet
  <2>2. CASE S # {}
    <3>1. PICK i \in S : TRUE
      BY <2>2
    <3>2. i \in DOMAIN runs /\ runs[i].rollout = r /\ runs[i].check = q /\ runs[i].snap = c
      BY <3>1 DEF RetryStream
    <3>3. StreamFits(i)
      BY <3>2 DEF ReleaseInv, RunsFit
    <3>4. QED
      BY <3>2, <3>3 DEF StreamFits
  <2>3. QED
    BY <2>1, <2>2
<1> QED
  BY <1>2, <1>3, <1>4, <1>5

\* A stream of attempts, with its rows given by their fields.
LEMMA StreamIs ==
    ASSUME NEW i, NEW r, NEW q, NEW c, NEW def, NEW S,
           runs'[i].rollout = r, runs'[i].check = q, runs'[i].snap = c, runs'[i].def = def,
           \A k : k \in S <=> /\ k \in DOMAIN runs' /\ runs'[k].rollout = r
                             /\ runs'[k].check = q /\ runs'[k].snap = c,
           \A k \in S : runs'[k].def = def,
           {runs'[k].attempt : k \in S} = 1..Cardinality(S),
           Cardinality(S) <= 1 + defs'[q][def].def.retries
    PROVE  StreamFits(i)'
<1>1. S = {k \in DOMAIN runs' : runs'[k].rollout = r /\ runs'[k].check = q /\ runs'[k].snap = c}
  OBVIOUS
<1> QED
  BY <1>1 DEF StreamFits, RetryStream, DefinitionOf

\* A run that was on its way is recorded only if everything it was started
\* for is still so.
LEMMA CommitRunStep ==
    ASSUME ReleaseInv, NEW j \in jobs, CommitRun(j), UNCHANGED settlementVars
    PROVE  ReleaseInv' /\ Grown /\ RolloutRowsTimely
<1>1. /\ j.at = "measured" /\ jobs' = jobs \ {j}
      /\ UNCHANGED <<custodyVars, handbackVars, scopeVars, defs, rollouts, rmoves>>
      /\ j \in Job /\ j.status \in {"passed", "failed"}
  BY RolloutTypes DEF CommitRun, ReleaseInv, RolloutsFit
<1>2. jobs' \subseteq Job /\ \A k \in jobs' : k.at = "measured" => k.status \in {"passed", "failed"}
  BY <1>1, RolloutTypes DEF ReleaseInv, RolloutsFit
<1>3. CASE ~Recordable(j)
  BY <1>1, <1>2, <1>3, JobsStep DEF CommitRun
<1>4. CASE Recordable(j)
  <2> PICK r : r = j.rollout
    OBVIOUS
  <2> PICK q : q = j.check
    OBVIOUS
  <2> PICK c : c = j.snap
    OBVIOUS
  <2> PICK S : S = RetryStream(r, q, c)
    OBVIOUS
  <2> PICK e : e = [rollout |-> r, rev |-> j.rev, check |-> q, def |-> j.def, snap |-> c, status |-> j.status,
                    evidence |-> j.evidence, by |-> j.by, req |-> j.req, attempt |-> 1 + Cardinality(S)]
    OBVIOUS
  <2> PICK n : n = Len(runs) + 1
    OBVIOUS
  <2>1. /\ OwnsOpen(j.by) /\ \A i \in DOMAIN runs : runs[i].by = j.by => runs[i].req # j.req
        /\ j.status = "passed" /\ DefinitionOf(q, j.def).evidence => j.evidence
        /\ Eligible(r, q, j.rev, j.def, c)
        /\ runs' = Append(runs, e)
    BY <1>4 DEF CommitRun, Recordable
  <2>2. /\ rollouts[r] # <<>> /\ j.rev = Len(rollouts[r]) /\ c = Last(rollouts[r]).snap
        /\ j.def > 0 /\ j.def = Len(defs[q]) /\ Last(defs[q]).scope = Last(rollouts[r]).scope
        /\ \A i \in S : runs[i].def = j.def
        /\ Cardinality(S) <= Last(defs[q]).def.retries
    BY <2>1 DEF Eligible
  <2>3. r \in Rollouts /\ q \in Checks /\ c \in Snapshots
    BY <1>1 DEF Job
  <2>4. /\ j.rev \in DOMAIN rollouts[r] /\ Last(rollouts[r]) = rollouts[r][j.rev] /\ j.rev \in Nat
        /\ j.def \in DOMAIN defs[q] /\ Last(defs[q]) = defs[q][j.def] /\ j.def \in Nat
        /\ DefinitionOf(q, j.def) = Last(defs[q]).def /\ DefinitionOf(q, j.def).retries \in Nat
    BY <2>2, <2>3, LatestRollout, LatestDefinition
  <2>5. /\ IsFiniteSet(S) /\ Cardinality(S) \in Nat /\ S \subseteq 1..Len(runs)
        /\ {runs[k].attempt : k \in S} = 1..Cardinality(S)
    BY <2>2, <2>3, NextAttempt
  <2>6. e \in RunRow
    BY <1>1, <2>3, <2>4, <2>5 DEF Job, RunRow
  <2>7. runs \in Seq(RunRow) /\ jobs' \subseteq Job
    BY <1>2, RolloutTypes
  <2>8. /\ runs' \in Seq(RunRow) /\ DOMAIN runs' = 1..n /\ DOMAIN runs = 1..Len(runs) /\ Len(runs) \in Nat
        /\ DOMAIN runs' \ DOMAIN runs = {n} /\ runs'[n] = e /\ Continues(runs, runs')
        /\ \A i \in DOMAIN runs : i \in DOMAIN runs' /\ runs'[i] = runs[i] /\ i # n
    BY <2>1, <2>6, <2>7, Appends DEF Continues
  <2>9. Typed' /\ Grown /\ IsFiniteSet(seats')
    BY <1>1, <1>2, <2>8, RolloutTypes, RolloutFrame
  <2>10. UNCHANGED <<defs, rollouts>> /\ \A p, i : DefinitionOf(p, i)' = DefinitionOf(p, i)
    BY <1>1 DEF DefinitionOf
  <2>11. /\ e.rollout = r /\ e.rev = j.rev /\ e.check = q /\ e.def = j.def /\ e.snap = c /\ e.status = j.status
         /\ e.evidence = j.evidence /\ e.by = j.by /\ e.req = j.req /\ e.attempt = 1 + Cardinality(S)
    OBVIOUS
  <2>12. RunFits(n)'
    <3>1. j.by \in Lineage'
      BY <2>1, <2>9, OwnerKnown, LineageGrows DEF ReleaseInv
    <3>2. /\ e.def \in DOMAIN defs'[e.check] /\ e.rev \in DOMAIN rollouts'[e.rollout]
          /\ e.snap = rollouts'[e.rollout][e.rev].snap
          /\ defs'[e.check][e.def].scope = rollouts'[e.rollout][e.rev].scope
          /\ e.status = "passed" /\ DefinitionOf(e.check, e.def)'.evidence => e.evidence
      BY <2>1, <2>2, <2>4, <2>10, <2>11
    <3>3. QED
      BY <2>8, <2>11, <3>1, <3>2 DEF RunFits
  <2>13. \A i \in DOMAIN runs' : RunFits(i)'
    <3>1. \A i \in DOMAIN runs : RunFits(i)'
      BY <2>9, RunsStay DEF ReleaseInv, RunsFit
    <3>2. QED
      BY <2>8, <2>12, <3>1
  <2>14. \A i, k \in DOMAIN runs' : runs'[k].by = runs'[i].by /\ runs'[k].req = runs'[i].req => k = i
    <3>1. \A i, k \in DOMAIN runs : runs[k].by = runs[i].by /\ runs[k].req = runs[i].req => k = i
      BY DEF ReleaseInv, RunsFit
    <3>2. \A i \in DOMAIN runs' : i = n \/ i \in DOMAIN runs
      BY <2>8
    <3>3. QED
      BY <2>1, <2>8, <2>11, <3>1, <3>2
  <2>15. RetryStream(r, q, c)' = S \cup {n}
    BY <2>8, <2>11 DEF RetryStream
  <2>16. IsFiniteSet(S \cup {n}) /\ Cardinality(S \cup {n}) = Cardinality(S) + 1
    <3>1. n \notin S
      BY <2>5, <2>8
    <3>2. QED
      BY <2>5, <3>1, FS_AddElement
  <2>17. \A k \in S : k \in DOMAIN runs /\ runs'[k] = runs[k]
    BY <2>5, <2>8
  <2>18. {runs'[k].attempt : k \in S \cup {n}} = 1..Cardinality(S) + 1
    <3>1. {runs'[k].attempt : k \in S} = 1..Cardinality(S)
      BY <2>5, <2>17
    <3>2. {runs'[k].attempt : k \in S \cup {n}} = {runs'[k].attempt : k \in S} \cup {runs'[n].attempt}
      OBVIOUS
    <3>3. 1..Cardinality(S) + 1 = 1..Cardinality(S) \cup {Cardinality(S) + 1}
      BY <2>5
    <3>4. runs'[n].attempt = Cardinality(S) + 1
      BY <2>5, <2>8, <2>11
    <3>5. QED
      BY <3>1, <3>2, <3>3, <3>4
  <2>19. ASSUME NEW i \in DOMAIN runs' PROVE StreamFits(i)'
    <3>1. CASE runs'[i].rollout = r /\ runs'[i].check = q /\ runs'[i].snap = c
      <4>1. i \in S \cup {n}
        BY <2>15, <3>1 DEF RetryStream
      <4>2. \A k \in S \cup {n} : runs'[k].def = j.def
        BY <2>2, <2>8, <2>11, <2>17
      <4>3. Cardinality(S) + 1 <= 1 + defs'[q][j.def].def.retries
        BY <2>2, <2>4, <2>5, <2>10
      <4>4. \A k : k \in S \cup {n} <=> /\ k \in DOMAIN runs' /\ runs'[k].rollout = r
                                       /\ runs'[k].check = q /\ runs'[k].snap = c
        BY <2>15 DEF RetryStream
      <4>5. runs'[i].def = j.def
        BY <4>1, <4>2
      <4> PICK T : T = S \cup {n}
        OBVIOUS
      <4>6. /\ \A k : k \in T <=> /\ k \in DOMAIN runs' /\ runs'[k].rollout = r
                                   /\ runs'[k].check = q /\ runs'[k].snap = c
            /\ \A k \in T : runs'[k].def = j.def
            /\ {runs'[k].attempt : k \in T} = 1..Cardinality(T)
            /\ Cardinality(T) <= 1 + defs'[q][j.def].def.retries
        BY <2>16, <2>18, <4>2, <4>3, <4>4
      <4> PICK def : def = j.def
        OBVIOUS
      <4>7. /\ runs'[i].rollout = r /\ runs'[i].check = q /\ runs'[i].snap = c /\ runs'[i].def = def
            /\ \A k \in T : runs'[k].def = def
            /\ Cardinality(T) <= 1 + defs'[q][def].def.retries
        BY <3>1, <4>5, <4>6
      <4>8. QED
        BY ONLY <4>6, <4>7, StreamIs
    <3>2. CASE ~(runs'[i].rollout = r /\ runs'[i].check = q /\ runs'[i].snap = c)
      <4>1. i \in DOMAIN runs /\ runs'[i] = runs[i]
        BY <2>8, <2>11, <3>2
      <4>2. StreamFits(i)
        BY <4>1 DEF ReleaseInv, RunsFit
      <4> PICK row : row = runs[i]
        OBVIOUS
      <4> PICK T : T = RetryStream(row.rollout, row.check, row.snap)
        OBVIOUS
      <4>3. \A k \in T : k \in DOMAIN runs /\ runs'[k] = runs[k]
        BY <2>8 DEF RetryStream
      <4>4. \A k : k \in T <=> /\ k \in DOMAIN runs' /\ runs'[k].rollout = row.rollout
                               /\ runs'[k].check = row.check /\ runs'[k].snap = row.snap
        BY <2>8, <2>11, <3>2, <4>1 DEF RetryStream
      <4>5. /\ \A k \in T : runs[k].def = row.def
            /\ {runs[k].attempt : k \in T} = 1..Cardinality(T)
            /\ Cardinality(T) <= 1 + defs[row.check][row.def].def.retries
        BY <4>2 DEF StreamFits, DefinitionOf
      <4>6. {runs'[k].attempt : k \in T} = {runs[k].attempt : k \in T}
        BY <4>3
      <4>7. /\ \A k \in T : runs'[k].def = row.def
            /\ {runs'[k].attempt : k \in T} = 1..Cardinality(T)
            /\ Cardinality(T) <= 1 + defs'[row.check][row.def].def.retries
        BY <2>10, <4>3, <4>5, <4>6
      <4>8. row.rollout = runs'[i].rollout /\ row.check = runs'[i].check /\ row.snap = runs'[i].snap
            /\ row.def = runs'[i].def
        BY <4>1
      <4>9. QED
        BY <4>4, <4>7, <4>8, StreamIs
    <3>3. QED
      BY <3>1, <3>2
  <2>20. RunsFit'
    BY <2>13, <2>14, <2>19 DEF RunsFit
  <2>21. RolloutsFit'
    BY <1>1, <1>2, <2>9, RolloutsKept DEF ReleaseInv, RolloutsFit
  <2>22. ReleaseInv'
    BY <1>1, <1>2, <2>8, <2>20, <2>21, RolloutTypes, RolloutFrame
  <2>23. RolloutRowsTimely
    <3>1. j.by = EffectiveOwner
      BY <2>1, OwnerKnown
    <3>2. QED
      BY <1>1, <2>8, <2>11, <3>1 DEF RolloutRowsTimely, OwnersRows
  <2>24. QED
    BY <2>9, <2>22, <2>23
<1> QED
  BY <1>3, <1>4

\* What discharges the checks is one passed run for each.
LEMMA CheckDischargeIs ==
    ASSUME ReleaseInv, NEW r \in Rollouts, rollouts[r] # <<>>, NEW D, D = CheckDischarges(r), D # None,
           NEW m, m.rev = Len(rollouts[r]), m.checked = D
    PROVE  ChecksDischarged(r, m) /\ D \in SUBSET Nat
<1> PICK d : d = Last(rollouts[r])
  OBVIOUS
<1> DEFINE Of(x) == {i \in DOMAIN runs :
                       /\ runs[i].rollout = r /\ runs[i].check = x[1]
                       /\ runs[i].status = "passed" /\ runs[i].snap = d.snap
                       /\ DefinitionOf(x[1], runs[i].def) = x[2]}
<1> PICK P : P = d.required
  OBVIOUS
<1>1. D = {Max(Of(x)) : x \in P} /\ \A x \in P : Of(x) # {}
  <2>1. CheckDischarges(r) = IF \E x \in d.required : Of(x) = {} THEN None
                             ELSE {Max(Of(x)) : x \in d.required}
    BY DEF CheckDischarges
  <2>2. D = IF \E x \in P : Of(x) = {} THEN None ELSE {Max(Of(x)) : x \in P}
    BY <2>1
  <2> HIDE DEF Of
  <2>3. QED
    BY <2>2
<1>2. /\ DOMAIN runs = 1..Len(runs) /\ Len(runs) \in Nat
  BY RolloutTypes, LenProperties
<1>3. P \subseteq Checks \X Definitions /\ d = rollouts[r][m.rev]
  BY LatestRollout DEF RolloutRow
<1>4. \A x \in P : x = <<x[1], x[2]>>
  BY <1>3
<1>5. ASSUME NEW x \in P
      PROVE  /\ Max(Of(x)) \in DOMAIN runs
             /\ runs[Max(Of(x))].rollout = r /\ runs[Max(Of(x))].check = x[1]
             /\ runs[Max(Of(x))].status = "passed" /\ runs[Max(Of(x))].snap = d.snap
             /\ DefinitionOf(x[1], runs[Max(Of(x))].def) = x[2]
  <2>1. Of(x) \in SUBSET (0..Len(runs)) /\ Of(x) # {}
    BY <1>1, <1>2
  <2>2. Max(Of(x)) \in Of(x)
    BY <1>2, <2>1, Greatest
  <2>3. QED
    BY <2>2
<1> HIDE DEF Of
<1> PICK f : f = [x \in P |-> Max(Of(x))]
  OBVIOUS
<1>6. /\ D = {f[x] : x \in P}
      /\ \A x \in P : /\ f[x] \in DOMAIN runs
                      /\ runs[f[x]].rollout = r /\ runs[f[x]].check = x[1]
                      /\ runs[f[x]].status = "passed" /\ runs[f[x]].snap = d.snap
                      /\ DefinitionOf(x[1], runs[f[x]].def) = x[2]
  BY <1>1, <1>5
<1>7. D \subseteq DOMAIN runs
  BY ONLY <1>6
<1>8. \A n \in D : runs[n].rollout = r /\ runs[n].status = "passed" /\ runs[n].snap = d.snap
  BY ONLY <1>6
<1>9. {runs[n].check : n \in D} = {x[1] : x \in P}
  <2>1. \A n \in D : \E x \in P : runs[n].check = x[1]
    BY ONLY <1>6
  <2>2. \A x \in P : \E n \in D : runs[n].check = x[1]
    BY ONLY <1>6
  <2>3. QED
    BY <2>1, <2>2
<1>10. Cardinality(D) = Cardinality(P)
  <2> PICK g : g = [n \in D |-> <<runs[n].check, DefinitionOf(runs[n].check, runs[n].def)>>]
    OBVIOUS
  <2>1. \A x \in P : f[x] \in D /\ g[f[x]] = x
    <3>1. \A n \in D : g[n] = <<runs[n].check, DefinitionOf(runs[n].check, runs[n].def)>>
      OBVIOUS
    <3>2. ASSUME NEW x \in P PROVE f[x] \in D /\ g[f[x]] = x
      BY ONLY <1>4, <1>6, <3>1, <3>2
    <3>3. QED
      BY ONLY <3>2
  <2>2. \A n \in D : \E x \in P : n = f[x]
    BY ONLY <1>6
  <2>3. DOMAIN g = D
    OBVIOUS
  <2>4. g \in Bijection(D, P)
    <3>1. g \in [D -> P]
      <4>1. ASSUME NEW n \in D PROVE g[n] \in P
        <5>1. PICK x \in P : n = f[x]
          BY <2>2
        <5>2. QED
          BY ONLY <5>1, <2>1
      <4>2. QED
        BY <2>3, <4>1
    <3>2. \A k, n \in D : g[k] = g[n] => k = n
      BY ONLY <2>1, <2>2
    <3>3. \A x \in P : \E k \in D : g[k] = x
      BY ONLY <2>1
    <3>4. QED
      BY ONLY <3>1, <3>2, <3>3, Fun_IsBij
  <2>5. IsFiniteSet(D)
    <3>1. IsFiniteSet(1..Len(runs))
      BY <1>2, FS_Interval
    <3>2. QED
      BY <1>2, <1>7, <3>1, FS_Subset
  <2>6. QED
    BY <2>4, <2>5, FS_Bijection DEF ExistsBijection
<1>11. ChecksDischarged(r, m)
  BY <1>3, <1>7, <1>8, <1>9, <1>10 DEF ChecksDischarged
<1> QED
  BY <1>2, <1>7, <1>11

\* A scope that stands approved was, by one of its rows.
LEMMA ApprovedIs ==
    ASSUME NEW s, NEW app, app = ApprovedRound(s), app # None,
           moves[s] \in Seq(MoveRow), NEW i, i = LastOf(Approvals(moves[s]))
    PROVE  /\ i \in DOMAIN moves[s] /\ moves[s][i].to = "approved"
           /\ app.pin = RoundIn(SubSeq(moves[s], 1, i)) /\ app.discharged = moves[s][i].discharged
<1>1. i # 0 /\ app = [pin |-> RoundIn(SubSeq(moves[s], 1, i)), discharged |-> moves[s][i].discharged]
  BY TestsNamed DEF ApprovedRound
<1>2. DOMAIN moves[s] = 1..Len(moves[s]) /\ Len(moves[s]) \in Nat
  BY LenProperties
<1>3. Approvals(moves[s]) \in SUBSET (1..Len(moves[s]))
  BY <1>2 DEF Approvals
<1>4. i \in Approvals(moves[s])
  BY <1>1, <1>2, <1>3, LastIs
<1> QED
  BY <1>1, <1>4 DEF Approvals

\* An approval rests on observations of the round it ends.
LEMMA ApprovalRests ==
    ASSUME Typed, ScopesFit, NEW s \in Scopes, NEW i \in DOMAIN moves[s], moves[s][i].to = "approved",
           NEW pin, pin = RoundIn(SubSeq(moves[s], 1, i)), pin # None, NEW D, D = moves[s][i].discharged
    PROVE  /\ \A n \in D : /\ reviews[n].scope = s /\ reviews[n].snap = pin.snap
                           /\ reviews[n].rev = pin.rev /\ reviews[n].brief = pin.brief
           /\ D = {} => Form(s, pin.rev).plan = {}
<1> PICK m : m = moves[s][i]
  OBVIOUS
<1> PICK sub : sub = LastOf(Submits(SubSeq(moves[s], 1, i)))
  OBVIOUS
<1>1. MoveFits(s, i)
  BY DEF ScopesFit
<1>2. i # 1 => <<m.from, m.command, m.to>> \in Edges
  BY <1>1 DEF MoveFits
<1>3. i # 1
  BY <1>1 DEF MoveFits
<1> PICK e : e = <<m.from, m.command, m.to>>
  OBVIOUS
<1>4. m.command = "approve"
  <2>1. e \in Edges /\ e[3] = "approved" /\ e[2] = m.command
    BY <1>2, <1>3
  <2>2. QED
    BY <2>1, EdgeShape
<1>5. Discharged(s, moves[s][sub], D)
  BY <1>1, <1>4 DEF MoveFits, GatedCommands
<1>6. moves[s] \in Seq(MoveRow)
  BY DEF Typed, RolloutTypeOK, ScopeTypeOK
<1>7. i \in 0..Len(moves[s])
  BY <1>6, LenProperties
<1>8. pin.rev = moves[s][sub].rev /\ pin.snap = moves[s][sub].snap /\ pin.brief = moves[s][sub].brief
  BY <1>7, RoundOfPart
<1>9. \A n \in D : /\ reviews[n].scope = s /\ reviews[n].snap = pin.snap
                   /\ reviews[n].rev = pin.rev /\ reviews[n].brief = pin.brief
  BY <1>5, <1>8 DEF Discharged
<1>10. {reviews[n].lens : n \in D} = Form(s, pin.rev).plan
  BY <1>5, <1>8 DEF Discharged
<1> QED
  BY <1>9, <1>10

\* What the gate of a promotion lets through.
LEMMA ReviewGateIs ==
    ASSUME ReleaseInv, NEW r \in Rollouts, rollouts[r] # <<>>, ReviewGate(r),
           NEW d, d = Last(rollouts[r]), NEW app, app = ApprovedRound(d.scope),
           NEW m, m.rev = Len(rollouts[r]), m.reviewed = app.discharged
    PROVE  /\ ReviewsDischarged(r, m)
           /\ app.discharged \in SUBSET Nat
           /\ Last(decls[d.scope]).brief = brief /\ app # None /\ app.pin.rev = Len(decls[d.scope])
           /\ app.pin.brief = brief /\ app.pin.plan = Latest(d.scope).plan /\ app.pin.snap = d.snap
           /\ \A n \in app.discharged : reviews[n].by \notin ReviewExclusions(d.scope)
<1> PICK s : s = d.scope
  OBVIOUS
<1>1. d = rollouts[r][m.rev] /\ s \in Scopes /\ m.rev \in DOMAIN rollouts[r]
  BY LatestRollout DEF RolloutRow
<1>2. Typed /\ ScopesFit
  BY DEF ReleaseInv
<1>3. moves[s] \in Seq(MoveRow)
  BY <1>1, <1>2 DEF Typed, RolloutTypeOK, ScopeTypeOK
<1>4. /\ Last(decls[s]).brief = brief /\ StandingApproval(s) # None
      /\ StandingApproval(s).rev = Len(decls[s]) /\ StandingApproval(s).snap = d.snap
  BY DEF ReviewGate
<1>5. PICK round : app # None /\ Fresh(s, app.pin) /\ app.discharged \subseteq EligibleReviews(s, round)
                   /\ StandingApproval(s) = app.pin
  BY <1>4 DEF StandingApproval
<1> PICK i : i = LastOf(Approvals(moves[s]))
  OBVIOUS
<1> PICK pin : pin = app.pin
  OBVIOUS
<1> PICK D : D = app.discharged
  OBVIOUS
<1>6. /\ i \in DOMAIN moves[s] /\ moves[s][i].to = "approved"
      /\ pin = RoundIn(SubSeq(moves[s], 1, i)) /\ D = moves[s][i].discharged
  BY <1>3, <1>5, ApprovedIs
<1>7. pin # None /\ pin.brief = brief /\ pin.rev = Len(decls[s]) /\ pin.plan = Latest(s).plan /\ pin.snap = d.snap
  BY <1>4, <1>5 DEF Fresh
<1>8. /\ \A n \in D : /\ reviews[n].scope = s /\ reviews[n].snap = pin.snap
                      /\ reviews[n].rev = pin.rev /\ reviews[n].brief = pin.brief
      /\ D = {} => Form(s, pin.rev).plan = {}
  <2>1. /\ Typed /\ ScopesFit /\ s \in Scopes /\ i \in DOMAIN moves[s] /\ moves[s][i].to = "approved"
        /\ pin = RoundIn(SubSeq(moves[s], 1, i)) /\ pin # None /\ D = moves[s][i].discharged
    BY <1>1, <1>2, <1>6, <1>7
  <2>2. QED
    BY ONLY <2>1, ApprovalRests
<1>9. ReviewsDischarged(r, m)
  <2>1. \A n \in m.reviewed : reviews[n].scope = d.scope /\ reviews[n].snap = d.snap
    BY <1>7, <1>8
  <2>2. /\ i \in DOMAIN moves[d.scope] /\ moves[d.scope][i].to = "approved" /\ moves[d.scope][i].discharged = m.reviewed
        /\ RoundIn(SubSeq(moves[d.scope], 1, i)) # None /\ RoundIn(SubSeq(moves[d.scope], 1, i)).snap = d.snap
        /\ \A n \in m.reviewed : /\ reviews[n].rev = RoundIn(SubSeq(moves[d.scope], 1, i)).rev
                                /\ reviews[n].brief = RoundIn(SubSeq(moves[d.scope], 1, i)).brief
        /\ m.reviewed = {} => Form(d.scope, RoundIn(SubSeq(moves[d.scope], 1, i)).rev).plan = {}
    BY <1>6, <1>7, <1>8
  <2>3. QED
    BY <1>1, <2>1, <2>2 DEF ReviewsDischarged
<1>10. D \in SUBSET Nat
  <2>1. D \subseteq DOMAIN reviews
    BY <1>1, <1>2, <1>6, DischargedIsThere
  <2>2. reviews \in Seq(ReviewRow)
    BY <1>2 DEF Typed, RolloutTypeOK, ScopeTypeOK
  <2>3. QED
    BY <2>1, <2>2, LenProperties
<1>11. \A n \in D : reviews[n].by \notin ReviewExclusions(s)
  BY <1>5 DEF EligibleReviews
<1> QED
  BY <1>4, <1>5, <1>7, <1>9, <1>10, <1>11

\* An edge leads from a state to a state by a command.
LEMMA RolloutEdgeShape ==
    ASSUME NEW e \in RolloutEdges
    PROVE  /\ e = <<e[1], e[2], e[3]>> /\ e[1] \in RolloutStates /\ e[3] \in RolloutStates
           /\ e[2] \in RolloutCommands
<1>1. e[2] \in RolloutCommands
  BY DEF RolloutCommands
<1>2. e = <<e[1], e[2], e[3]>> /\ e[1] \in RolloutStates /\ e[3] \in RolloutStates
  BY DEF RolloutEdges, RolloutStates
<1> QED
  BY <1>1, <1>2

\* The roster that a move may pin.
LEMMA CohortIs ==
    ASSUME ReleaseInv
    PROVE  /\ CohortSnapshot \in Cohort /\ CohortSnapshot # None
           /\ CohortSnapshot.members \subseteq Lineage \cup seats
           /\ CohortSnapshot.assignment \in 1..StructuralRevision
<1>1. /\ EffectiveOwner \in Leads /\ EffectiveOwner \in Lineage /\ Len(owners) \in Nat \ {0}
      /\ seats \subseteq Agents /\ IsFiniteSet(seats)
  BY InvCustody, AgentsKnown DEF CustodyFits, CustodyTypeOK
<1>2. Cardinality(seats) \in Nat
  BY <1>1, FS_CardinalityType
<1>3. StructuralRevision \in Nat \ {0} /\ OwnershipRevision \in Nat
  BY <1>1, <1>2 DEF StructuralRevision, OwnershipRevision
<1>4. {EffectiveOwner} \cup seats \subseteq Agents /\ {EffectiveOwner} \cup seats \subseteq Lineage \cup seats
  BY <1>1 DEF Agents
<1>5. CohortSnapshot \in Cohort
  BY <1>3, <1>4 DEF CohortSnapshot, Cohort
<1>6. CohortSnapshot # None
  BY <1>5, RolloutAssumption
<1> QED
  BY <1>3, <1>4, <1>5, <1>6 DEF CohortSnapshot

\* What a move of a rollout commits rests on what its gates let through.
LEMMA MoveRolloutStep ==
    ASSUME ReleaseInv, NEW l, NEW r \in Rollouts, NEW cmd, NEW target \in Snapshots \cup {None},
           MoveRollout(l, r, cmd, target), UNCHANGED settlementVars
    PROVE  ReleaseInv' /\ Grown /\ RolloutRowsTimely
<1> PICK from : from = RolloutState(r)
  OBVIOUS
<1> PICK e : e = CHOOSE x \in RolloutEdges : x[1] = from /\ x[2] = cmd
  OBVIOUS
<1> PICK d : d = Last(rollouts[r])
  OBVIOUS
<1> PICK D : D = IF cmd \in CheckGated THEN CheckDischarges(r) ELSE {}
  OBVIOUS
<1> PICK app : app = ApprovedRound(d.scope)
  OBVIOUS
<1> PICK R : R = IF cmd = "promote" THEN app.discharged ELSE {}
  OBVIOUS
<1> PICK m : m = [command |-> cmd, from |-> from, to |-> e[3], rev |-> Len(rollouts[r]), by |-> l,
                  cohort |-> IF cmd = "start-canary" THEN CohortSnapshot ELSE None,
                  gate |-> IF cmd \in CohortGated THEN CohortSnapshot ELSE None,
                  target |-> target, checked |-> D, reviewed |-> R]
  OBVIOUS
<1>1. /\ OwnsOpen(l) /\ rollouts[r] # <<>>
      /\ \E to \in RolloutStates : <<from, cmd, to>> \in RolloutEdges
      /\ target # None <=> cmd = "rollback"
      /\ target # None => CandidateOf(target) # None
      /\ cmd \in CheckGated => CheckDischarges(r) # None
      /\ cmd = "promote" => ReviewGate(r)
      /\ cmd \in CohortGated => CohortGate(r)
      /\ rmoves' = [rmoves EXCEPT ![r] = Append(rmoves[r], m)]
      /\ UNCHANGED <<custodyVars, handbackVars, scopeVars, defs, rollouts, runs, jobs>>
  BY DEF MoveRollout
<1>2. /\ m.command = cmd /\ m.from = from /\ m.to = e[3] /\ m.rev = Len(rollouts[r]) /\ m.by = l
      /\ m.cohort = IF cmd = "start-canary" THEN CohortSnapshot ELSE None
      /\ m.gate = IF cmd \in CohortGated THEN CohortSnapshot ELSE None
      /\ m.target = target /\ m.checked = D /\ m.reviewed = R
  OBVIOUS
<1>3. e[3] \in RolloutStates /\ cmd \in RolloutCommands /\ from \in RolloutStates /\ <<from, cmd, e[3]>> \in RolloutEdges
  <2>1. \E x \in RolloutEdges : x[1] = from /\ x[2] = cmd
    BY <1>1
  <2>2. e \in RolloutEdges /\ e[1] = from /\ e[2] = cmd
    BY <2>1
  <2>3. e = <<e[1], e[2], e[3]>> /\ e[1] \in RolloutStates /\ e[3] \in RolloutStates /\ e[2] \in RolloutCommands
    BY <2>2, RolloutEdgeShape
  <2>4. e = <<from, cmd, e[3]>>
    BY <2>2, <2>3
  <2>5. QED
    BY <2>2, <2>3, <2>4
<1>4. l = EffectiveOwner /\ l \in Lineage /\ l \in Leads
  BY <1>1, OwnerKnown
<1>5. Len(rollouts[r]) \in DOMAIN rollouts[r] /\ Len(rollouts[r]) \in Nat /\ d = rollouts[r][m.rev]
  BY <1>1, <1>2, LatestRollout
<1>6. cmd \in CheckGated => ChecksDischarged(r, m) /\ D \in SUBSET Nat
  BY <1>1, <1>2, CheckDischargeIs
<1>7. cmd = "promote" =>
        /\ ReviewsDischarged(r, m) /\ R \in SUBSET Nat
        /\ Last(decls[d.scope]).brief = brief /\ app # None /\ app.pin.rev = Len(decls[d.scope])
        /\ app.pin.brief = brief /\ app.pin.plan = Latest(d.scope).plan /\ app.pin.snap = d.snap
        /\ app.discharged = R
        /\ \A n \in R : reviews[n].by \notin ReviewExclusions(d.scope)
  <2>1. ASSUME cmd = "promote" PROVE R = app.discharged /\ m.reviewed = app.discharged /\ ReviewGate(r)
    BY <1>1, <1>2, <2>1
  <2>2. m.rev = Len(rollouts[r]) /\ rollouts[r] # <<>>
    BY <1>1, <1>2
  <2>3. QED
    BY <2>1, <2>2, ReviewGateIs
<1>8. D \in SUBSET Nat /\ R \in SUBSET Nat
  BY <1>6, <1>7
<1>9. m \in RolloutMove
  BY <1>3, <1>4, <1>5, <1>8, CohortIs DEF RolloutMove
<1>10. rmoves \in [Rollouts -> Seq(RolloutMove)]
  BY RolloutTypes
<1> PICK i : i = Len(rmoves[r]) + 1
  OBVIOUS
<1>11. rmoves[r] \in Seq(RolloutMove) /\ Len(rmoves[r]) \in Nat \ {0} /\ DOMAIN rmoves[r] = 1..Len(rmoves[r])
       /\ from = rmoves[r][Len(rmoves[r])].to
  <2>1. rmoves[r] # <<>> /\ rmoves[r] \in Seq(RolloutMove)
    BY <1>1, <1>10 DEF ReleaseInv, RolloutsFit
  <2>2. QED
    BY <2>1, LenProperties, EmptySeq DEF RolloutState, Last
<1>12. /\ rmoves'[r] \in Seq(RolloutMove) /\ DOMAIN rmoves'[r] = 1..i /\ DOMAIN rmoves'[r] \ DOMAIN rmoves[r] = {i}
       /\ rmoves'[r][i] = m /\ Continues(rmoves[r], rmoves'[r]) /\ i \in Nat /\ i # 1
       /\ rmoves'[r][i - 1] = rmoves[r][i - 1] /\ rmoves[r][i - 1].to = from
       /\ SubSeq(rmoves'[r], 1, i) = rmoves'[r] /\ rmoves'[r] # <<>>
       /\ \A k \in DOMAIN rmoves[r] : rmoves'[r][k] = rmoves[r][k]
  <2>1. /\ rmoves'[r] \in Seq(RolloutMove) /\ Len(rmoves'[r]) = i /\ DOMAIN rmoves'[r] = 1..i
        /\ DOMAIN rmoves'[r] \ DOMAIN rmoves[r] = {i} /\ rmoves'[r][i] = m
        /\ Continues(rmoves[r], rmoves'[r])
    BY <1>1, <1>9, <1>10, Appends
  <2>2. SubSeq(rmoves'[r], 1, i) = rmoves'[r]
    BY <2>1, SubSeqFull
  <2>3. i - 1 = Len(rmoves[r]) /\ i # 1 /\ i - 1 \in DOMAIN rmoves[r]
    BY <1>11
  <2>4. rmoves'[r] # <<>>
    BY <1>11, <2>1, EmptySeq
  <2>5. \A k \in DOMAIN rmoves[r] : rmoves'[r][k] = rmoves[r][k]
    BY <2>1 DEF Continues
  <2>6. i \in Nat /\ rmoves'[r][i - 1] = rmoves[r][i - 1] /\ rmoves[r][i - 1].to = from
    BY <1>11, <2>3, <2>5
  <2>7. QED
    BY <2>1, <2>2, <2>3, <2>4, <2>5, <2>6
<1>13. rmoves' \in [Rollouts -> Seq(RolloutMove)] /\ \A p \in Rollouts : p # r => rmoves'[p] = rmoves[p]
  <2>1. Append(rmoves[r], m) \in Seq(RolloutMove)
    BY <1>9, <1>11, Appends
  <2>2. QED
    BY <1>1, <1>10, <2>1
<1>14. \A p \in Rollouts : Continues(rmoves[p], rmoves'[p])
  BY <1>12, <1>13, RolloutTypes
<1>15. Typed' /\ Grown /\ IsFiniteSet(seats')
  BY <1>1, <1>13, <1>14, RolloutTypes, RolloutFrame
<1>16. cmd \in CheckGated => ChecksDischarged(r, m)'
  BY <1>2, <1>5, <1>6, <1>15, ChecksStay DEF ReleaseInv
<1>17. cmd = "promote" => ReviewsDischarged(r, m)'
  BY <1>2, <1>5, <1>7, <1>15, InvCustody, ReviewedStay DEF ReleaseInv
<1>18. UNCHANGED <<seats, owners, open, candidates, brief>>
  BY <1>1 DEF custodyVars, handbackVars
<1>19. Lineage' = Lineage /\ StructuralRevision' = StructuralRevision /\ CandidateOf(target)' = CandidateOf(target)
  BY <1>18 DEF Lineage, StructuralRevision, CandidateOf
<1>20. cmd \in CohortGated =>
         /\ LastOf(Canaries(rmoves'[r])) > 0
         /\ m.gate = rmoves'[r][LastOf(Canaries(rmoves'[r]))].cohort
  <2> PICK I : I = Canaries(rmoves[r])
    OBVIOUS
  <2>1. ASSUME cmd \in CohortGated
        PROVE  LastOf(Canaries(rmoves'[r])) > 0 /\ m.gate = rmoves'[r][LastOf(Canaries(rmoves'[r]))].cohort
    <3>1. cmd # "start-canary"
      BY <2>1 DEF CohortGated
    <3>2. Canaries(rmoves'[r]) = I
      BY <1>2, <1>11, <1>12, <3>1 DEF Canaries
    <3>3. I \in SUBSET (1..Len(rmoves[r]))
      BY <1>11 DEF Canaries
    <3>4. PinnedCohort(r) = IF LastOf(I) = 0 THEN None ELSE rmoves[r][LastOf(I)].cohort
      BY TestsNamed DEF PinnedCohort
    <3>5. PinnedCohort(r) # None /\ CohortSnapshot = PinnedCohort(r)
      BY <1>1, <2>1 DEF CohortGate
    <3>6. LastOf(I) \in 0..Len(rmoves[r])
      BY <1>11, <3>3, LastIs
    <3>7. LastOf(I) > 0 /\ LastOf(I) \in DOMAIN rmoves[r]
      BY <1>11, <3>4, <3>5, <3>6
    <3>8. m.gate = rmoves'[r][LastOf(I)].cohort
      BY <1>2, <1>12, <2>1, <3>4, <3>5, <3>7
    <3>9. QED
      BY <3>2, <3>7, <3>8
  <2>2. QED
    BY <2>1
<1>21. RolloutMoveFits(r, i)'
  <2>1. m.by \in Lineage' /\ m.rev \in DOMAIN rollouts'[r]
    BY <1>1, <1>2, <1>4, <1>5, <1>19
  <2>2. m.from = rmoves'[r][i - 1].to /\ <<m.from, m.command, m.to>> \in RolloutEdges
    BY <1>2, <1>3, <1>12
  <2>3. m.cohort # None <=> m.command = "start-canary"
    BY <1>2, CohortIs
  <2>4. m.cohort # None => /\ m.cohort.members \subseteq Lineage' \cup seats'
                           /\ m.cohort.assignment \in 1..StructuralRevision'
    BY <1>2, <1>18, <1>19, CohortIs
  <2>5. (m.target # None <=> m.command = "rollback") /\ (m.target # None => CandidateOf(m.target)' # None)
    BY <1>1, <1>2, <1>19
  <2>6. /\ m.command \in CheckGated => ChecksDischarged(r, m)'
        /\ m.command \notin CheckGated => m.checked = {}
        /\ m.command = "promote" => ReviewsDischarged(r, m)'
        /\ m.command # "promote" => m.reviewed = {}
        /\ m.command \notin CohortGated => m.gate = None
    BY <1>2, <1>16, <1>17
  <2>7. m.command \in CohortGated =>
          /\ LastOf(Canaries(SubSeq(rmoves'[r], 1, i))) > 0
          /\ m.gate = rmoves'[r][LastOf(Canaries(SubSeq(rmoves'[r], 1, i)))].cohort
    BY <1>2, <1>12, <1>20
  <2>8. QED
    BY <1>12, <2>1, <2>2, <2>3, <2>4, <2>5, <2>6, <2>7 DEF RolloutMoveFits
<1>22. \A p \in Rollouts : \A k \in DOMAIN rmoves'[p] \ DOMAIN rmoves[p] : p = r /\ k = i
  BY <1>12, <1>13
<1>23. RunsFit'
  BY <1>1, <1>15, RunsKept
<1>24. RolloutsFit'
  <2>1. \A p \in Rollouts : \A k \in DOMAIN rmoves'[p] \ DOMAIN rmoves[p] : RolloutMoveFits(p, k)'
    BY <1>21, <1>22
  <2>2. \A p \in Rollouts : rollouts'[p] = <<>> <=> rmoves'[p] = <<>>
    <3>1. \A p \in Rollouts : rollouts[p] = <<>> <=> rmoves[p] = <<>>
      BY DEF ReleaseInv, RolloutsFit
    <3>2. QED
      BY <1>1, <1>12, <1>13, <3>1
  <2>3. \A j \in jobs' : j.at = "measured" => j.status \in {"passed", "failed"}
    BY <1>1 DEF ReleaseInv, RolloutsFit
  <2>4. QED
    BY <1>1, <1>15, <2>1, <2>2, <2>3, RolloutsKept
<1>25. ReleaseInv'
  BY <1>1, <1>13, <1>14, <1>23, <1>24, RolloutTypes, RolloutFrame
<1>26. RolloutMoveTimely(r, i)
  <2>1. ASSUME cmd = "promote" PROVE PromotionTimely(r, i)
    BY <1>2, <1>5, <1>7, <1>12, <2>1 DEF PromotionTimely
  <2>2. QED
    BY <1>2, <1>4, <1>12, <2>1 DEF RolloutMoveTimely
<1>27. RolloutRowsTimely
  BY <1>1, <1>22, <1>26 DEF RolloutRowsTimely, OwnersRows
<1> QED
  BY <1>15, <1>25, <1>27

\* Every rollout command keeps the invariant, and writes timely rows.
LEMMA RolloutStepKeeps == ASSUME ReleaseInv, RolloutStep PROVE ReleaseInv' /\ Grown /\ RolloutRowsTimely
<1>1. UNCHANGED settlementVars /\ RolloutNext
  BY DEF RolloutStep
<1>2. ASSUME NEW l \in Leads, NEW q \in Checks, NEW s \in Scopes, NEW df \in Definitions, DeclareCheck(l, q, s, df)
      PROVE  ReleaseInv' /\ Grown /\ RolloutRowsTimely
  BY <1>1, <1>2, DeclareCheckStep
<1>3. ASSUME NEW l \in Leads, NEW r \in Rollouts, NEW s \in Scopes, NEW pin \in Pins,
             DeclareRollout(l, r, s, pin.snap, pin.required)
      PROVE  ReleaseInv' /\ Grown /\ RolloutRowsTimely
  BY <1>1, <1>3, DeclareRolloutStep
<1>4. ASSUME NEW l \in Leads, NEW r \in Rollouts, NEW cmd \in RolloutCommands, NEW c \in Snapshots \cup {None},
             MoveRollout(l, r, cmd, c)
      PROVE  ReleaseInv' /\ Grown /\ RolloutRowsTimely
  BY <1>1, <1>4, MoveRolloutStep
<1>5. ASSUME NEW l \in Leads, NEW r \in Rollouts, NEW q \in Checks, NEW id \in CheckRequests, NEW ev \in BOOLEAN,
             StartCheck(l, r, q, id, ev)
      PROVE  ReleaseInv' /\ Grown /\ RolloutRowsTimely
  BY <1>1, <1>5, StartCheckStep
<1>6. ASSUME NEW j \in jobs, MeasureBefore(j) \/ \E status \in {"passed", "failed"} : MeasureAfter(j, status)
      PROVE  ReleaseInv' /\ Grown /\ RolloutRowsTimely
  BY <1>1, <1>6, MeasureStep
<1>7. ASSUME NEW j \in jobs, CommitRun(j) PROVE ReleaseInv' /\ Grown /\ RolloutRowsTimely
  BY <1>1, <1>7, CommitRunStep
<1> QED
  BY <1>1, <1>2, <1>3, <1>4, <1>5, <1>6, <1>7 DEF RolloutNext

-----------------------------------------------------------------------------
(* The settlements. *)

SettlementRowsTimely == \A i \in DOMAIN settlements' \ DOMAIN settlements : SettlementTimely(i)

\* What a settlement command leaves to itself.
LEMMA SettleFrame ==
    ASSUME ReleaseInv, UNCHANGED <<custodyVars, handbackVars, scopeVars, rolloutVars>>,
           recorders' \subseteq RecorderRows, settlements' \in Seq(SettlementRows),
           Continues(settlements, settlements')
    PROVE  /\ Typed' /\ Grown
           /\ SettlementsFit' => ReleaseInv'
<1>1. UNCHANGED <<open, live, owners, offers, seats, brief, tree, handbacks, candidates, captures,
                  decls, moves, reviews, bound, defs, rollouts, rmoves, runs, jobs>>
  BY DEF custodyVars, handbackVars, scopeVars, rolloutVars
<1>2. CustodyFits' /\ CustodyGrows
  BY <1>1, InvCustody, CustodySame
<1>3. Typed'
  BY <1>1, <1>2 DEF ReleaseInv, Typed, RolloutTypeOK, ScopeTypeOK, CustodyFits
<1>4. Grown
  BY <1>1, <1>2, Stays DEF ReleaseInv, Typed, RolloutTypeOK, ScopeTypeOK, Grown
<1>5. IsFiniteSet(seats') /\ OwnersFit' /\ HandbacksFit'
  BY <1>2 DEF CustodyFits, OwnersFit
<1>6. ScopesFit' /\ GraphFits' /\ SurfacesRead' /\ RunsFit' /\ RolloutsFit'
  BY <1>3, <1>4, <1>5, SameScopes, SameRollouts
<1> QED
  BY <1>3, <1>4, <1>5, <1>6 DEF ReleaseInv

\* Calls that are still on their way leave no row.
LEMMA RecordersStep ==
    ASSUME ReleaseInv, UNCHANGED <<custodyVars, handbackVars, scopeVars, rolloutVars, settlements>>,
           recorders' \subseteq RecorderRows, \A j \in recorders' : VerdictFits(j.claim, j.verdict)
    PROVE  ReleaseInv' /\ Grown /\ SettlementRowsTimely
<1>1. settlements \in Seq(SettlementRows) /\ Continues(settlements, settlements)
  BY Stays DEF ReleaseInv, Typed
<1>2. Typed' /\ Grown
  BY <1>1, SettleFrame
<1>3. SettlementsFit'
  BY <1>2, SettlementsKept
<1>4. ReleaseInv'
  BY <1>1, <1>3, SettleFrame
<1> QED
  BY <1>2, <1>4 DEF SettlementRowsTimely

\* A call that read its transcript carries the verdict that its claim admits.
LEMMA RecordSettlementStep ==
    ASSUME ReleaseInv, NEW l \in Leads, NEW id \in SettleRequests, NEW claim \in Claims,
           RecordSettlement(l, id, claim), UNCHANGED <<scopeVars, rolloutVars>>
    PROVE  ReleaseInv' /\ Grown /\ SettlementRowsTimely
<1>1. PICK v \in Verdicts(claim) :
         recorders' = recorders \cup {[by |-> l, req |-> id, claim |-> claim, verdict |-> v]}
  BY DEF RecordSettlement
<1>2. UNCHANGED <<custodyVars, handbackVars, scopeVars, rolloutVars, settlements>>
  BY DEF RecordSettlement
<1> PICK j : j = [by |-> l, req |-> id, claim |-> claim, verdict |-> v]
  OBVIOUS
<1>3. v \in Verdict /\ (claim.export = None <=> v = None)
  BY <1>1, SettlementAssumption DEF Verdicts, Verdict
<1>4. j \in RecorderRows /\ VerdictFits(j.claim, j.verdict)
  BY <1>3 DEF RecorderRows, VerdictFits
<1>5. recorders' = recorders \cup {j}
  BY <1>1
<1>6. recorders' \subseteq RecorderRows /\ \A k \in recorders' : VerdictFits(k.claim, k.verdict)
  BY <1>4, <1>5 DEF ReleaseInv, Typed, SettlementsFit
<1> QED
  BY <1>2, <1>6, RecordersStep

\* The next revision of a seat's settlement is above those there are.
LEMMA NextRevision ==
    ASSUME ReleaseInv, NEW seat, NEW n, n = RevisionFor(seat)
    PROVE  /\ n \in 1..Len(settlements) + 1
           /\ \A i \in DOMAIN settlements : settlements[i].claim.seat = seat => settlements[i].rev < n
<1> PICK I : I = {i \in DOMAIN settlements : settlements[i].claim.seat = seat}
  OBVIOUS
<1> PICK V : V = {0} \cup {settlements[i].rev : i \in I}
  OBVIOUS
<1>1. n = Max(V) + 1
  BY DEF RevisionFor
<1>2. DOMAIN settlements = 1..Len(settlements) /\ Len(settlements) \in Nat
  BY LenProperties DEF ReleaseInv, Typed
<1>3. \A i \in DOMAIN settlements : settlements[i].rev \in 1..i
  BY DEF ReleaseInv, SettlementsFit, SettlementFits
<1>4. V \in SUBSET (0..Len(settlements)) /\ V # {}
  BY <1>2, <1>3
<1>5. Max(V) \in V /\ \A u \in V : u <= Max(V)
  BY <1>2, <1>4, Greatest
<1>6. Max(V) \in 0..Len(settlements)
  BY <1>4, <1>5
<1>7. ASSUME NEW i \in DOMAIN settlements, settlements[i].claim.seat = seat PROVE settlements[i].rev < n
  <2>1. settlements[i].rev \in V
    BY <1>7
  <2>2. settlements[i].rev <= Max(V) /\ settlements[i].rev \in 0..Len(settlements)
    BY <1>4, <1>5, <2>1
  <2>3. QED
    BY <1>1, <1>2, <1>6, <2>2
<1> QED
  BY <1>1, <1>2, <1>6, <1>7

\* An export that could not be read leaves its gap, and one that was verified none.
LEMMA GapsAre ==
    ASSUME NEW claim, NEW v, VerdictFits(claim, v)
    PROVE  /\ GapsOf(claim, v) \subseteq GapNames
           /\ StatusOfClaim(claim, v) \in {"completed", "partial", "blocked"}
           /\ v = "unavailable" => StatusOfClaim(claim, v) # "completed" /\ "unverified" \in GapsOf(claim, v)
           /\ v = "verified" => "unverified" \notin GapsOf(claim, v)
<1>1. GapsOf(claim, v) \subseteq GapNames
  BY DEF GapsOf, GapNames
<1>2. StatusOfClaim(claim, v) \in {"completed", "partial", "blocked"}
  BY DEF StatusOfClaim
<1>3. ASSUME v = "unavailable" PROVE StatusOfClaim(claim, v) # "completed" /\ "unverified" \in GapsOf(claim, v)
  <2>1. claim.export # None
    BY <1>3, SettlementAssumption DEF VerdictFits
  <2>2. QED
    BY <1>3, <2>1 DEF StatusOfClaim, Covered, GapsOf
<1>4. ASSUME v = "verified" PROVE "unverified" \notin GapsOf(claim, v)
  BY <1>4 DEF GapsOf
<1> QED
  BY <1>1, <1>2, <1>3, <1>4

\* A settlement whose call was on its way is recorded once, by who owns the
\* assignment when it is.
LEMMA CommitSettlementStep ==
    ASSUME ReleaseInv, NEW j \in recorders, CommitSettlement(j), UNCHANGED <<scopeVars, rolloutVars>>
    PROVE  ReleaseInv' /\ Grown /\ SettlementRowsTimely
<1>1. /\ UNCHANGED <<custodyVars, handbackVars, scopeVars, rolloutVars>>
      /\ recorders' \subseteq recorders
  BY DEF CommitSettlement
<1>2. /\ recorders' \subseteq RecorderRows /\ \A k \in recorders' : VerdictFits(k.claim, k.verdict)
      /\ j \in RecorderRows /\ VerdictFits(j.claim, j.verdict)
  BY <1>1 DEF ReleaseInv, Typed, SettlementsFit
<1>3. CASE ~(~Recorded(j) /\ Acceptable(j))
  <2>1. settlements' = settlements
    BY <1>3 DEF CommitSettlement
  <2>2. QED
    BY <1>1, <1>2, <2>1, RecordersStep
<1>4. CASE ~Recorded(j) /\ Acceptable(j)
  <2> PICK claim : claim = j.claim
    OBVIOUS
  <2> PICK v : v = j.verdict
    OBVIOUS
  <2> PICK rev : rev = RevisionFor(claim.seat)
    OBVIOUS
  <2> PICK row : row = [by |-> j.by, req |-> j.req, claim |-> claim, verdict |-> v, rev |-> rev,
                        status |-> StatusOfClaim(claim, v), gaps |-> GapsOf(claim, v)]
    OBVIOUS
  <2>1. /\ settlements' = Append(settlements, row)
        /\ Owner(j.by) /\ claim.seat \in seats /\ RefsResolve(claim)
        /\ \A i \in DOMAIN settlements : ~(settlements[i].by = j.by /\ settlements[i].req = j.req)
    BY <1>4 DEF CommitSettlement, SettlementRow, Acceptable, Recorded
  <2>2. /\ rev \in 1..Len(settlements) + 1
        /\ \A i \in DOMAIN settlements : settlements[i].claim.seat = claim.seat => settlements[i].rev < rev
    BY NextRevision
  <2>3. /\ GapsOf(claim, v) \subseteq GapNames
        /\ StatusOfClaim(claim, v) \in {"completed", "partial", "blocked"}
        /\ v = "unavailable" => StatusOfClaim(claim, v) # "completed" /\ "unverified" \in GapsOf(claim, v)
        /\ v = "verified" => "unverified" \notin GapsOf(claim, v)
    BY <1>2, GapsAre
  <2>4. /\ row.by = j.by /\ row.req = j.req /\ row.claim = claim /\ row.verdict = v /\ row.rev = rev
        /\ row.status = StatusOfClaim(claim, v) /\ row.gaps = GapsOf(claim, v)
    OBVIOUS
  <2>5. settlements \in Seq(SettlementRows) /\ Len(settlements) \in Nat
    BY LenProperties DEF ReleaseInv, Typed
  <2>6. row \in SettlementRows
    <3>1. rev \in Nat /\ GapsOf(claim, v) \in SUBSET GapNames
      BY <2>2, <2>3, <2>5
    <3>2. j.by \in Leads /\ j.req \in SettleRequests /\ claim \in Claims /\ v \in Verdict
      BY <1>2 DEF RecorderRows
    <3>3. QED
      BY <2>3, <3>1, <3>2 DEF SettlementRows
  <2> PICK n : n = Len(settlements) + 1
    OBVIOUS
  <2>7. /\ settlements' \in Seq(SettlementRows) /\ DOMAIN settlements' \ DOMAIN settlements = {n}
        /\ settlements'[n] = row /\ Continues(settlements, settlements')
    BY <2>1, <2>5, <2>6, Appends
  <2>8. Typed' /\ Grown
    BY <1>1, <1>2, <2>7, SettleFrame
  <2>9. UNCHANGED <<owners, seats, handbacks, candidates>>
    BY <1>1 DEF custodyVars, handbackVars
  <2>10. j.by = EffectiveOwner /\ j.by \in Lineage
    BY <2>1, InvCustody, AgentsKnown DEF Owner
  <2>11. SettlementFits(n)'
    <3>1. row.by \in Lineage' /\ row.claim.seat \in seats' /\ RefsResolve(row.claim)'
      BY <2>1, <2>4, <2>9, <2>10 DEF Lineage, RefsResolve
    <3>2. row.rev \in 1..n /\ VerdictFits(row.claim, row.verdict)
      BY <1>2, <2>2, <2>4
    <3>3. /\ row.verdict = "unavailable" => row.status # "completed" /\ "unverified" \in row.gaps
          /\ row.verdict = "verified" => "unverified" \notin row.gaps
      BY <2>3, <2>4
    <3>4. QED
      BY <2>7, <3>1, <3>2, <3>3 DEF SettlementFits, VerdictFits
  <2>12. ASSUME NEW i \in DOMAIN settlements
         PROVE  /\ <<row.claim.seat, row.rev>> # <<settlements[i].claim.seat, settlements[i].rev>>
                /\ <<row.by, row.req>> # <<settlements[i].by, settlements[i].req>>
    <3>1. settlements[i].rev \in Nat
      <4>1. i \in 1..Len(settlements)
        BY <2>5, LenProperties
      <4>2. settlements[i] \in SettlementRows
        BY <2>5, <4>1, ElementOfSeq
      <4>3. QED
        BY <4>2 DEF SettlementRows
    <3>2. claim.seat = settlements[i].claim.seat => rev # settlements[i].rev
      BY <2>2, <2>5, <3>1
    <3>3. QED
      BY <2>1, <2>4, <3>2
  <2>13. SettlementsFit'
    BY <1>2, <2>7, <2>8, <2>11, <2>12, SettlementsKept
  <2>14. ReleaseInv'
    BY <1>1, <1>2, <2>7, <2>13, SettleFrame
  <2>15. SettlementRowsTimely
    BY <2>4, <2>7, <2>10 DEF SettlementRowsTimely, SettlementTimely
  <2>16. QED
    BY <2>8, <2>14, <2>15
<1> QED
  BY <1>3, <1>4

\* Every settlement command keeps the invariant, and writes timely rows.
LEMMA SettleStepKeeps == ASSUME ReleaseInv, SettleStep PROVE ReleaseInv' /\ Grown /\ SettlementRowsTimely
<1>1. UNCHANGED <<scopeVars, rolloutVars>> /\ SettlementNext
  BY DEF SettleStep
<1>2. ASSUME NEW t \in Transcripts \cup {None}, WriteTranscript(t)
      PROVE  ReleaseInv' /\ Grown /\ SettlementRowsTimely
  <2>1. UNCHANGED <<custodyVars, handbackVars, recorders, settlements>>
    BY <1>2 DEF WriteTranscript
  <2>2. recorders' \subseteq RecorderRows /\ \A j \in recorders' : VerdictFits(j.claim, j.verdict)
    BY <2>1 DEF ReleaseInv, Typed, SettlementsFit
  <2>3. QED
    BY <1>1, <2>1, <2>2, RecordersStep
<1>3. ASSUME NEW l \in Leads, NEW id \in SettleRequests, NEW claim \in Claims, RecordSettlement(l, id, claim)
      PROVE  ReleaseInv' /\ Grown /\ SettlementRowsTimely
  BY <1>1, <1>3, RecordSettlementStep
<1>4. ASSUME NEW j \in recorders, CommitSettlement(j) PROVE ReleaseInv' /\ Grown /\ SettlementRowsTimely
  BY <1>1, <1>4, CommitSettlementStep
<1> QED
  BY <1>1, <1>2, <1>3, <1>4 DEF SettlementNext

-----------------------------------------------------------------------------
(* The invariant of the system, and what it gives. *)

\* The rows that were there before the story began.
LEMMA CustodyInitFits == ASSUME CustodyInit PROVE CustodyFits
<1>1. /\ open = TRUE /\ live = Agents /\ seats = Attached /\ owners = <<Founder>> /\ offers = {} /\ brief = 0
      /\ captures = {}
  BY DEF CustodyInit
<1>2. DOMAIN Delivered = 1..Len(Delivered) /\ Len(Delivered) \in Nat
      /\ \A h \in DOMAIN Delivered : Delivered[h].seat \in Attached /\ Delivered[h].snap \in Snapshots
  <2>1. Delivered \in Seq([seat : Attached, snap : Snapshots])
    BY CustodyAssumption
  <2>2. DOMAIN Delivered = 1..Len(Delivered) /\ Len(Delivered) \in Nat
    BY <2>1, LenProperties
  <2>3. \A h \in DOMAIN Delivered : Delivered[h] \in [seat : Attached, snap : Snapshots]
    BY <2>1, <2>2, ElementOfSeq
  <2>4. QED
    BY <2>2, <2>3
<1>3. Attached \subseteq Agents /\ IsFiniteSet(Attached) /\ Founder \in Leads /\ Snapshots # {} /\ MaxBrief \in Nat
  BY CustodyAssumption DEF Agents
<1>4. /\ handbacks = [h \in 1..Len(Delivered) |-> [seat |-> Delivered[h].seat, observed |-> "ok"]]
      /\ candidates = [h \in 1..Len(Delivered) |->
            [handback |-> h, seat |-> Delivered[h].seat, snap |-> Delivered[h].snap]]
  BY <1>2 DEF CustodyInit
<1>5. handbacks \in Seq(HandbackRow) /\ candidates \in Seq(CandidateRow)
  <2>1. \A h \in 1..Len(Delivered) : [seat |-> Delivered[h].seat, observed |-> "ok"] \in HandbackRow
    BY <1>2, <1>3 DEF HandbackRow
  <2>2. \A h \in 1..Len(Delivered) :
          [handback |-> h, seat |-> Delivered[h].seat, snap |-> Delivered[h].snap] \in CandidateRow
    BY <1>2, <1>3 DEF CandidateRow
  <2>3. handbacks \in Seq(HandbackRow)
    BY <1>2, <1>4, <2>1, IsASeq
  <2>4. candidates \in Seq(CandidateRow)
    BY <1>2, <1>4, <2>2, IsASeq
  <2>5. QED
    BY <2>3, <2>4
<1>6. tree \in [Agents -> Snapshots]
  <2> DEFINE c == IF Delivered = <<>> THEN CHOOSE x \in Snapshots : TRUE ELSE Delivered[Len(Delivered)].snap
  <2>1. tree = [a \in Agents |-> c]
    BY DEF CustodyInit
  <2>2. (CHOOSE x \in Snapshots : TRUE) \in Snapshots
    BY <1>3
  <2>3. Delivered # <<>> => Delivered[Len(Delivered)].snap \in Snapshots
    <3>1. Delivered # <<>> => Len(Delivered) \in DOMAIN Delivered
      BY <1>2, CustodyAssumption, EmptySeq
    <3>2. QED
      BY <1>2, <3>1
  <2>4. c \in Snapshots
    BY <2>2, <2>3
  <2> HIDE DEF c
  <2>5. QED
    BY <2>1, <2>4
<1>7. owners \in Seq(Leads) /\ owners # <<>> /\ Len(owners) = 1
  BY <1>1, <1>3
<1>8. CustodyTypeOK
  BY <1>1, <1>3, <1>5, <1>6, <1>7 DEF CustodyTypeOK
<1>9. OwnersFit
  <2>1. OffersRead
    BY <1>1 DEF OffersRead
  <2>2. LineageReads
    BY <1>7 DEF LineageReads
  <2>3. QED
    BY <1>1, <1>3, <1>7, <2>1, <2>2 DEF OwnersFit
<1>10. HandbacksFit
  <2>1. /\ DOMAIN handbacks = 1..Len(Delivered) /\ DOMAIN candidates = 1..Len(Delivered)
        /\ \A h \in 1..Len(Delivered) :
             /\ handbacks[h].seat = Delivered[h].seat /\ handbacks[h].observed = "ok"
             /\ candidates[h].handback = h /\ candidates[h].seat = Delivered[h].seat
    BY <1>4
  <2>2. QED
    BY <1>1, <1>2, <2>1 DEF HandbacksFit
<1> QED
  BY <1>8, <1>9, <1>10 DEF CustodyFits

\* The first ledger has no rows but those of an assignment.
LEMMA InitFits == ASSUME Init PROVE ReleaseInv
<1>1. /\ decls = [s \in Scopes |-> <<>>] /\ moves = [s \in Scopes |-> <<>>] /\ reviews = <<>>
      /\ bound = [s \in Scopes |-> 0]
      /\ defs = [q \in Checks |-> <<>>] /\ rollouts = [r \in Rollouts |-> <<>>]
      /\ rmoves = [r \in Rollouts |-> <<>>] /\ runs = <<>> /\ jobs = {}
      /\ recorders = {} /\ settlements = <<>>
  BY DEF Init, RolloutInit, ScopeInit, SettlementInit
<1>2. CustodyFits
  BY CustodyInitFits DEF Init, RolloutInit, ScopeInit
<1>3. Typed
  <2>1. /\ decls \in [Scopes -> Seq(DeclarationRow)] /\ moves \in [Scopes -> Seq(MoveRow)]
        /\ reviews \in Seq(ReviewRow) /\ bound \in [Scopes -> Nat]
    BY <1>1
  <2>2. /\ defs \in [Checks -> Seq(DefinitionRow)] /\ rollouts \in [Rollouts -> Seq(RolloutRow)]
        /\ rmoves \in [Rollouts -> Seq(RolloutMove)] /\ runs \in Seq(RunRow) /\ jobs \subseteq Job
    BY <1>1
  <2>3. recorders \subseteq RecorderRows /\ settlements \in Seq(SettlementRows)
    BY <1>1
  <2>4. QED
    BY <1>2, <2>1, <2>2, <2>3 DEF Typed, RolloutTypeOK, ScopeTypeOK, CustodyFits
<1>4. DOMAIN <<>> = {}
  OBVIOUS
<1>5. ScopesFit
  BY <1>1, <1>4 DEF ScopesFit
<1>6. Declared = {}
  BY <1>1 DEF Declared
<1>7. GraphFits
  <2>1. {e \in Declared \X Declared : e[2] \in Latest(e[1]).deps} = {}
    BY <1>6
  <2>2. Acyclic({})
    <3>1. ASSUME NEW C \in (SUBSET Scopes) \ {{}} PROVE \E t \in C : \A d \in C : <<t, d>> \notin {}
      <4>1. C # {}
        OBVIOUS
      <4>2. \E t : t \in C
        BY ONLY <4>1
      <4>3. QED
        BY <4>2
    <3>2. QED
      BY <3>1 DEF Acyclic
  <2>3. QED
    BY <2>1, <2>2 DEF GraphFits
<1>8. SurfacesRead
  BY <1>6 DEF SurfacesRead, Moving
<1>9. RunsFit
  BY <1>1, <1>4 DEF RunsFit
<1>10. RolloutsFit
  BY <1>1, <1>4 DEF RolloutsFit
<1>11. SettlementsFit
  BY <1>1, <1>4 DEF SettlementsFit
<1> QED
  BY <1>2, <1>3, <1>5, <1>7, <1>8, <1>9, <1>10, <1>11 DEF ReleaseInv, CustodyFits

\* Nothing done, nothing written.
LEMMA Stutters == ASSUME ReleaseInv, UNCHANGED vars PROVE ReleaseInv'
<1>1. UNCHANGED <<custodyVars, handbackVars, scopeVars, rolloutVars, settlements>> /\ recorders' = recorders
  BY DEF vars, settlementVars
<1>2. recorders' \subseteq RecorderRows /\ \A j \in recorders' : VerdictFits(j.claim, j.verdict)
  BY <1>1 DEF ReleaseInv, Typed, SettlementsFit
<1> QED
  BY <1>1, <1>2, RecordersStep

\* A step of each part keeps the ledger together.
LEMMA StepKeeps == ASSUME ReleaseInv, [Next]_vars PROVE ReleaseInv'
  BY CustodyStepKeeps, ScopeStepKeeps, RolloutStepKeeps, SettleStepKeeps, Stutters DEF Next

\* What the commands of desk-assignment.ts, desk-ownership.ts, desk-scope.ts,
\* desk-handback.ts, desk-rollout.ts, desk-check-runner.ts and
\* desk-settlement.ts let through, in any order and for any number of agents,
\* scopes, checks and rollouts, are rows that fit together, and what a row
\* rests on is never taken back.
THEOREM LedgerFits == Spec => []ReleaseInv
<1>1. Init => ReleaseInv
  BY InitFits
<1>2. ReleaseInv /\ [Next]_vars => ReleaseInv'
  BY StepKeeps
<1> QED
  BY <1>1, <1>2, PTL DEF Spec

-----------------------------------------------------------------------------
(* What the loader demands follows. *)

\* The loader accepts the owners, offers, handbacks and candidates.
LEMMA CustodyIsRead == ASSUME ReleaseInv PROVE CustodyReads
<1>1. OffersRead /\ LineageReads /\ HandbacksFit
  BY DEF ReleaseInv, OwnersFit
<1>2. CandidatesRead
  BY <1>1 DEF HandbacksFit, CandidatesRead
<1>3. HandbacksRead
  <2>1. ASSUME NEW h \in DOMAIN handbacks
        PROVE  /\ handbacks[h].seat \in seats
               /\ handbacks[h].observed = "ok" <=>
                    \E i \in DOMAIN candidates :
                       candidates[i].handback = h /\ candidates[i].seat = handbacks[h].seat
    BY <1>1 DEF HandbacksFit
  <2>2. QED
    BY <2>1 DEF HandbacksRead
<1> QED
  BY <1>1, <1>2, <1>3 DEF CustodyReads

\* The loader accepts the declarations, their graph and the observations.
LEMMA DeclarationsAreRead == ASSUME ReleaseInv PROVE DeclarationsRead /\ ReviewsRead /\ GraphReads /\ SurfacesRead
<1>1. Typed /\ ScopesFit /\ GraphFits /\ SurfacesRead
  BY DEF ReleaseInv
<1>2. DeclarationsRead
  BY <1>1 DEF ScopesFit, DeclarationFits, DeclarationsRead
<1>3. ReviewsRead
  BY <1>1 DEF ScopesFit, ReviewFits, ReviewsRead
<1>4. ASSUME NEW s \in Declared, Last(decls[s]).form.writer # None
      PROVE  /\ Last(decls[s]).form.writer \in seats \cup {Last(decls[s]).by}
             /\ Last(decls[s]).form.deps \subseteq Declared \ {s}
  <2>1. s \in Scopes /\ Len(decls[s]) \in DOMAIN decls[s] /\ Last(decls[s]) = decls[s][Len(decls[s])]
    BY <1>1, DeclaredRow
  <2>2. DeclarationFits(s, Len(decls[s]))
    BY <1>1, <2>1 DEF ScopesFit
  <2>3. QED
    BY <1>4, <2>1, <2>2 DEF DeclarationFits
<1>5. GraphReads
  BY <1>1, <1>4 DEF GraphFits, GraphReads
<1> QED
  BY <1>1, <1>2, <1>3, <1>5

\* The loader accepts the moves and what discharged them.
LEMMA MovesAreRead == ASSUME ReleaseInv PROVE MovesRead
<1>1. ASSUME NEW s \in Scopes, NEW i \in DOMAIN moves[s]
      PROVE  LET m == moves[s][i] IN
             /\ m.by \in Lineage
             /\ m.rev \in DOMAIN decls[s]
             /\ m.plan = Form(s, m.rev).plan
             /\ m.command # "task-cancel" => m.brief = decls[s][m.rev].brief
             /\ (m.snap # None) = (m.command = "submit-for-review")
             /\ IF i = 1 THEN m.command = "declare" /\ m.from = None /\ m.to = "declared"
                ELSE /\ m.from = moves[s][i - 1].to
                     /\ <<m.from, m.command, m.to>> \in Edges
             /\ IF m.command \in GatedCommands THEN DischargeReads(s, moves[s], i)
                ELSE m.discharged = {}
  <2> PICK m : m = moves[s][i]
    OBVIOUS
  <2> PICK sub : sub = LastOf(Submits(SubSeq(moves[s], 1, i)))
    OBVIOUS
  <2>1. MoveFits(s, i)
    BY DEF ReleaseInv, ScopesFit
  <2>2. /\ m.by \in Lineage /\ m.rev \in DOMAIN decls[s] /\ m.plan = Form(s, m.rev).plan
        /\ m.command # "task-cancel" => m.brief = decls[s][m.rev].brief
        /\ m.snap # None <=> m.command = "submit-for-review"
        /\ i = 1 => m.command = "declare" /\ m.from = None /\ m.to = "declared"
        /\ i # 1 => m.from = moves[s][i - 1].to /\ <<m.from, m.command, m.to>> \in Edges
        /\ m.command \notin GatedCommands => m.discharged = {}
    BY <2>1 DEF MoveFits
  <2>3. m.command \in GatedCommands => sub \in 1..i /\ Discharged(s, moves[s][sub], m.discharged)
    BY <2>1 DEF MoveFits
  <2>4. LastIndex(SubSeq(moves[s], 1, i), LAMBDA n : n.command = "submit-for-review") = sub
    BY TestsNamed
  <2>5. ASSUME m.command \in GatedCommands PROVE DischargeReads(s, moves[s], i)
    <3>1. moves[s] \in Seq(MoveRow)
      BY DEF ReleaseInv, Typed, RolloutTypeOK, ScopeTypeOK
    <3>2. i \in Nat
      BY <3>1, LenProperties
    <3>3. sub > 0 /\ Discharged(s, moves[s][sub], moves[s][i].discharged)
      BY <2>3, <2>5, <3>2
    <3>4. QED
      BY <2>4, <3>3 DEF DischargeReads, Discharged
  <2>6. (m.snap # None) = (m.command = "submit-for-review")
    BY <2>2
  <2>7. QED
    BY <2>2, <2>5, <2>6
<1> QED
  BY <1>1 DEF MovesRead

\* The loader accepts the check definitions, the rollouts and the runs.
LEMMA RunsAreRead == ASSUME ReleaseInv PROVE DefinitionsRead /\ RolloutsRead /\ RunsRead /\ RetriesRead
<1>1. RunsFit /\ RolloutsFit
  BY DEF ReleaseInv
<1>2. DefinitionsRead
  BY <1>1 DEF RolloutsFit, DefinitionFits, DefinitionsRead
<1>3. RolloutsRead
  BY <1>1 DEF RolloutsFit, RolloutFits, RolloutsRead
<1>4. RunsRead
  BY <1>1 DEF RunsFit, RunFits, RunsRead
<1>5. RetriesRead
  BY <1>1 DEF RunsFit, StreamFits, RetriesRead
<1> QED
  BY <1>2, <1>3, <1>4, <1>5

\* The loader accepts the rollout transitions and their evidence.
LEMMA RolloutMovesAreRead == ASSUME ReleaseInv PROVE RolloutMovesRead
<1>1. ASSUME NEW r \in Rollouts, NEW i \in DOMAIN rmoves[r]
      PROVE  LET m == rmoves[r][i]
                 start == LastIndex(SubSeq(rmoves[r], 1, i), LAMBDA x : x.command = "start-canary")
             IN
             /\ m.by \in Lineage /\ m.rev \in DOMAIN rollouts[r]
             /\ IF i = 1 THEN m.command = "declare" /\ m.from = None /\ m.to = "declared"
                ELSE m.from = rmoves[r][i - 1].to /\ <<m.from, m.command, m.to>> \in RolloutEdges
             /\ (m.cohort # None) = (m.command = "start-canary")
             /\ m.cohort # None => /\ m.cohort.members \subseteq Lineage \cup seats
                                   /\ m.cohort.assignment \in 1..StructuralRevision
             /\ (m.target # None) = (m.command = "rollback")
             /\ m.target # None => CandidateOf(m.target) # None
             /\ IF m.command \in CheckGated THEN ChecksDischarged(r, m) ELSE m.checked = {}
             /\ IF m.command = "promote" THEN ReviewsDischarged(r, m) ELSE m.reviewed = {}
             /\ IF m.command \in CohortGated THEN start > 0 /\ m.gate = rmoves[r][start].cohort
                ELSE m.gate = None
  <2> PICK m : m = rmoves[r][i]
    OBVIOUS
  <2> PICK start : start = LastOf(Canaries(SubSeq(rmoves[r], 1, i)))
    OBVIOUS
  <2>1. RolloutMoveFits(r, i)
    BY DEF ReleaseInv, RolloutsFit
  <2>2. /\ m.by \in Lineage /\ m.rev \in DOMAIN rollouts[r]
        /\ i = 1 => m.command = "declare" /\ m.from = None /\ m.to = "declared"
        /\ i # 1 => m.from = rmoves[r][i - 1].to /\ <<m.from, m.command, m.to>> \in RolloutEdges
        /\ m.cohort # None <=> m.command = "start-canary"
        /\ m.cohort # None => /\ m.cohort.members \subseteq Lineage \cup seats
                              /\ m.cohort.assignment \in 1..StructuralRevision
        /\ m.target # None <=> m.command = "rollback"
        /\ m.target # None => CandidateOf(m.target) # None
    BY <2>1 DEF RolloutMoveFits
  <2>3. /\ m.command \in CheckGated => ChecksDischarged(r, m)
        /\ m.command \notin CheckGated => m.checked = {}
        /\ m.command = "promote" => ReviewsDischarged(r, m)
        /\ m.command # "promote" => m.reviewed = {}
        /\ m.command \in CohortGated => start > 0 /\ m.gate = rmoves[r][start].cohort
        /\ m.command \notin CohortGated => m.gate = None
    BY <2>1 DEF RolloutMoveFits
  <2>4. LastIndex(SubSeq(rmoves[r], 1, i), LAMBDA x : x.command = "start-canary") = start
    BY TestsNamed
  <2>5. (m.cohort # None) = (m.command = "start-canary") /\ (m.target # None) = (m.command = "rollback")
    BY <2>2
  <2>6. QED
    BY <2>2, <2>3, <2>4, <2>5
<1> QED
  BY <1>1 DEF RolloutMovesRead

\* The loader accepts the settlements.
LEMMA SettlementsAreRead == ASSUME ReleaseInv PROVE SettlementsRead
<1>1. SettlementsFit
  BY DEF ReleaseInv
<1>2. \A i \in DOMAIN settlements : SettlementFits(i)
  BY <1>1 DEF SettlementsFit
<1>3. \A i, j \in DOMAIN settlements :
         \/ i = j
         \/ /\ <<settlements[i].claim.seat, settlements[i].rev>> # <<settlements[j].claim.seat, settlements[j].rev>>
            /\ <<settlements[i].by, settlements[i].req>> # <<settlements[j].by, settlements[j].req>>
  BY <1>1 DEF SettlementsFit
<1> QED
  BY <1>2, <1>3 DEF SettlementFits, VerdictFits, SettlementsRead

\* Whatever the commands produce is a ledger that the loader accepts
\* (desk-store.ts, checkRefinements), for any number of agents, scopes,
\* checks, rollouts and settlements.
THEOREM LedgerAlwaysReads == Spec => []LedgerReads
<1>1. ReleaseInv => LedgerReads
  BY CustodyIsRead, DeclarationsAreRead, MovesAreRead, RunsAreRead, RolloutMovesAreRead, SettlementsAreRead
     DEF LedgerReads
<1> QED
  BY <1>1, LedgerFits, PTL

-----------------------------------------------------------------------------
(* Every row is right when it is written. *)

Timely ==
    /\ OwnersRows
    /\ \A s \in Scopes :
         /\ DeclarationTimely(s)
         /\ \A i \in DOMAIN moves'[s] \ DOMAIN moves[s] : MoveTimely(s, i)
    /\ \A i \in DOMAIN reviews' \ DOMAIN reviews : ReviewTimely(i)
    /\ \A i \in DOMAIN settlements' \ DOMAIN settlements : SettlementTimely(i)
    /\ \A r \in Rollouts : \A i \in DOMAIN rmoves'[r] \ DOMAIN rmoves[r] : RolloutMoveTimely(r, i)

\* A part of the system that writes no row here has nothing to answer for.
LEMMA QuietScopes == ASSUME UNCHANGED scopeVars PROVE ScopeRowsTimely
<1>1. UNCHANGED <<decls, moves, reviews>>
  BY DEF scopeVars
<1> QED
  BY <1>1 DEF ScopeRowsTimely, DeclarationTimely

\* No rollout row, nothing to answer for.
LEMMA QuietRollouts == ASSUME UNCHANGED rolloutVars PROVE RolloutRowsTimely
<1>1. UNCHANGED <<defs, rollouts, rmoves, runs>>
  BY DEF rolloutVars
<1> QED
  BY <1>1 DEF RolloutRowsTimely, OwnersRows

\* No settlement, nothing to answer for.
LEMMA QuietSettlements == ASSUME UNCHANGED settlementVars PROVE SettlementRowsTimely
  BY DEF settlementVars, SettlementRowsTimely

\* Every row that a step writes is timely.
LEMMA StepIsTimely == ASSUME ReleaseInv, Next PROVE Timely
<1>1. CASE CustodyStep
  BY <1>1, QuietScopes, QuietRollouts, QuietSettlements
     DEF CustodyStep, Timely, ScopeRowsTimely, RolloutRowsTimely, SettlementRowsTimely
<1>2. CASE ScopeStep
  BY <1>2, ScopeStepKeeps, QuietRollouts, QuietSettlements
     DEF ScopeStep, Timely, ScopeRowsTimely, RolloutRowsTimely, SettlementRowsTimely
<1>3. CASE RolloutStep
  <2>1. UNCHANGED <<scopeVars, settlementVars>>
    <3>1. \A l, q, s, df : DeclareCheck(l, q, s, df) => UNCHANGED scopeVars
      BY DEF DeclareCheck
    <3>2. \A l, r, s, c, required : DeclareRollout(l, r, s, c, required) => UNCHANGED scopeVars
      BY DEF DeclareRollout
    <3>3. \A l, r, cmd, c : MoveRollout(l, r, cmd, c) => UNCHANGED scopeVars
      BY DEF MoveRollout
    <3>4. \A l, r, q, id, ev : StartCheck(l, r, q, id, ev) => UNCHANGED scopeVars
      BY DEF StartCheck
    <3>5. \A j : MeasureBefore(j) => UNCHANGED scopeVars
      BY DEF MeasureBefore
    <3>6. \A j, status : MeasureAfter(j, status) => UNCHANGED scopeVars
      BY DEF MeasureAfter
    <3>7. \A j : CommitRun(j) => UNCHANGED scopeVars
      BY DEF CommitRun
    <3>8. RolloutNext /\ UNCHANGED settlementVars
      BY <1>3 DEF RolloutStep
    <3>9. QED
      BY <3>1, <3>2, <3>3, <3>4, <3>5, <3>6, <3>7, <3>8 DEF RolloutNext
  <2>2. QED
    BY <1>3, <2>1, RolloutStepKeeps, QuietScopes, QuietSettlements
     DEF Timely, ScopeRowsTimely, RolloutRowsTimely, SettlementRowsTimely
<1>4. CASE SettleStep
  BY <1>4, SettleStepKeeps, QuietScopes, QuietRollouts
     DEF SettleStep, Timely, ScopeRowsTimely, RolloutRowsTimely, SettlementRowsTimely
<1> QED
  BY <1>1, <1>2, <1>3, <1>4 DEF Next

\* Whoever owns the assignment when a row is written wrote it, and what a
\* gate demands of the declaration, the brief, the approval and the
\* independence of its reviewers holds at that moment, however long the call
\* was on its way (desk-scope.ts, desk-rollout.ts, desk-settlement.ts).
THEOREM RowsTimely == Spec => RowsAreTimely
<1>1. ReleaseInv /\ [Next]_vars => [Timely]_vars
  BY StepIsTimely
<1> QED
  BY <1>1, LedgerFits, PTL DEF Spec, RowsAreTimely, Timely

=============================================================================
