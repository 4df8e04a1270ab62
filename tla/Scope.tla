------------------------------- MODULE Scope --------------------------------
(***************************************************************************)
(* Scopes of an assignment: declared surfaces, the review rounds that      *)
(* candidates go through, and the seats' observations                      *)
(* (plugin/server/desk-scope.ts; the transition table is in                *)
(* shared/enforcement.ts).  The second half is what the store's loader     *)
(* demands of the same rows before a commit is written and whenever the    *)
(* ledger is read (desk-store.ts, checkRefinements): two implementations   *)
(* of one set of rules, which must agree.                                  *)
(*                                                                         *)
(* A review plan is the set of its lenses: the exempt plan is empty, the   *)
(* legacy plan has the two axes.  Its digest, the mandate, is the plan     *)
(* itself.  Only one path surface stands for a scope's paths, resources    *)
(* and state owners, which the code compares alike.  The structural        *)
(* revision of the assignment that a row also pins is left out: it is only *)
(* asked not to run ahead of the assignment's.                             *)
(***************************************************************************)
EXTENDS Custody, FiniteSetsExt

CONSTANTS
    Scopes,
    FormsOf,                \* what a declaration of each scope may say
    MaxDecls, MaxMoves,     \* bounds, for each scope
    MaxReviews              \* bound

Forms == UNION {FormsOf[s] : s \in Scopes}

\* A form: the bound seat, the writer and surfaces (writer None: no
\* ownership declared), the scopes it depends on, and the review plan.
ASSUME ScopeAssumption ==
    /\ \A f \in Forms :
         /\ DOMAIN f = {"seat", "writer", "paths", "deps", "plan"}
         /\ {f.seat, f.writer} \subseteq Agents \cup {None}
         /\ f.deps \subseteq Scopes /\ (f.writer = None => f.deps = {})
    /\ {MaxDecls, MaxMoves} \subseteq [Scopes -> Nat] /\ MaxReviews \in Nat

VARIABLES
    decls,          \* declaration revisions of each scope
    moves,          \* transitions of each scope
    reviews,        \* review observations, in commit order
    bound           \* scopes that a task attempt bound, and has not left

scopeVars == <<decls, moves, reviews, bound>>

States == {"declared", "claimed", "submitted-for-review", "review-observed",
           "approved", "rejected", "advanced", "closed"}

\* The one table of legal transitions.
Edges ==
    { <<"declared", "claim", "claimed">>,
      <<"claimed", "submit-for-review", "submitted-for-review">>,
      <<"submitted-for-review", "submit-for-review", "submitted-for-review">>,
      <<"submitted-for-review", "review-observed", "review-observed">>,
      <<"submitted-for-review", "reject", "rejected">>,
      <<"submitted-for-review", "close", "closed">>,
      <<"review-observed", "approve", "approved">>,
      <<"review-observed", "reject", "rejected">>,
      <<"approved", "submit-for-review", "submitted-for-review">>,
      <<"approved", "advance", "advanced">>,
      <<"approved", "close", "closed">>,
      <<"rejected", "advance", "advanced">>,
      <<"rejected", "submit-for-review", "submitted-for-review">>,
      <<"rejected", "close", "closed">>,
      <<"advanced", "submit-for-review", "submitted-for-review">> }
      \cup {<<from, "task-cancel", "closed">> : from \in States \ {"closed"}}

Commands == {e[2] : e \in Edges}
GatedCommands == {"review-observed", "approve", "advance", "close"}

DeclarationRow == [form : Forms, by : Leads, brief : Nat]
ReviewRow == [scope : Scopes, lens : UNION {f.plan : f \in Forms}, by : Agents,
              rev : Nat, brief : Nat, plan : {f.plan : f \in Forms}, snap : Snapshots]
MoveRow == [command : Commands \cup {"declare"}, from : States \cup {None},
            to : States, rev : Nat, brief : Nat, plan : {f.plan : f \in Forms},
            snap : Snapshots \cup {None}, discharged : SUBSET Nat, by : Leads]

ScopeTypeOK ==
    /\ CustodyTypeOK
    /\ decls \in [Scopes -> Seq(DeclarationRow)]
    /\ moves \in [Scopes -> Seq(MoveRow)]
    /\ reviews \in Seq(ReviewRow)
    /\ bound \in [Scopes -> Nat]

ScopeInit ==
    /\ CustodyInit
    /\ decls = [s \in Scopes |-> <<>>]
    /\ moves = [s \in Scopes |-> <<>>]
    /\ reviews = <<>>
    /\ bound = [s \in Scopes |-> 0]

-----------------------------------------------------------------------------
(* What the ledger says of a scope now. *)

Last(seq) == seq[Len(seq)]
Declared == {s \in Scopes : decls[s] # <<>>}
Latest(s) == Last(decls[s]).form
StateOf(s) == Last(moves[s]).to

LastIndex(seq, Test(_)) ==
    LET I == {i \in DOMAIN seq : Test(seq[i])} IN IF I = {} THEN 0 ELSE Max(I)

\* The pin of a review round: the latest submit, until the machine advances
\* or closes.
RoundIn(ms) ==
    LET sub == LastIndex(ms, LAMBDA m : m.command = "submit-for-review")
        end == LastIndex(ms, LAMBDA m : m.to \in {"advanced", "closed"})
    IN IF sub > end THEN [rev |-> ms[sub].rev, snap |-> ms[sub].snap,
                          brief |-> ms[sub].brief, plan |-> ms[sub].plan]
       ELSE None

ActiveRound(s) == RoundIn(moves[s])

\* The round last approved, with what discharged it, if the scope still
\* stands approved or advanced.
ApprovedRound(s) ==
    LET ms  == moves[s]
        app == LastIndex(ms, LAMBDA m : m.to = "approved")
    IN IF ms = <<>> \/ StateOf(s) \notin {"approved", "advanced"} \/ app = 0 THEN None
       ELSE [pin |-> RoundIn(SubSeq(ms, 1, app)), discharged |-> ms[app].discharged]

\* The pins still say what the declaration and the brief say now.
Fresh(s, pin) ==
    /\ pin # None
    /\ Last(decls[s]).brief = brief
    /\ pin.brief = brief
    /\ pin.rev = Len(decls[s])
    /\ pin.plan = Latest(s).plan

\* Mutant: whoever is not the writer counts as independent.
ForgetsNewOwner(s) == {Latest(s).writer}

\* Neither the owner nor the declared writer is independent of the work.
ReviewExclusions(s) == {EffectiveOwner, Latest(s).writer}

\* Observations of the round by agents that are independent now.
EligibleReviews(s, pin) ==
    {i \in DOMAIN reviews :
       LET r == reviews[i] IN
       /\ r.scope = s /\ r.rev = pin.rev /\ r.brief = pin.brief
       /\ r.plan = pin.plan /\ r.snap = pin.snap
       /\ r.by \notin ReviewExclusions(s)
       /\ r.lens \in Latest(s).plan}

\* One observation for each required lens, the latest; None if one lacks.
\* The verdict plays no part.
Discharge(s, pin) ==
    LET E == EligibleReviews(s, pin)
        Of(x) == {i \in E : reviews[i].lens = x}
    IN IF \E x \in Latest(s).plan : Of(x) = {} THEN None
       ELSE {Max(Of(x)) : x \in Latest(s).plan}

\* An approval that carries a gate today: it is of the current declaration
\* and brief, and all that discharged it is still independent.
StandingApproval(s) ==
    LET app == ApprovedRound(s)
        round == IF ActiveRound(s) # None THEN ActiveRound(s) ELSE app.pin
    IN IF /\ app # None
          /\ Fresh(s, app.pin) /\ Fresh(s, round)
          /\ app.discharged \subseteq EligibleReviews(s, round)
       THEN app.pin ELSE None

-----------------------------------------------------------------------------
(* Declared ownership. *)

Moving == {s \in Declared : Latest(s).writer # None
                            /\ StateOf(s) \notin {"advanced", "closed"}}

\* No other moving scope claims one of the form's surfaces.
Overlaps(s, f) ==
    /\ f.writer # None /\ open
    /\ \E t \in Moving \ {s} : f.paths \cap Latest(t).paths # {}

\* The dependencies with scope s declared as f; a scope that can reach
\* itself lies on a cycle.
Depends(s, f) ==
    {e \in Scopes \X Scopes :
       e[2] \in IF e[1] = s THEN f.deps ELSE IF e[1] \in Declared THEN Latest(e[1]).deps ELSE {}}

Acyclic(R) ==
    \A C \in (SUBSET Scopes) \ {{}} : \E t \in C : \A d \in C : <<t, d>> \notin R

DependenciesGood(s, f) ==
    /\ f.deps \subseteq Declared \ {s}
    /\ Acyclic(Depends(s, f))

ValidOwnership(s, f) ==
    f.writer # None =>
      /\ CurrentLiveSeat(f.writer)
      /\ DependenciesGood(s, f)
      /\ ~Overlaps(s, f)

-----------------------------------------------------------------------------
(* Commands. *)

Moved(s, l, cmd, pinned, proof) ==
    [command |-> cmd, from |-> StateOf(s),
     to |-> (CHOOSE e \in Edges : e[1] = StateOf(s) /\ e[2] = cmd)[3],
     rev |-> Len(decls[s]), brief |-> brief, plan |-> Latest(s).plan,
     snap |-> pinned, discharged |-> proof, by |-> l]

OpeningMove(l, f) ==
    [command |-> "declare", from |-> None, to |-> "declared", rev |-> 1,
     brief |-> brief, plan |-> f.plan, snap |-> None, discharged |-> {}, by |-> l]

\* A declaration amends what the scope claims; the first one also opens the
\* machine.  It pins the brief it was written against.
Declare(l, s, f) ==
    /\ OwnsOpen(l)
    /\ Len(decls[s]) < MaxDecls[s]
    /\ f.seat \in seats \cup {None}
    /\ ValidOwnership(s, f)
    /\ decls' = [decls EXCEPT ![s] = Append(@,
          [form |-> f, by |-> l, brief |-> brief])]
    /\ moves' = IF decls[s] = <<>> THEN [moves EXCEPT ![s] = <<OpeningMove(l, f)>>] ELSE moves
    /\ UNCHANGED <<custodyVars, handbackVars, reviews, bound>>

\* A transition is of the latest declaration, written against this brief,
\* along an edge of the table.
MayMove(l, s, cmd) ==
    /\ OwnsOpen(l)
    /\ s \in Declared
    /\ Last(decls[s]).brief = brief
    /\ \E to \in States : <<StateOf(s), cmd, to>> \in Edges
    /\ Len(moves[s]) < MaxMoves[s]

Move(l, s, cmd) ==
    /\ cmd \in Commands \ (GatedCommands \cup {"submit-for-review", "task-cancel"})
    /\ MayMove(l, s, cmd)
    /\ moves' = [moves EXCEPT ![s] = Append(@, Moved(s, l, cmd, None, {}))]
    /\ UNCHANGED <<custodyVars, handbackVars, decls, reviews, bound>>

\* The first candidate with these contents is the one looked at.
CandidateOf(c) ==
    LET I == {i \in DOMAIN candidates : candidates[i].snap = c}
    IN IF I = {} THEN None ELSE candidates[Min(I)]

\* Mutant: a scope that comes back is not compared with those that move.
ResubmitsOverlap(l, s, c) ==
    /\ MayMove(l, s, "submit-for-review")
    /\ CandidateOf(c) # None
    /\ Latest(s).seat \in {None, CandidateOf(c).seat}
    /\ moves' = [moves EXCEPT ![s] = Append(@, Moved(s, l, "submit-for-review", c, {}))]
    /\ UNCHANGED <<custodyVars, handbackVars, decls, reviews, bound>>

Submit(l, s, c) ==
    /\ MayMove(l, s, "submit-for-review")
    /\ CandidateOf(c) # None
    /\ Latest(s).seat \in {None, CandidateOf(c).seat}
    /\ ~Overlaps(s, Latest(s))
    /\ moves' = [moves EXCEPT ![s] = Append(@, Moved(s, l, "submit-for-review", c, {}))]
    /\ UNCHANGED <<custodyVars, handbackVars, decls, reviews, bound>>

MoveGated(l, s, cmd) ==
    /\ cmd \in GatedCommands
    /\ MayMove(l, s, cmd)
    /\ LET round == ActiveRound(s) IN
         /\ Fresh(s, round)
         /\ Discharge(s, round) # None
         /\ moves' = [moves EXCEPT ![s] = Append(@, Moved(s, l, cmd, None, Discharge(s, round)))]
    /\ UNCHANGED <<custodyVars, handbackVars, decls, reviews, bound>>

\* A seat that is not the owner, the scope's own seat nor its writer reports
\* on the round's candidate.
Review(a, s, x) ==
    /\ open /\ a \in live \cap seats /\ a # EffectiveOwner
    /\ s \in Declared /\ a \notin {Latest(s).seat, Latest(s).writer}
    /\ Fresh(s, ActiveRound(s))
    /\ x \in Latest(s).plan
    /\ Len(reviews) < MaxReviews
    /\ reviews' = Append(reviews,
          [scope |-> s, lens |-> x, by |-> a, rev |-> Len(decls[s]), brief |-> brief,
           plan |-> Latest(s).plan, snap |-> ActiveRound(s).snap])
    /\ UNCHANGED <<custodyVars, handbackVars, decls, moves, bound>>

\* An attempt binds its worker: in one commit the worker is attached, a scope
\* of its own is declared for it, and claimed.
BindTask(l, s, f, a) ==
    /\ OwnsOpen(l)
    /\ decls[s] = <<>> /\ f.seat = a /\ f.writer \in {a, None}
    /\ a \in live /\ MaxMoves[s] > 1
    /\ (f.writer = a => DependenciesGood(s, f) /\ ~Overlaps(s, f))
    /\ seats' = seats \cup {a}
    /\ decls' = [decls EXCEPT ![s] = <<[form |-> f, by |-> l, brief |-> brief]>>]
    /\ moves' = [moves EXCEPT ![s] = <<OpeningMove(l, f),
          [OpeningMove(l, f) EXCEPT !.command = "claim", !.from = "declared", !.to = "claimed"]>>]
    /\ bound' = [bound EXCEPT ![s] = 1]
    /\ UNCHANGED <<open, live, owners, offers, brief, handbackVars, reviews>>

\* The attempt is stopped with proof that nothing of it runs: its scope, if
\* still as it bound it, closes in the same commit, whatever its state.
TaskCancel(l, s) ==
    /\ OwnsOpen(l)
    /\ bound[s] > 0 /\ bound[s] = Len(decls[s])
    /\ Latest(s).writer # None /\ Latest(s).writer = Latest(s).seat
    /\ StateOf(s) # "closed"
    /\ moves' = [moves EXCEPT ![s] = Append(@, Moved(s, l, "task-cancel", None, {}))]
    /\ bound' = [bound EXCEPT ![s] = 0]
    /\ UNCHANGED <<custodyVars, handbackVars, decls, reviews>>

ScopeCommands ==
    \/ \E l \in Leads, s \in Scopes :
         \/ \E f \in FormsOf[s] :
              \/ Declare(l, s, f)
              \/ \E a \in Agents : BindTask(l, s, f, a)
         \/ \E cmd \in Commands : Move(l, s, cmd) \/ MoveGated(l, s, cmd)
         \/ \E c \in Snapshots : Submit(l, s, c)
         \/ TaskCancel(l, s)
    \/ \E a \in Agents, s \in Declared : \E x \in Latest(s).plan : Review(a, s, x)

-----------------------------------------------------------------------------
(* What the loader demands of every row. *)

Form(s, rev) == decls[s][rev].form

DeclarationsRead ==
    \A s \in Scopes : \A i \in DOMAIN decls[s] :
       LET d == decls[s][i] IN
       /\ d.by \in Lineage
       /\ d.form.seat \in seats \cup {None}

ReviewsRead ==
    \A i \in DOMAIN reviews :
       LET r == reviews[i] IN
       /\ r.by \in seats
       /\ Len(owners) = 1 => r.by # EffectiveOwner
       /\ r.rev \in DOMAIN decls[r.scope]
       /\ LET f == Form(r.scope, r.rev) IN
            /\ r.lens \in f.plan /\ r.plan = f.plan
            /\ r.brief = decls[r.scope][r.rev].brief
            /\ r.by \notin {f.seat, f.writer}
            /\ CandidateOf(r.snap) # None
            /\ f.seat \in {None, CandidateOf(r.snap).seat}

\* The discharge of a gated row: one observation of the round for each lens.
DischargeReads(s, ms, i) ==
    LET sub == LastIndex(SubSeq(ms, 1, i), LAMBDA m : m.command = "submit-for-review")
        D == ms[i].discharged
    IN /\ sub > 0
       /\ D \subseteq DOMAIN reviews
       /\ \A n \in D :
            LET r == reviews[n] IN
            /\ r.scope = s /\ r.rev = ms[sub].rev /\ r.snap = ms[sub].snap
            /\ r.brief = ms[sub].brief /\ r.plan = ms[sub].plan
       /\ {reviews[n].lens : n \in D} = Form(s, ms[sub].rev).plan
       /\ Cardinality(D) = Cardinality(Form(s, ms[sub].rev).plan)

\* The rows of a scope walk the table from its declaration on.
MovesRead ==
    \A s \in Scopes : \A i \in DOMAIN moves[s] :
       LET m == moves[s][i] IN
       /\ m.by \in Lineage
       /\ m.rev \in DOMAIN decls[s]
       /\ m.plan = Form(s, m.rev).plan
       /\ m.command # "task-cancel" => m.brief = decls[s][m.rev].brief
       /\ (m.snap # None) = (m.command = "submit-for-review")
       /\ IF i = 1 THEN m.command = "declare" /\ m.from = None /\ m.to = "declared"
          ELSE /\ m.from = moves[s][i - 1].to
               /\ <<m.from, m.command, m.to>> \in Edges
       /\ IF m.command \in GatedCommands THEN DischargeReads(s, moves[s], i)
          ELSE m.discharged = {}

\* Writers and dependencies of the latest declarations.
GraphReads ==
    /\ \A s \in Declared :
         LET d == Last(decls[s]) IN
         d.form.writer # None =>
            /\ d.form.writer \in seats \cup {d.by}
            /\ d.form.deps \subseteq Declared \ {s}
    /\ Acyclic({e \in Declared \X Declared : e[2] \in Latest(e[1]).deps})

\* Two scopes that move claim no surface in common.
SurfacesRead ==
    open => \A s, t \in Moving : s # t => Latest(s).paths \cap Latest(t).paths = {}

-----------------------------------------------------------------------------
(* What the loader demands of a row at the event that appended it: rows are *)
(* never changed, so it is enough to look at the step.                     *)

DeclarationTimely(s) ==
    \A i \in DOMAIN decls'[s] \ DOMAIN decls[s] :
       decls'[s][i].by = EffectiveOwner /\ decls'[s][i].brief = brief

ReviewTimely(i) ==
    LET r == reviews'[i] IN
    /\ r.by # EffectiveOwner
    /\ ActiveRound(r.scope) # None
    /\ r.rev = Len(decls[r.scope]) /\ r.brief = brief
    /\ [rev |-> r.rev, snap |-> r.snap, brief |-> r.brief, plan |-> r.plan] = ActiveRound(r.scope)

\* An approval rests on others than the approver and the declared writer.
ApprovalTimely(s, i) ==
    \A n \in moves'[s][i].discharged :
       /\ n \in DOMAIN reviews
       /\ reviews[n].by \notin {EffectiveOwner, Latest(s).writer}

MoveTimely(s, i) ==
    LET m == moves'[s][i]
        pin == RoundIn(SubSeq(moves'[s], 1, i - 1))
    IN /\ m.by = EffectiveOwner
       /\ m.brief = brief
       /\ m.rev = Len(decls'[s])
       /\ m.command # "task-cancel" => Last(decls'[s]).brief = brief
       /\ m.command \in GatedCommands =>
            pin # None /\ pin.rev = m.rev /\ pin.brief = brief /\ pin.plan = m.plan
       /\ m.command = "approve" => ApprovalTimely(s, i)
=============================================================================
