----------------------------- MODULE TaskProofs -----------------------------
(***************************************************************************)
(* Proofs about module Task, for any number of tasks, surfaces, Leads,     *)
(* workers, requests and concurrent tool calls, and any bounds.            *)
(***************************************************************************)
EXTENDS Task, FiniteSetTheorems, TLAPS

-----------------------------------------------------------------------------
(* The invariant *)

Unissued == {"none", "intended", "abandoned"}
Open     == {"issued", "uncertain", "held"}

Runs == [pc: {"idle", "intent", "issue", "observe", "bind"},
         x: Actions \cup {None}, by: Leads \cup {None}]

\* A tool call works on an attempt that exists; one that sends or archives
\* knows a worker, one that creates was not asked to reuse one.
CallOK(c, rows) ==
    c.pc # "idle" =>
        /\ c.x \in Actions
        /\ rows[c.x[1]].state # "none"
        /\ c.x[2] \in Sends \cup Archives => rows[c.x[1]].agent # None
        /\ c.x[2] = "create" => rows[c.x[1]].reuse = None

RunsOK == \A r \in Runners : CallOK(run[r], att)

\* Attempts are numbered in the order they are reserved in.
Numbered ==
    \A t \in Tasks : \A n \in 1..MaxAttempts : \A m \in 1..n :
        att[<<t, n>>].state # "none" => att[<<t, m>>].state # "none"

\* An attempt that is not reserved has no row and no action.
Unreserved ==
    \A a \in Attempts : att[a].state = "none" =>
        att[a] = NoAttempt /\ \A e \in Effects : act[<<a, e>>] = "none"

\* A permit is yielded by an issue, and the host acts on permits.
Permits ==
    /\ \A x \in Actions : act[x] \in Unissued => calls[x] = 0
    /\ \A x \in Actions : x \in done => calls[x] > 0
    /\ \A w \in Workers : made[w] \in Attempts => calls[<<made[w], "create">>] > 0

\* A stopped attempt was never authorized, and its requests cannot be.
StoppedUnissued == \A a \in Attempts : att[a].state = "stopped" => NeverAuthorized(a)

\* A reservation is of a declared revision, and reservations are disjoint.
Reservations ==
    /\ \A a \in Attempts : att[a].state # "none" => att[a].rev \in 1..Len(task[a[1]])
    /\ \A a, b \in Attempts :
          Live(a) /\ Live(b) /\ a # b => Surfaces(a) \cap Surfaces(b) = {}

\* The agent of an attempt is known before it is sent to or archived, and the
\* create that made it known is observed once.
AgentKnown ==
    \A a \in Attempts :
        /\ \A e \in Sends \cup Archives : act[<<a, e>>] # "none" => att[a].agent # None
        /\ act[<<a, "create">>] # "none" => att[a].reuse = None
        /\ att[a].agent # None /\ att[a].reuse = None => act[<<a, "create">>] = "observed"

ArchiveKept ==
    \A a \in Attempts, f \in Archives : <<a, f>> \in done => att[a].agent \in archived

\* A send that is about to be intended, or whose intent is the last commit,
\* is to a worker whose archive was not observed.
SendsClear ==
    \A a \in Attempts, e \in Sends :
        (last = <<a, e>> \/ \E r \in Runners : run[r].pc = "intent" /\ run[r].x = <<a, e>>)
            => \A f \in Archives : act[<<a, f>>] # "observed"

\* What the ledger and the host say of attempts and actions.
LedgerInv ==
    /\ Numbered /\ Unreserved /\ CallsOnce /\ Permits /\ ObservedHappened
    /\ StoppedUnissued /\ Reservations /\ OneAttemptPerWorker
    /\ AgentKnown /\ ArchiveKept

TaskInv == TypeOK /\ LedgerInv /\ RunsOK /\ SendsClear

-----------------------------------------------------------------------------
(* The sorts and the records *)

LEMMA ActionPairs ==
    /\ \A x \in Actions : x[1] \in Attempts /\ x[2] \in Effects /\ x = <<x[1], x[2]>>
    /\ \A a \in Attempts, e \in Effects : <<a, e>> \in Actions
    /\ \A a, b \in Attempts, e, f \in Effects : <<a, e>> = <<b, f>> => a = b /\ e = f
  BY DEF Actions

LEMMA AttemptPairs ==
    /\ \A a \in Attempts : a[1] \in Tasks /\ a[2] \in 1..MaxAttempts /\ a = <<a[1], a[2]>>
    /\ \A t \in Tasks, n \in 1..MaxAttempts : <<t, n>> \in Attempts
  BY DEF Attempts

LEMMA Kinds ==
    /\ "place" \in Effects /\ "create" \in Effects
    /\ Sends \subseteq Effects /\ Archives \subseteq Effects
    /\ "place" \notin Sends /\ "create" \notin Sends
    /\ "place" \notin Archives /\ "create" \notin Archives
    /\ \A e \in Sends : Kind(e) = "send" /\ e \notin Archives
    /\ \A e \in Archives : Kind(e) = "archive" /\ e \notin Sends
    /\ Kind("place") = "place" /\ Kind("create") = "create"
    /\ \A e \in Effects : e \in Sends \/ e \in Archives \/ e = "place" \/ e = "create"
  BY TaskAssumption DEF Effects, Kind

\* The edits of an attempt's row.
LEMMA RowEdits ==
    ASSUME NEW row \in AttemptRows
    PROVE  /\ \A s \in {"none", "reserved", "bound", "dispatched", "running",
                        "reconciliation-required", "stop-requested", "stopped"} :
                 /\ [row EXCEPT !.state = s] \in AttemptRows
                 /\ [row EXCEPT !.state = s].state = s
                 /\ [row EXCEPT !.state = s].rev = row.rev
                 /\ [row EXCEPT !.state = s].reuse = row.reuse
                 /\ [row EXCEPT !.state = s].agent = row.agent
                 /\ [row EXCEPT !.state = s].member = row.member
  BY DEF AttemptRows

LEMMA BoundRow ==
    ASSUME NEW row \in AttemptRows, NEW w \in Workers
    PROVE  /\ Bound(row, w) \in AttemptRows
           /\ Bound(row, w).state = "bound"
           /\ Bound(row, w).rev = row.rev
           /\ Bound(row, w).reuse = row.reuse
           /\ Bound(row, w).agent = w
           /\ Bound(row, w).member = w
  BY DEF AttemptRows, Bound

AttemptStates == {"none", "reserved", "bound", "dispatched", "running",
                  "reconciliation-required", "stop-requested", "stopped"}

Edited(row, s, v, b) == [row EXCEPT !.state = s, !.agent = v, !.tree = b]

LEMMA EditedRow ==
    ASSUME NEW row \in AttemptRows,
           NEW s \in AttemptStates, NEW v \in Workers \cup {None}, NEW b \in BOOLEAN
    PROVE  /\ Edited(row, s, v, b) \in AttemptRows
           /\ Edited(row, s, v, b).state = s /\ Edited(row, s, v, b).rev = row.rev
           /\ Edited(row, s, v, b).reuse = row.reuse /\ Edited(row, s, v, b).agent = v
           /\ Edited(row, s, v, b).member = row.member
  BY DEF AttemptRows, AttemptStates, Edited

LEMMA ObservedRow ==
    ASSUME NEW row \in AttemptRows, NEW kind, NEW status, NEW w \in Workers \cup {None}
    PROVE  /\ Observed(row, kind, status, w) \in AttemptRows
           /\ Observed(row, kind, status, w).rev = row.rev
           /\ Observed(row, kind, status, w).reuse = row.reuse
           /\ Observed(row, kind, status, w).member = row.member
           /\ Observed(row, kind, status, w).agent =
                 IF kind = "create" /\ status = "observed" /\ w # None THEN w ELSE row.agent
           /\ row.state = "stopped" => Observed(row, kind, status, w).state = "stopped"
           /\ row.state \notin {"none", "stopped"}
                 => Observed(row, kind, status, w).state \notin {"none", "stopped"}
  <1> DEFINE state == CASE status = "uncertain" -> "reconciliation-required"
                        [] status = "observed" /\ kind = "send" -> "running"
                        [] status = "observed" /\ kind = "archive" -> "stop-requested"
                        [] status = "failed" /\ kind = "send" -> "bound"
                        [] OTHER -> row.state
             s == IF row.state = "stopped" THEN row.state ELSE state
             v == IF kind = "create" /\ status = "observed" /\ w # None THEN w ELSE row.agent
             b == row.tree \/ (/\ kind = "place" /\ row.placement = "isolated"
                               /\ status \in {"observed", "held"})
  <1>1. Observed(row, kind, status, w) = Edited(row, s, v, b)
        BY DEF Observed, Edited
  <1>2. state \in {row.state, "reconciliation-required", "running", "stop-requested", "bound"}
        OBVIOUS
  <1>3. s \in {row.state, "reconciliation-required", "running", "stop-requested", "bound"}
        /\ (row.state = "stopped" => s = "stopped")
        BY <1>2
  <1>4. v \in Workers \cup {None}
        BY DEF AttemptRows
  <1>5. b \in BOOLEAN
        BY DEF AttemptRows
  <1> HIDE DEF state, s, v, b
  <1>6. s \in AttemptStates
        BY <1>3 DEF AttemptRows, AttemptStates
  <1>7. v = IF kind = "create" /\ status = "observed" /\ w # None THEN w ELSE row.agent
        BY DEF v
  <1>8. PICK c \in BOOLEAN : Observed(row, kind, status, w) = Edited(row, s, v, c)
        BY <1>1, <1>5
  <1>9. /\ Edited(row, s, v, c) \in AttemptRows
        /\ Edited(row, s, v, c).state = s /\ Edited(row, s, v, c).rev = row.rev
        /\ Edited(row, s, v, c).reuse = row.reuse /\ Edited(row, s, v, c).agent = v
        /\ Edited(row, s, v, c).member = row.member
        BY <1>4, <1>6, EditedRow
  <1> QED BY <1>3, <1>7, <1>8, <1>9

LEMMA NoAttemptRow == NoAttempt \in AttemptRows /\ NoAttempt.state = "none" /\ NoAttempt.agent = None
                      /\ NoAttempt.member = None
  BY TaskAssumption DEF NoAttempt, AttemptRows

LEMMA NoRunOK == NoRun \in Runs /\ \A rows : CallOK(NoRun, rows)
  BY DEF NoRun, Runs, CallOK

\* A commit ends the calls whose pins it makes stale, and moves no other call
\* but those of its own request.
LEMMA RepinnedOK ==
    ASSUME NEW calling \in [Runners -> Runs], NEW intent, NEW rows,
           \A r \in Runners : CallOK(calling[r], rows)
    PROVE  /\ Repinned(calling, intent) \in [Runners -> Runs]
           /\ \A r \in Runners : CallOK(Repinned(calling, intent)[r], rows)
           /\ \A r \in Runners : Repinned(calling, intent)[r].pc = "intent"
                 => Repinned(calling, intent)[r].x[2] = "create"
  <1> DEFINE new == Repinned(calling, intent)
  <1>1. \A r \in Runners :
           \/ calling[r].pc # "intent" /\ new[r] = calling[r]
           \/ calling[r].x[2] = "create" /\ new[r] = calling[r]
           \/ calling[r].pc = "intent" /\ new[r] = [calling[r] EXCEPT !.pc = "issue"]
           \/ new[r] = NoRun
        BY DEF Repinned
  <1>2. new = [r \in Runners |-> new[r]]
        BY DEF Repinned
  <1>3. \A r \in Runners : calling[r] \in Runs
        OBVIOUS
  <1>4. \A r \in Runners :
           LET c == [calling[r] EXCEPT !.pc = "issue"]
           IN  c \in Runs /\ c.pc = "issue" /\ c.x = calling[r].x
        BY <1>3 DEF Runs
  <1>5. \A r \in Runners : new[r] \in Runs
        BY <1>1, <1>3, <1>4, NoRunOK
  <1> HIDE DEF new
  <1>6. new \in [Runners -> Runs]
        BY <1>2, <1>5
  <1>7. \A r \in Runners : CallOK(new[r], rows)
    <2> SUFFICES ASSUME NEW r \in Runners PROVE CallOK(new[r], rows)
        OBVIOUS
    <2>1. CASE new[r] = [calling[r] EXCEPT !.pc = "issue"] /\ calling[r].pc = "intent"
          BY <2>1, <1>4 DEF CallOK
    <2> QED BY <1>1, <2>1, NoRunOK
  <1>8. \A r \in Runners : new[r].pc = "intent" => new[r].x[2] = "create"
    <2> SUFFICES ASSUME NEW r \in Runners, new[r].pc = "intent" PROVE new[r].x[2] = "create"
        OBVIOUS
    <2>1. new[r] # NoRun
          BY DEF NoRun
    <2>2. ~ (calling[r].pc = "intent" /\ new[r] = [calling[r] EXCEPT !.pc = "issue"])
          BY <1>4
    <2> QED BY <1>1, <2>1, <2>2
  <1> QED BY <1>6, <1>7, <1>8 DEF new

-----------------------------------------------------------------------------
(* How the ledger advances: every command but a reservation *)

\* What a command may do to the row of an attempt.
Keeps(row, new) ==
    /\ row.state = "none" => new = row
    /\ row.state # "none" => new.state # "none"
    /\ row.state = "stopped" => new.state = "stopped"
    /\ new.rev = row.rev /\ new.reuse = row.reuse
    /\ row.agent # None => new.agent = row.agent

\* The life of an action: intended once, then issued once or abandoned, and
\* observed only after it was issued.
Moves(x) ==
    /\ att[x[1]].state # "none"
    /\ \/ /\ act[x] = "none" /\ act'[x] = "intended"
          /\ x[2] \in Sends \cup Archives => att[x[1]].agent # None
          /\ x[2] = "create" => att[x[1]].reuse = None
       \/ act[x] = "intended" /\ act'[x] = "abandoned"
       \/ /\ act[x] = "intended" /\ act'[x] = "issued"
          /\ att[x[1]].state = "stopped" => x[2] \notin {"create"} \cup Sends
       \/ /\ act[x] \in Open /\ act'[x] \notin Unissued
          /\ act'[x] = "observed" /\ x[2] # "place" => x \in done

Grows ==
    \A t \in Tasks : \A n \in 1..Len(task[t]) :
        n \in 1..Len(task'[t]) /\ task'[t][n] = task[t][n]

Advances ==
    /\ att' \in [Attempts -> AttemptRows] /\ act' \in [Actions -> ActionStates]
    /\ calls' \in [Actions -> Nat]
    /\ \A a \in Attempts :
          /\ Keeps(att[a], att'[a])
          /\ att'[a].state = "stopped" => att[a].state = "stopped" \/ NeverAuthorized(a)'
          /\ \/ att'[a].agent = att[a].agent
             \/ att'[a].reuse # None
             \/ act'[<<a, "create">>] = "observed"
          /\ \/ att'[a].member = att[a].member
             \/ \A b \in Attempts \ {a} :
                   att'[b] = att[b] /\ (Live(b) => att[b].member # att'[a].member)
    /\ \A x \in Actions :
          /\ act'[x] = act[x] \/ Moves(x)
          /\ \/ calls'[x] = calls[x]
             \/ calls'[x] = calls[x] + 1 /\ act[x] = "intended" /\ act'[x] = "issued"
    /\ Grows
    /\ UNCHANGED <<done, made, archived>>

LEMMA AdvancesInv ==
    ASSUME TypeOK, LedgerInv, Advances
    PROVE  LedgerInv'
  <1> USE DEF LedgerInv
  <1>1. \A a \in Attempts :
           /\ Keeps(att[a], att'[a])
           /\ att'[a].state = "none" <=> att[a].state = "none"
           /\ Live(a)' => Live(a)
        BY DEF Advances, Keeps, Live
  <1>2. \A x \in Actions : act'[x] = act[x] \/ Moves(x)
        BY DEF Advances
  <1>3. Numbered'
    <2> SUFFICES ASSUME NEW t \in Tasks, NEW n \in 1..MaxAttempts, NEW m \in 1..n,
                        att'[<<t, n>>].state # "none"
                 PROVE  att'[<<t, m>>].state # "none"
        BY DEF Numbered
    <2>1. <<t, n>> \in Attempts /\ <<t, m>> \in Attempts
          BY TaskAssumption DEF Attempts
    <2> QED BY <1>1, <2>1 DEF Numbered
  <1>4. Unreserved'
    <2> SUFFICES ASSUME NEW a \in Attempts, att'[a].state = "none"
                 PROVE  att'[a] = NoAttempt /\ \A e \in Effects : act'[<<a, e>>] = "none"
        BY DEF Unreserved
    <2>1. att[a].state = "none" /\ att'[a] = att[a]
          BY <1>1 DEF Keeps
    <2>2. \A e \in Effects : act'[<<a, e>>] = act[<<a, e>>]
          BY <2>1, <1>2, ActionPairs DEF Moves
    <2> QED BY <2>1, <2>2 DEF Unreserved
  <1>5. \A x \in Actions : act'[x] \in Unissued => act[x] \in Unissued /\ calls'[x] = calls[x]
        BY <1>2 DEF Moves, Unissued, Open, Advances
  <1>6. \A x \in Actions : calls'[x] \in Nat /\ (calls[x] > 0 => calls'[x] > 0)
    <2>1. calls \in [Actions -> Nat] /\ calls' \in [Actions -> Nat]
          BY DEF Advances, TypeOK
    <2>2. \A x \in Actions : calls'[x] = calls[x] \/ calls'[x] = calls[x] + 1
          BY DEF Advances
    <2> QED BY <2>1, <2>2
  <1>7. Permits' /\ CallsOnce'
    <2>1. \A x \in Actions : act[x] = "intended" => calls[x] = 0
          BY DEF Permits, Unissued
    <2>2. CallsOnce'
          BY <2>1 DEF CallsOnce, Advances
    <2>3. \A w \in Workers : made[w] \in Attempts => <<made[w], "create">> \in Actions
          BY ActionPairs, Kinds
    <2> QED BY <1>5, <1>6, <2>2, <2>3 DEF Permits, Advances
  <1>8. ObservedHappened'
        BY <1>2 DEF ObservedHappened, Moves, Unissued, Open, Advances
  <1>9. StoppedUnissued'
    <2> SUFFICES ASSUME NEW a \in Attempts, att'[a].state = "stopped", att[a].state = "stopped"
                 PROVE  NeverAuthorized(a)'
        BY DEF StoppedUnissued, Advances
    <2> SUFFICES ASSUME NEW e \in {"create"} \cup Sends
                 PROVE  act'[<<a, e>>] \in Unissued
        BY DEF NeverAuthorized, Unissued
    <2>1. act[<<a, e>>] \in Unissued
          BY DEF StoppedUnissued, NeverAuthorized, Unissued
    <2>2. <<a, e>> \in Actions
          BY ActionPairs, Kinds
    <2> QED BY <1>2, <2>1, <2>2 DEF Moves, Unissued, Open
  <1>10. Reservations'
    <2>1. \A a \in Attempts : att[a].state # "none" =>
             /\ att[a].rev \in 1..Len(task[a[1]]) /\ att'[a].rev = att[a].rev
             /\ att'[a].rev \in 1..Len(task'[a[1]])
             /\ Surfaces(a)' = Surfaces(a)
          BY <1>1, AttemptPairs DEF Reservations, Keeps, Surfaces, Advances, Grows
    <2>2. \A a \in Attempts : Live(a) => att[a].state # "none"
          BY DEF Live
    <2> QED BY <1>1, <2>1, <2>2 DEF Reservations
  <1>11. OneAttemptPerWorker'
    <2> SUFFICES ASSUME NEW a \in Attempts, NEW b \in Attempts, a # b, Live(a)', Live(b)',
                        att'[a].member # None
                 PROVE  att'[a].member # att'[b].member
        BY DEF OneAttemptPerWorker
    <2>1. Live(a) /\ Live(b)
          BY <1>1
    <2>2. \A c, d \in Attempts : att'[c].member # att[c].member /\ d # c
             => att'[d] = att[d] /\ (Live(d) => att[d].member # att'[c].member)
          BY DEF Advances
    <2>3. CASE att'[a].member # att[a].member \/ att'[b].member # att[b].member
          BY <2>1, <2>2, <2>3
    <2> QED BY <2>1, <2>3 DEF OneAttemptPerWorker
  <1>12. AgentKnown'
    <2> SUFFICES ASSUME NEW a \in Attempts
                 PROVE  /\ \A e \in Sends \cup Archives :
                              act'[<<a, e>>] # "none" => att'[a].agent # None
                        /\ act'[<<a, "create">>] # "none" => att'[a].reuse = None
                        /\ att'[a].agent # None /\ att'[a].reuse = None
                              => act'[<<a, "create">>] = "observed"
        BY DEF AgentKnown
    <2>1. \A e \in Sends \cup Archives : act'[<<a, e>>] # "none" => att[a].agent # None
      <3> SUFFICES ASSUME NEW e \in Sends \cup Archives, act'[<<a, e>>] # "none"
                   PROVE  att[a].agent # None
          OBVIOUS
      <3>1. <<a, e>> \in Actions
            BY ActionPairs, Kinds
      <3>2. CASE Moves(<<a, e>>)
            BY <3>1, <3>2 DEF Moves, AgentKnown, Open
      <3> QED BY <1>2, <3>1, <3>2 DEF AgentKnown
    <2>2. <<a, "create">> \in Actions
          BY ActionPairs, Kinds
    <2>3. act'[<<a, "create">>] # "none" => att[a].reuse = None
      <3>1. CASE Moves(<<a, "create">>)
            BY <2>2, <3>1 DEF Moves, AgentKnown, Open
      <3> QED BY <1>2, <2>2, <3>1 DEF AgentKnown
    <2>4. att[a].agent # None /\ att[a].reuse = None => act'[<<a, "create">>] = "observed"
          BY <1>2, <2>2 DEF AgentKnown, Moves, Open
    <2> QED BY <1>1, <2>1, <2>3, <2>4 DEF Keeps, Advances
  <1>13. ArchiveKept'
    <2> SUFFICES ASSUME NEW a \in Attempts, NEW f \in Archives, <<a, f>> \in done
                 PROVE  att'[a].agent \in archived
        BY DEF ArchiveKept, Advances
    <2>1. <<a, f>> \in Actions
          BY ActionPairs, Kinds
    <2>2. act[<<a, f>>] # "none"
          BY <2>1 DEF Permits, Unissued
    <2>3. att[a].agent # None
          BY <2>2 DEF AgentKnown
    <2> QED BY <1>1, <2>3 DEF Keeps, ArchiveKept
  <1> QED BY <1>3, <1>4, <1>7, <1>8, <1>9, <1>10, <1>11, <1>12, <1>13

LEMMA CallsKept ==
    ASSUME Advances, NEW c, CallOK(c, att)
    PROVE  CallOK(c, att')
  <1>1. c.pc # "idle" => c.x[1] \in Attempts
        BY ActionPairs DEF CallOK
  <1> QED BY <1>1 DEF CallOK, Advances, Keeps

\* A command that commits no intent preserves the invariant.
LEMMA CommandInv ==
    ASSUME TaskInv, Advances, UNCHANGED <<task, brief, owner, ownership, held, seat>>,
           NEW calling \in [Runners -> Runs], \A r \in Runners : CallOK(calling[r], att'),
           Committed(None, calling)
    PROVE  TaskInv'
  <1>1. LedgerInv'
        BY AdvancesInv DEF TaskInv
  <1>2. /\ run' \in [Runners -> Runs] /\ last' = None
        /\ \A r \in Runners : CallOK(run'[r], att')
        /\ \A r \in Runners : run'[r].pc = "intent" => run'[r].x[2] = "create"
    <2>1. run' = Repinned(calling, None) /\ last' = None
          BY DEF Committed
    <2> QED BY <2>1, RepinnedOK
  <1>3. RunsOK'
        BY <1>2 DEF RunsOK
  <1>4. SendsClear'
    <2>1. \A a \in Attempts, e \in Effects : <<a, e>> # None
          BY ActionPairs, TaskAssumption
    <2> QED BY <1>2, <2>1, Kinds DEF SendsClear
  <1>5. TypeOK'
    <2>1. calls' \in [Actions -> Nat]
          BY DEF Advances
    <2>2. /\ task' \in [Tasks -> Seq(Declarations)]
          /\ \A t \in Tasks : Len(task'[t]) <= MaxRev
          BY DEF TaskInv, TypeOK
    <2> QED BY <1>2, <2>1, <2>2 DEF TaskInv, TypeOK, Advances, Runs
  <1> QED BY <1>1, <1>3, <1>4, <1>5 DEF TaskInv

LEMMA RunTypes ==
    ASSUME TypeOK PROVE run \in [Runners -> Runs]
  BY DEF TypeOK, Runs

\* The same for a command of no tool call.
LEMMA OwnCommandInv ==
    ASSUME TaskInv, Advances, UNCHANGED <<task, brief, owner, ownership, held, seat>>,
           Committed(None, run)
    PROVE  TaskInv'
  <1>1. \A r \in Runners : CallOK(run[r], att')
        BY CallsKept DEF TaskInv, RunsOK
  <1> QED BY <1>1, RunTypes, CommandInv DEF TaskInv

-----------------------------------------------------------------------------
(* The commands *)

LEMMA StopStep ==
    ASSUME TaskInv, NEW a \in Attempts, Stop(a)
    PROVE  TaskInv'
  <1> DEFINE new == [att[a] EXCEPT !.state = "stop-requested", !.stop = TRUE]
  <1>1. att \in [Attempts -> AttemptRows] /\ att[a] \in AttemptRows
        BY DEF TaskInv, TypeOK
  <1>2. att' = [att EXCEPT ![a] = new] /\ Live(a)
        BY <1>1 DEF Stop
  <1>3. /\ new \in AttemptRows /\ new.state = "stop-requested" /\ new.rev = att[a].rev
        /\ new.reuse = att[a].reuse /\ new.agent = att[a].agent /\ new.member = att[a].member
        BY <1>1 DEF AttemptRows
  <1>4. UNCHANGED <<act, calls, done, made, archived, task>>
        BY DEF Stop, host
  <1> HIDE DEF new
  <1>5. Advances
        BY <1>1, <1>2, <1>3, <1>4 DEF Advances, Keeps, Grows, Live, TaskInv, TypeOK
  <1> QED BY <1>5, OwnCommandInv DEF Stop

LEMMA DischargeStep ==
    ASSUME TaskInv, NEW a \in Attempts, Discharge(a)
    PROVE  TaskInv'
  <1> DEFINE new == [att[a] EXCEPT !.state = "stopped"]
  <1>1. att \in [Attempts -> AttemptRows] /\ att[a] \in AttemptRows
        BY DEF TaskInv, TypeOK
  <1>2. att' = [att EXCEPT ![a] = new] /\ att[a].state # "none"
        BY <1>1 DEF Discharge, Live
  <1>3. /\ new \in AttemptRows /\ new.state = "stopped" /\ new.rev = att[a].rev
        /\ new.reuse = att[a].reuse /\ new.agent = att[a].agent /\ new.member = att[a].member
        BY <1>1, RowEdits
  <1>4. UNCHANGED <<calls, done, made, archived, task>>
        BY DEF Discharge, host
  <1>5. /\ act' \in [Actions -> ActionStates]
        /\ \A x \in Actions : act'[x] = IF x[1] = a /\ act[x] = "intended"
                                         THEN "abandoned" ELSE act[x]
        BY DEF Discharge, TaskInv, TypeOK, ActionStates
  <1>6. \A x \in Actions : act'[x] = act[x] \/ Moves(x)
        BY <1>2, <1>5 DEF Moves
  <1>7. NeverAuthorized(a)'
    <2> SUFFICES ASSUME NEW e \in {"create"} \cup Sends
                 PROVE  act'[<<a, e>>] \in Unissued
        BY DEF NeverAuthorized, Unissued
    <2>1. <<a, e>> \in Actions
          BY ActionPairs, Kinds
    <2>2. act[<<a, e>>] \in Unissued
          BY DEF Discharge, NeverAuthorized, Unissued
    <2> QED BY <1>5, <2>1, <2>2 DEF Unissued
  <1> HIDE DEF new
  <1>8. Advances
        BY <1>1, <1>2, <1>3, <1>4, <1>5, <1>6, <1>7 DEF Advances, Keeps, Grows, TaskInv, TypeOK
  <1> QED BY <1>8, OwnCommandInv DEF Discharge

\* A command on a live attempt, which changes its row and moves its actions.
LEMMA EditAdvances ==
    ASSUME TaskInv, NEW a \in Attempts, NEW new \in AttemptRows,
           att' = [att EXCEPT ![a] = new],
           att[a].state # "none", new.state # "none",
           att[a].state = "stopped" <=> new.state = "stopped",
           new.rev = att[a].rev, new.reuse = att[a].reuse,
           att[a].agent # None => new.agent = att[a].agent,
           new.agent = att[a].agent \/ new.reuse # None \/ act'[<<a, "create">>] = "observed",
           \/ new.member = att[a].member
           \/ \A b \in Attempts \ {a} : Live(b) => att[b].member # new.member,
           act' \in [Actions -> ActionStates],
           \A x \in Actions : act'[x] = act[x] \/ Moves(x),
           calls' \in [Actions -> Nat],
           \A x \in Actions : \/ calls'[x] = calls[x]
                              \/ calls'[x] = calls[x] + 1 /\ act[x] = "intended" /\ act'[x] = "issued",
           UNCHANGED <<task, done, made, archived>>
    PROVE  Advances
  <1>1. att \in [Attempts -> AttemptRows]
        BY DEF TaskInv, TypeOK
  <1>2. att' \in [Attempts -> AttemptRows] /\ att'[a] = new
        /\ \A b \in Attempts \ {a} : att'[b] = att[b]
        BY <1>1
  <1>3. Keeps(att[a], att'[a])
        BY <1>2 DEF Keeps
  <1>4. \A b \in Attempts \ {a} : Keeps(att[b], att'[b])
        BY <1>2 DEF Keeps
  <1>5. \A b \in Attempts :
           /\ Keeps(att[b], att'[b])
           /\ att'[b].state = "stopped" => att[b].state = "stopped" \/ NeverAuthorized(b)'
           /\ \/ att'[b].agent = att[b].agent
              \/ att'[b].reuse # None
              \/ act'[<<b, "create">>] = "observed"
           /\ \/ att'[b].member = att[b].member
              \/ \A c \in Attempts \ {b} :
                    att'[c] = att[c] /\ (Live(c) => att[c].member # att'[b].member)
        BY <1>2, <1>3, <1>4
  <1>6. Grows
        BY DEF Grows
  <1> QED BY <1>2, <1>5, <1>6 DEF Advances

\* What is known of the row and the worker when a bind is admitted.
LEMMA BindKeeps ==
    ASSUME TypeOK, NEW a \in Attempts, NEW row \in AttemptRows, NEW acts, NEW w \in Workers,
           MayBind(a, row, acts, w)
    PROVE  /\ row.agent # None => Bound(row, w).agent = row.agent
           /\ \/ Bound(row, w).agent = row.agent
              \/ Bound(row, w).reuse # None
              \/ acts[<<a, "create">>] = "observed"
           /\ \A b \in Attempts \ {a} : Live(b) => att[b].member # Bound(row, w).member
           /\ row.state = "reserved"
  <1>1. /\ Bound(row, w).reuse = row.reuse /\ Bound(row, w).agent = w /\ Bound(row, w).member = w
        BY BoundRow
  <1>2. /\ row.agent \in {None, w} /\ row.state = "reserved"
        /\ row.reuse = None => row.agent # None /\ acts[<<a, "create">>] = "observed"
        BY DEF MayBind
  <1>3. \A b \in Attempts \ {a} : Live(b) => att[b].member # w
        BY DEF MayBind
  <1> QED BY <1>1, <1>2, <1>3

LEMMA BindStep ==
    ASSUME TaskInv, NEW r \in Runners, Bind(r)
    PROVE  TaskInv'
  <1> DEFINE a == run[r].x[1]
             w == IF att[a].reuse # None THEN att[a].reuse ELSE att[a].agent
  <1>1. a \in Attempts /\ att[a].state # "none"
        BY ActionPairs DEF Bind, TaskInv, RunsOK, CallOK
  <1>2. att \in [Attempts -> AttemptRows] /\ att[a] \in AttemptRows
        BY <1>1 DEF TaskInv, TypeOK
  <1>3. w \in Workers /\ MayBind(a, att[a], act, w)
        BY <1>2 DEF Bind, AttemptRows
  <1>4. att' = [att EXCEPT ![a] = Bound(att[a], w)]
        BY <1>1, <1>2 DEF Bind
  <1>5. UNCHANGED <<act, calls, done, made, archived, task>>
        /\ Committed(None, [run EXCEPT ![r] = NoRun])
        /\ UNCHANGED <<task, brief, owner, ownership, held, seat>>
        BY DEF Bind, host
  <1> HIDE DEF a, w
  <1>6. act' \in [Actions -> ActionStates] /\ calls' \in [Actions -> Nat]
        BY <1>5 DEF TaskInv, TypeOK
  <1>7. Advances
    <2> DEFINE new == Bound(att[a], w)
    <2>1. /\ att[a].agent # None => new.agent = att[a].agent
          /\ \/ new.agent = att[a].agent
             \/ new.reuse # None
             \/ act'[<<a, "create">>] = "observed"
          /\ \A b \in Attempts \ {a} : Live(b) => att[b].member # new.member
          /\ att[a].state = "reserved"
          BY <1>1, <1>2, <1>3, <1>5, BindKeeps DEF TaskInv
    <2>2. /\ new \in AttemptRows /\ new.state = "bound"
          /\ new.rev = att[a].rev /\ new.reuse = att[a].reuse
          BY <1>2, <1>3, BoundRow
    <2> HIDE DEF new
    <2>3. att' = [att EXCEPT ![a] = new]
          BY <1>4 DEF new
    <2> QED BY <1>1, <1>5, <1>6, <2>1, <2>2, <2>3, EditAdvances
  <1>8. [run EXCEPT ![r] = NoRun] \in [Runners -> Runs]
        /\ \A q \in Runners : CallOK([run EXCEPT ![r] = NoRun][q], att')
    <2>1. \A q \in Runners : CallOK(run[q], att')
          BY <1>7, CallsKept DEF TaskInv, RunsOK
    <2> QED BY <2>1, RunTypes, NoRunOK DEF TaskInv
  <1> QED BY <1>5, <1>7, <1>8, CommandInv

LEMMA TurnEndedStep ==
    ASSUME TaskInv, NEW a \in Attempts, NEW e \in Sends, TurnEnded(a, e)
    PROVE  TaskInv'
  <1> DEFINE new == Observed(att[a], "send", "observed", None)
  <1>1. att \in [Attempts -> AttemptRows] /\ att[a] \in AttemptRows
        /\ act \in [Actions -> ActionStates] /\ calls \in [Actions -> Nat]
        BY DEF TaskInv, TypeOK
  <1>2. <<a, e>> \in Actions /\ <<a, e>> \in done /\ act[<<a, e>>] \in Open
        BY ActionPairs, Kinds DEF TurnEnded, Open
  <1>3. att' = [att EXCEPT ![a] = new] /\ act' = [act EXCEPT ![<<a, e>>] = "observed"]
        BY <1>1 DEF TurnEnded
  <1>4. att[a].state \notin {"none", "stopped"}
        BY <1>2, Kinds DEF TaskInv, LedgerInv, Unreserved, StoppedUnissued, NeverAuthorized, Open
  <1>5. /\ new \in AttemptRows /\ new.rev = att[a].rev /\ new.reuse = att[a].reuse
        /\ new.member = att[a].member /\ new.agent = att[a].agent
        /\ new.state \notin {"none", "stopped"}
        BY <1>1, <1>4, ObservedRow
  <1>6. \A x \in Actions : act'[x] = act[x] \/ Moves(x)
        BY <1>1, <1>2, <1>3, <1>4 DEF Moves, Unissued
  <1>7. act' \in [Actions -> ActionStates]
        BY <1>1, <1>2, <1>3 DEF ActionStates
  <1>8. UNCHANGED <<calls, done, made, archived, task>> /\ Committed(None, run)
        /\ UNCHANGED <<task, brief, owner, ownership, held, seat>>
        BY DEF TurnEnded, host
  <1> HIDE DEF new
  <1>9. Advances
        BY <1>1, <1>3, <1>4, <1>5, <1>6, <1>7, <1>8, EditAdvances
  <1> QED BY <1>8, <1>9, OwnCommandInv

LEMMA ReconcileStep ==
    ASSUME TaskInv, NEW a \in Attempts, NEW targets, NEW positive,
           Reconcile(a, targets, positive)
    PROVE  TaskInv'
  <1>1. att \in [Attempts -> AttemptRows] /\ att[a] \in AttemptRows
        /\ act \in [Actions -> ActionStates] /\ calls \in [Actions -> Nat]
        BY DEF TaskInv, TypeOK
  <1>2. att[a].state \notin {"none", "stopped"}
        BY DEF Reconcile, Live
  <1>3. \A e \in targets : e \in Effects /\ (act[<<a, e>>] # "observed" => act[<<a, e>>] \in Open)
        BY DEF Reconcile, Targets, Open
  <1>4. \A e \in positive : <<a, e>> \in done
        BY DEF Reconcile, Observable
  <1>5. act' = Marked(a, targets, positive)
        BY DEF Reconcile
  <1>6. \A x \in Actions :
           \/ act'[x] = act[x]
           \/ /\ x[1] = a /\ x[2] \in targets /\ act[x] # "observed"
              /\ act'[x] = "uncertain" \/ (act'[x] = "observed" /\ x[2] \in positive)
        BY <1>5 DEF Marked
  <1>7. act' = [x \in Actions |-> act'[x]]
        BY <1>5 DEF Marked
  <1>8. act' \in [Actions -> ActionStates]
        BY <1>1, <1>6, <1>7 DEF ActionStates
  <1>9. \A x \in Actions : act'[x] = act[x] \/ Moves(x)
    <2> SUFFICES ASSUME NEW x \in Actions, act'[x] # act[x] PROVE Moves(x)
        OBVIOUS
    <2>1. x = <<a, x[2]>> /\ x[2] \in targets
          BY <1>6, ActionPairs
    <2>2. act[x] \in Open
          BY <1>3, <1>6, <2>1
    <2> QED BY <1>2, <1>4, <1>6, <2>1, <2>2 DEF Moves, Unissued
  <1>10. PICK row \in AfterMarks(a, targets, positive) :
           \/ att' = [att EXCEPT ![a] = row]
           \/ \E w \in Workers :
                 MayBind(a, row, act', w) /\ att' = [att EXCEPT ![a] = Bound(row, w)]
        BY DEF Reconcile, ToBind
  <1>11. /\ row \in AttemptRows /\ row.state \notin {"none", "stopped"}
         /\ row.rev = att[a].rev /\ row.reuse = att[a].reuse
         /\ row.agent = att[a].agent /\ row.member = att[a].member
    <2>1. row = att[a] \/ row = [att[a] EXCEPT !.state = "reconciliation-required"]
          \/ row = [att[a] EXCEPT !.state = "running"]
          BY DEF AfterMarks
    <2>2. CASE row = [att[a] EXCEPT !.state = "reconciliation-required"]
          BY <1>1, <2>2, RowEdits
    <2>3. CASE row = [att[a] EXCEPT !.state = "running"]
          BY <1>1, <2>3, RowEdits
    <2> QED BY <1>1, <1>2, <2>1, <2>2, <2>3
  <1>12. UNCHANGED <<calls, done, made, archived, task>> /\ Committed(None, run)
         /\ UNCHANGED <<task, brief, owner, ownership, held, seat>>
        BY DEF Reconcile, host
  <1>13. Advances
    <2>1. CASE att' = [att EXCEPT ![a] = row]
          BY <1>1, <1>2, <1>8, <1>9, <1>11, <1>12, <2>1, EditAdvances
    <2>2. CASE \E w \in Workers :
                 MayBind(a, row, act', w) /\ att' = [att EXCEPT ![a] = Bound(row, w)]
      <3>1. PICK w \in Workers :
                 MayBind(a, row, act', w) /\ att' = [att EXCEPT ![a] = Bound(row, w)]
            BY <2>2
      <3> DEFINE new == Bound(row, w)
      <3>2. /\ row.agent # None => new.agent = row.agent
            /\ \/ new.agent = row.agent
               \/ new.reuse # None
               \/ act'[<<a, "create">>] = "observed"
            /\ \A b \in Attempts \ {a} : Live(b) => att[b].member # new.member
            BY <1>11, <3>1, BindKeeps DEF TaskInv
      <3>3. /\ new \in AttemptRows /\ new.state = "bound"
            /\ new.rev = row.rev /\ new.reuse = row.reuse
            BY <1>11, BoundRow
      <3>4. att' = [att EXCEPT ![a] = new]
            BY <3>1
      <3> HIDE DEF new
      <3> QED BY <1>1, <1>2, <1>8, <1>9, <1>11, <1>12, <3>2, <3>3, <3>4, EditAdvances
    <2> QED BY <1>10, <2>1, <2>2
  <1> QED BY <1>12, <1>13, OwnCommandInv

\* What a command of a tool call knows of its request.
LEMMA CallKnown ==
    ASSUME TaskInv, NEW r \in Runners, run[r].pc # "idle"
    PROVE  /\ run[r].x \in Actions /\ run[r].x[1] \in Attempts /\ run[r].x[2] \in Effects
           /\ run[r].x = <<run[r].x[1], run[r].x[2]>>
           /\ att[run[r].x[1]] \in AttemptRows /\ att[run[r].x[1]].state # "none"
           /\ run[r].x[2] \in Sends \cup Archives => att[run[r].x[1]].agent # None
           /\ run[r].x[2] = "create" => att[run[r].x[1]].reuse = None
  <1>1. CallOK(run[r], att) /\ att \in [Attempts -> AttemptRows]
        BY DEF TaskInv, RunsOK, TypeOK
  <1>2. run[r].x \in Actions
        BY <1>1 DEF CallOK
  <1>3. run[r].x[1] \in Attempts /\ run[r].x[2] \in Effects /\ run[r].x = <<run[r].x[1], run[r].x[2]>>
        BY <1>2, ActionPairs
  <1> QED BY <1>1, <1>2, <1>3 DEF CallOK

\* The tool call moves on with its request.
LEMMA CallingOK ==
    ASSUME TypeOK, NEW rows, \A q \in Runners : CallOK(run[q], rows),
           NEW r \in Runners, run[r].pc # "idle",
           NEW pc \in {"idle", "intent", "issue", "observe", "bind"}
    PROVE  /\ Calling(r, pc, run[r].x) \in [Runners -> Runs]
           /\ \A q \in Runners : CallOK(Calling(r, pc, run[r].x)[q], rows)
  <1> DEFINE c == [run[r] EXCEPT !.pc = pc, !.x = run[r].x]
  <1>1. run \in [Runners -> Runs] /\ run[r] \in Runs
        BY RunTypes
  <1>2. c \in Runs /\ c.x = run[r].x
        BY <1>1 DEF Runs
  <1>3. CallOK(c, rows)
        BY <1>2 DEF CallOK
  <1>4. Calling(r, pc, run[r].x) = [run EXCEPT ![r] = c]
        BY <1>1 DEF Calling
  <1> HIDE DEF c
  <1> QED BY <1>1, <1>2, <1>3, <1>4

LEMMA IssueStep ==
    ASSUME TaskInv, NEW r \in Runners, Issue(r)
    PROVE  TaskInv'
  <1> DEFINE x == run[r].x
             a == x[1]
  <1>1. /\ x \in Actions /\ a \in Attempts /\ x[2] \in Effects /\ x = <<a, x[2]>>
        /\ att[a] \in AttemptRows /\ att[a].state # "none"
        BY CallKnown DEF Issue
  <1>2. att \in [Attempts -> AttemptRows]
        /\ act \in [Actions -> ActionStates] /\ calls \in [Actions -> Nat]
        BY DEF TaskInv, TypeOK
  <1>3. /\ act[x] = "intended" /\ act' = [act EXCEPT ![x] = "issued"]
        /\ calls' = [calls EXCEPT ![x] = calls[x] + 1] /\ att' = att
        BY <1>1, <1>2 DEF Issue, Admissible
  <1>4. att[a].state = "stopped" => x[2] \notin {"create"} \cup Sends
    <2>1. Kind(x[2]) # "archive" => att[a].state # "stopped"
          BY DEF Issue, Admissible, Gate
    <2> QED BY <2>1, Kinds
  <1>5. UNCHANGED <<done, made, archived, task>> /\ Committed(None, Calling(r, "observe", x))
        /\ UNCHANGED <<task, brief, owner, ownership, held, seat>> /\ run[r].pc # "idle"
        BY DEF Issue
  <1> HIDE DEF x, a
  <1>6. Moves(x) /\ act' \in [Actions -> ActionStates] /\ calls' \in [Actions -> Nat]
    <2>1. x[1] = a
          BY DEF a
    <2> QED BY <1>1, <1>2, <1>3, <1>4, <2>1 DEF Moves, ActionStates
  <1>7. \A y \in Actions : act'[y] = act[y] \/ Moves(y)
        BY <1>2, <1>3, <1>6
  <1>8. \A y \in Actions : \/ calls'[y] = calls[y]
                           \/ calls'[y] = calls[y] + 1 /\ act[y] = "intended" /\ act'[y] = "issued"
        BY <1>1, <1>2, <1>3
  <1>9. Advances
        BY <1>2, <1>3, <1>5, <1>6, <1>7, <1>8 DEF Advances, Keeps, Grows
  <1>10. \A q \in Runners : CallOK(run[q], att')
        BY <1>9, CallsKept DEF TaskInv, RunsOK
  <1>11. /\ Calling(r, "observe", x) \in [Runners -> Runs]
         /\ \A q \in Runners : CallOK(Calling(r, "observe", x)[q], att')
        BY <1>5, <1>10, CallingOK DEF x, TaskInv
  <1> QED BY <1>5, <1>9, <1>11, CommandInv

LEMMA ContinueOK ==
    ASSUME TaskInv, NEW r \in Runners, run[r].pc # "idle", NEW status, NEW rows,
           CallOK(run[r], rows),
           rows[run[r].x[1]].reuse = att[run[r].x[1]].reuse
    PROVE  LET c == Continue(r, run[r].x, status)
           IN  c \in Runs /\ CallOK(c, rows)
  <1> DEFINE x == run[r].x
             c1 == [run[r] EXCEPT !.pc = "intent", !.x = <<x[1], "create">>]
             c2 == [run[r] EXCEPT !.pc = "bind"]
  <1>1. run[r] \in Runs
        BY RunTypes DEF TaskInv
  <1>2. <<x[1], "create">> \in Actions
        BY CallKnown, ActionPairs, Kinds
  <1>3. c1 \in Runs /\ c1.x = <<x[1], "create">> /\ c2 \in Runs /\ c2.x = x
        BY <1>1, <1>2 DEF Runs
  <1>4. CallOK(c2, rows)
        BY <1>3 DEF CallOK
  <1>5. x[2] = "place" /\ att[x[1]].reuse = None => CallOK(c1, rows)
    <2>1. <<x[1], "create">>[1] = x[1] /\ <<x[1], "create">>[2] = "create"
          OBVIOUS
    <2>2. rows[x[1]].state # "none"
          BY DEF CallOK
    <2> QED BY <1>2, <1>3, <2>1, <2>2, Kinds DEF CallOK
  <1>6. \/ Continue(r, x, status) = NoRun
        \/ Continue(r, x, status) = c1 /\ x[2] = "place" /\ att[x[1]].reuse = None
        \/ Continue(r, x, status) = c2
        BY DEF Continue
  <1> HIDE DEF x, c1, c2
  <1> QED BY <1>3, <1>4, <1>5, <1>6, NoRunOK DEF x

LEMMA ObserveStep ==
    ASSUME TaskInv, NEW r \in Runners, Observe(r)
    PROVE  TaskInv'
  <1> DEFINE x == run[r].x
             a == x[1]
  <1>1. /\ x \in Actions /\ a \in Attempts /\ x[2] \in Effects /\ x = <<a, x[2]>>
        /\ att[a] \in AttemptRows /\ att[a].state # "none"
        /\ x[2] = "create" => att[a].reuse = None
        BY CallKnown DEF Observe
  <1>2. att \in [Attempts -> AttemptRows]
        /\ act \in [Actions -> ActionStates] /\ calls \in [Actions -> Nat]
        BY DEF TaskInv, TypeOK
  <1>3. PICK status \in Outcomes(x) :
           /\ act' = [act EXCEPT ![x] = status]
           /\ \E w \in IF x[2] = "create" /\ status = "observed"
                         THEN {v \in Workers : made[v] = a} ELSE {None} :
                 att' = [att EXCEPT ![a] = Observed(@, Kind(x[2]), status, w)]
           /\ Committed(None, [run EXCEPT ![r] = Continue(r, x, status)])
        BY DEF Observe
  <1>4. PICK w \in Workers \cup {None} :
           att' = [att EXCEPT ![a] = Observed(att[a], Kind(x[2]), status, w)]
        BY <1>1, <1>2, <1>3
  <1>5. act[x] \in Open /\ run[r].pc # "idle"
        BY DEF Observe, Open
  <1>6. status \in {"observed", "failed", "held", "uncertain"}
        /\ (status = "observed" /\ x[2] # "place" => x \in done)
        BY <1>3 DEF Outcomes
  <1>7. UNCHANGED <<calls, done, made, archived, task>>
        /\ UNCHANGED <<task, brief, owner, ownership, held, seat>>
        BY DEF Observe, host
  <1> DEFINE new == Observed(att[a], Kind(x[2]), status, w)
  <1>8. /\ new \in AttemptRows /\ new.rev = att[a].rev /\ new.reuse = att[a].reuse
        /\ new.member = att[a].member
        /\ new.agent = IF Kind(x[2]) = "create" /\ status = "observed" /\ w # None
                         THEN w ELSE att[a].agent
        /\ att[a].state = "stopped" => new.state = "stopped"
        /\ att[a].state \notin {"none", "stopped"} => new.state \notin {"none", "stopped"}
        BY <1>1, ObservedRow
  <1>9. att' = [att EXCEPT ![a] = new]
        BY <1>4
  <1>10. new.agent # att[a].agent =>
            x[2] = "create" /\ status = "observed" /\ att[a].agent = None
    <2>1. Kind(x[2]) = "create" => x[2] = "create"
          BY <1>1 DEF Kind
    <2>2. x[2] = "create" /\ att[a].agent # None => act[x] = "observed"
          BY <1>1 DEF TaskInv, LedgerInv, AgentKnown
    <2> QED BY <1>5, <1>8, <2>1, <2>2 DEF Open
  <1> HIDE DEF new, x, a
  <1>11. Moves(x) /\ act' \in [Actions -> ActionStates]
    <2>1. x[1] = a
          BY DEF a
    <2> QED BY <1>1, <1>2, <1>3, <1>5, <1>6, <2>1 DEF Moves, ActionStates, Unissued
  <1>12. \A y \in Actions : act'[y] = act[y] \/ Moves(y)
        BY <1>1, <1>2, <1>3, <1>11
  <1>13. new.agent # att[a].agent => act'[<<a, "create">>] = "observed"
    <2>1. act'[x] = status
          BY <1>1, <1>2, <1>3
    <2> QED BY <1>1, <1>10, <2>1
  <1>14. Advances
        BY <1>1, <1>2, <1>7, <1>8, <1>9, <1>10, <1>11, <1>12, <1>13, EditAdvances
  <1>15. \A q \in Runners : CallOK(run[q], att')
        BY <1>14, CallsKept DEF TaskInv, RunsOK
  <1> DEFINE c == Continue(r, x, status)
  <1>16. c \in Runs /\ CallOK(c, att')
    <2>1. att'[a].reuse = att[a].reuse
          BY <1>1, <1>2, <1>8, <1>9
    <2> QED BY <1>5, <1>15, <2>1, ContinueOK DEF x, a
  <1> HIDE DEF c
  <1>17. /\ [run EXCEPT ![r] = c] \in [Runners -> Runs]
         /\ \A q \in Runners : CallOK([run EXCEPT ![r] = c][q], att')
        BY <1>15, <1>16, RunTypes DEF TaskInv
  <1>18. Committed(None, [run EXCEPT ![r] = c])
        BY <1>3 DEF c
  <1> QED BY <1>7, <1>14, <1>17, <1>18, CommandInv

LEMMA IntendStep ==
    ASSUME TaskInv, NEW r \in Runners, Intend(r)
    PROVE  TaskInv'
  <1> DEFINE x == run[r].x
             a == x[1]
  <1>1. /\ x \in Actions /\ a \in Attempts /\ x[2] \in Effects /\ x = <<a, x[2]>>
        /\ att[a] \in AttemptRows /\ att[a].state # "none"
        /\ x[2] \in Sends \cup Archives => att[a].agent # None
        /\ x[2] = "create" => att[a].reuse = None
        BY CallKnown DEF Intend
  <1>2. att \in [Attempts -> AttemptRows]
        /\ act \in [Actions -> ActionStates] /\ calls \in [Actions -> Nat]
        BY DEF TaskInv, TypeOK
  <1>3. /\ act[x] = "none" /\ act' = [act EXCEPT ![x] = "intended"]
        /\ run[r].pc = "intent" /\ att[a].state # "stopped"
        /\ Committed(x, Calling(r, "issue", x))
        /\ UNCHANGED <<calls, done, made, archived, task>>
        /\ UNCHANGED <<task, brief, owner, ownership, held, seat>>
        BY DEF Intend, Gate, host
  <1> DEFINE new == IF x[2] \in Sends THEN [att[a] EXCEPT !.state = "dispatched"] ELSE att[a]
  <1>4. att' = [att EXCEPT ![a] = new]
        BY <1>1, <1>2 DEF Intend
  <1>5. /\ new \in AttemptRows /\ new.state \notin {"none", "stopped"} /\ new.rev = att[a].rev
        /\ new.reuse = att[a].reuse /\ new.agent = att[a].agent /\ new.member = att[a].member
        BY <1>1, <1>3, RowEdits
  <1> HIDE DEF new, x, a
  <1>6. Moves(x) /\ act' \in [Actions -> ActionStates]
    <2>1. x[1] = a
          BY DEF a
    <2> QED BY <1>1, <1>2, <1>3, <2>1 DEF Moves, ActionStates
  <1>7. \A y \in Actions : act'[y] = act[y] \/ Moves(y)
        BY <1>1, <1>2, <1>3, <1>6
  <1>8. Advances
        BY <1>1, <1>2, <1>3, <1>4, <1>5, <1>6, <1>7, EditAdvances
  <1>9. LedgerInv'
        BY <1>8, AdvancesInv DEF TaskInv
  <1>10. \A q \in Runners : CallOK(run[q], att')
        BY <1>8, CallsKept DEF TaskInv, RunsOK
  <1>11. /\ Calling(r, "issue", x) \in [Runners -> Runs]
         /\ \A q \in Runners : CallOK(Calling(r, "issue", x)[q], att')
        BY <1>3, <1>10, CallingOK DEF x, TaskInv
  <1>12. /\ run' \in [Runners -> Runs] /\ last' = x
         /\ \A q \in Runners : CallOK(run'[q], att')
         /\ \A q \in Runners : run'[q].pc = "intent" => run'[q].x[2] = "create"
    <2>1. run' = Repinned(Calling(r, "issue", x), x) /\ last' = x
          BY <1>3 DEF Committed
    <2> QED BY <1>11, <2>1, RepinnedOK
  <1>13. RunsOK'
        BY <1>12 DEF RunsOK
  <1>14. SendsClear'
    <2> SUFFICES ASSUME NEW b \in Attempts, NEW e \in Sends, NEW f \in Archives,
                        last' = <<b, e>> \/ \E q \in Runners : run'[q].pc = "intent"
                                                               /\ run'[q].x = <<b, e>>
                 PROVE  act'[<<b, f>>] # "observed"
        BY DEF SendsClear
    <2>1. x = <<b, e>>
      <3>1. <<b, e>>[2] = e /\ e # "create"
            BY Kinds
      <3> QED BY <1>12, <3>1
    <2>2. act[<<b, f>>] # "observed"
          BY <1>3, <2>1 DEF x, TaskInv, SendsClear
    <2>3. <<b, f>> \in Actions /\ <<b, f>> # x
          BY <2>1, ActionPairs, Kinds
    <2> QED BY <1>2, <1>3, <2>2, <2>3
  <1>15. TypeOK'
        BY <1>1, <1>3, <1>8, <1>12 DEF TaskInv, TypeOK, Advances, Runs
  <1> QED BY <1>9, <1>13, <1>14, <1>15 DEF TaskInv

\* Commits that concern no attempt.
LEMMA AsideInv ==
    ASSUME TaskInv, UNCHANGED <<att, act, host>>, Grows, Committed(None, run),
           task' \in [Tasks -> Seq(Declarations)], \A t \in Tasks : Len(task'[t]) <= MaxRev,
           brief' \in 1..MaxBrief, ownership' \in 1..MaxOwnership, owner' \in Leads,
           held' \subseteq Tasks, seat' \in [Workers -> SeatStates]
    PROVE  TaskInv'
  <1>1. Advances
        BY DEF TaskInv, TypeOK, Advances, Keeps, host
  <1>2. LedgerInv'
        BY <1>1, AdvancesInv DEF TaskInv
  <1>3. \A r \in Runners : CallOK(run[r], att')
        BY <1>1, CallsKept DEF TaskInv, RunsOK
  <1>4. /\ run' \in [Runners -> Runs] /\ last' = None
        /\ \A r \in Runners : CallOK(run'[r], att')
        /\ \A r \in Runners : run'[r].pc = "intent" => run'[r].x[2] = "create"
    <2>1. run' = Repinned(run, None) /\ last' = None
          BY DEF Committed
    <2> QED BY <1>3, <2>1, RunTypes, RepinnedOK DEF TaskInv
  <1>5. RunsOK'
        BY <1>4 DEF RunsOK
  <1>6. SendsClear'
    <2>1. \A a \in Attempts, e \in Effects : <<a, e>> # None
          BY ActionPairs, TaskAssumption
    <2> QED BY <1>4, <2>1, Kinds DEF SendsClear
  <1>7. TypeOK'
    <2>1. /\ att' \in [Attempts -> AttemptRows] /\ act' \in [Actions -> ActionStates]
          /\ calls' \in [Actions -> Nat] /\ done' \subseteq Actions
          /\ made' \in [Workers -> Attempts \cup Leads \cup {None}] /\ archived' \subseteq Workers
          BY DEF TaskInv, TypeOK, host
    <2> QED BY <1>4, <2>1 DEF TypeOK, Runs
  <1> QED BY <1>2, <1>5, <1>6, <1>7 DEF TaskInv

LEMMA OwnerSteps ==
    ASSUME TaskInv,
           \/ \E t \in Tasks, s \in SUBSET Paths, st \in {"open", "withdrawn"} : Declare(t, s, st)
           \/ Rebrief \/ (\E l \in Leads : Succeed(l))
           \/ \E t \in Asked : Hold(t) \/ Rule(t)
    PROVE  TaskInv'
  <1>1. /\ task \in [Tasks -> Seq(Declarations)] /\ \A t \in Tasks : Len(task[t]) <= MaxRev
        /\ brief \in 1..MaxBrief /\ ownership \in 1..MaxOwnership /\ owner \in Leads
        /\ held \subseteq Tasks /\ seat \in [Workers -> SeatStates]
        BY DEF TaskInv, TypeOK
  <1>2. ASSUME NEW t \in Tasks, NEW s \in SUBSET Paths, NEW st \in {"open", "withdrawn"},
               Declare(t, s, st)
        PROVE  TaskInv'
    <2> DEFINE d == [surfaces |-> s, state |-> st, brief |-> brief, by |-> owner]
    <2>1. d \in Declarations
          BY <1>1 DEF Declarations
    <2>2. task' = [task EXCEPT ![t] = Append(task[t], d)] /\ Len(task[t]) < MaxRev
          BY <1>1, <1>2 DEF Declare
    <2> HIDE DEF d
    <2>3. task[t] \in Seq(Declarations)
          BY <1>1
    <2>4. /\ Append(task[t], d) \in Seq(Declarations)
          /\ Len(Append(task[t], d)) = Len(task[t]) + 1
          /\ \A n \in 1..Len(task[t]) : Append(task[t], d)[n] = task[t][n]
          BY <2>1, <2>3
    <2>5. task' \in [Tasks -> Seq(Declarations)]
          BY <1>1, <2>2, <2>4
    <2>6. \A u \in Tasks : Len(task'[u]) <= MaxRev
          BY <1>1, <2>2, <2>3, <2>4, TaskAssumption
    <2>7. Grows
      <3> SUFFICES ASSUME NEW u \in Tasks, NEW n \in 1..Len(task[u])
                   PROVE  n \in 1..Len(task'[u]) /\ task'[u][n] = task[u][n]
          BY DEF Grows
      <3>1. CASE u = t
            BY <1>1, <2>2, <2>3, <2>4, <3>1
      <3>2. CASE u # t
            BY <1>1, <2>2, <3>2
      <3> QED BY <3>1, <3>2
    <2>8. UNCHANGED <<att, act, host, brief, owner, ownership, held, seat>> /\ Committed(None, run)
          BY <1>2 DEF Declare
    <2> QED BY <1>1, <2>5, <2>6, <2>7, <2>8, AsideInv
  <1>3. ASSUME Rebrief PROVE TaskInv'
    <2>1. brief' \in 1..MaxBrief
          BY <1>1, <1>3, TaskAssumption DEF Rebrief
    <2>2. Grows
          BY <1>3 DEF Grows, Rebrief
    <2> QED BY <1>1, <1>3, <2>1, <2>2, AsideInv DEF Rebrief
  <1>4. ASSUME NEW l \in Leads, Succeed(l) PROVE TaskInv'
    <2>1. ownership' \in 1..MaxOwnership
          BY <1>1, <1>4, TaskAssumption DEF Succeed
    <2>2. Grows
          BY <1>4 DEF Grows, Succeed
    <2> QED BY <1>1, <1>4, <2>1, <2>2, AsideInv DEF Succeed
  <1>5. ASSUME NEW t \in Asked, Hold(t) \/ Rule(t) PROVE TaskInv'
    <2>1. held' \subseteq Tasks
          BY <1>1, <1>5, TaskAssumption DEF Hold, Rule
    <2>2. UNCHANGED <<task, brief, owner, ownership, att, act, host, seat>> /\ Committed(None, run)
          BY <1>5 DEF Hold, Rule
    <2>3. Grows
          BY <2>2 DEF Grows
    <2> QED BY <1>1, <2>1, <2>2, <2>3, AsideInv
  <1> QED BY <1>2, <1>3, <1>4, <1>5

LEMMA SeatSteps ==
    ASSUME TaskInv, NEW w \in Workers, Confirm(w) \/ Register(w) \/ Revoke(w)
    PROVE  TaskInv'
  <1>1. /\ task \in [Tasks -> Seq(Declarations)] /\ \A t \in Tasks : Len(task[t]) <= MaxRev
        /\ brief \in 1..MaxBrief /\ ownership \in 1..MaxOwnership /\ owner \in Leads
        /\ held \subseteq Tasks /\ seat \in [Workers -> SeatStates]
        BY DEF TaskInv, TypeOK
  <1>2. seat' \in [Workers -> SeatStates]
        BY <1>1 DEF Confirm, Register, Revoke, SeatStates
  <1>3. UNCHANGED <<task, brief, owner, ownership, held, att, act, host>> /\ Committed(None, run)
        BY DEF Confirm, Register, Revoke
  <1>4. Grows
        BY <1>3 DEF Grows
  <1> QED BY <1>1, <1>2, <1>3, <1>4, AsideInv

-----------------------------------------------------------------------------
(* Tool calls that commit nothing *)

LEMMA MoveInv ==
    ASSUME TaskInv, UNCHANGED <<ledger, host, seat>>, NEW r \in Runners, NEW c \in Runs,
           CallOK(c, att), run' = [run EXCEPT ![r] = c],
           \A a \in Attempts, e \in Sends : c.pc = "intent" /\ c.x = <<a, e>>
               => \A f \in Archives : act[<<a, f>>] # "observed"
    PROVE  TaskInv'
  <1>1. run \in [Runners -> Runs]
        BY RunTypes DEF TaskInv
  <1>2. run' \in [Runners -> Runs] /\ \A q \in Runners : run'[q] = IF q = r THEN c ELSE run[q]
        BY <1>1
  <1>3. TypeOK'
        BY <1>2 DEF TaskInv, TypeOK, Runs, ledger, host
  <1>4. LedgerInv'
    <2>1. Advances
          BY DEF TaskInv, TypeOK, Advances, Keeps, Grows, ledger, host
    <2> QED BY <2>1, AdvancesInv DEF TaskInv
  <1>5. RunsOK'
        BY <1>2 DEF TaskInv, RunsOK, ledger
  <1>6. SendsClear'
    <2>1. UNCHANGED <<last, act>>
          BY DEF ledger
    <2> QED BY <1>2, <2>1 DEF TaskInv, SendsClear
  <1> QED BY <1>3, <1>4, <1>5, <1>6 DEF TaskInv

LEMMA EndSteps ==
    ASSUME TaskInv, NEW r \in Runners, NotPermitted(r) \/ End(r)
    PROVE  TaskInv'
  <1>1. run' = [run EXCEPT ![r] = NoRun] /\ UNCHANGED <<ledger, host, seat>>
        BY DEF NotPermitted, End
  <1>2. NoRun.pc # "intent"
        BY DEF NoRun
  <1> QED BY <1>1, <1>2, NoRunOK, MoveInv

LEMMA RetryReuseStep ==
    ASSUME TaskInv, NEW r \in Runners, NEW a \in Attempts, RetryReuse(r, a)
    PROVE  TaskInv'
  <1> DEFINE c == [pc |-> "issue", x |-> <<a, "place">>, by |-> att[a].by]
  <1>1. run' = [run EXCEPT ![r] = c] /\ UNCHANGED <<ledger, host, seat>> /\ att[a].reuse # None
        BY DEF RetryReuse
  <1>2. att[a] \in AttemptRows
        BY DEF TaskInv, TypeOK
  <1>3. <<a, "place">> \in Actions /\ <<a, "place">>[1] = a /\ <<a, "place">>[2] = "place"
        BY ActionPairs, Kinds
  <1>4. att[a].state # "none"
        BY <1>1 DEF TaskInv, LedgerInv, Unreserved, NoAttempt
  <1>5. c \in Runs /\ c.pc = "issue" /\ c.x = <<a, "place">>
        BY <1>2, <1>3 DEF Runs, AttemptRows
  <1> HIDE DEF c
  <1>6. CallOK(c, att)
        BY <1>3, <1>4, <1>5, Kinds DEF CallOK
  <1> QED BY <1>1, <1>5, <1>6, MoveInv

LEMMA StartStep ==
    ASSUME TaskInv, NEW r \in Runners, NEW a \in Attempts, NEW e \in Sends \cup Archives,
           Start(r, a, e)
    PROVE  TaskInv'
  <1> DEFINE c == [pc |-> IF act[<<a, e>>] = "none" THEN "intent" ELSE "issue",
                   x |-> <<a, e>>, by |-> att[a].by]
  <1>1. /\ run' = [run EXCEPT ![r] = c] /\ UNCHANGED <<ledger, host, seat>>
        /\ att[a].agent # None /\ att[a].agent \notin archived
        BY DEF Start, Verified
  <1>2. att[a] \in AttemptRows
        BY DEF TaskInv, TypeOK
  <1>3. <<a, e>> \in Actions /\ <<a, e>>[1] = a /\ <<a, e>>[2] = e
        BY ActionPairs, Kinds
  <1>4. att[a].state # "none"
        BY <1>1 DEF TaskInv, LedgerInv, Unreserved, NoAttempt
  <1>5. c \in Runs /\ c.x = <<a, e>>
        BY <1>2, <1>3 DEF Runs, AttemptRows
  <1> HIDE DEF c
  <1>6. CallOK(c, att)
        BY <1>1, <1>3, <1>4, <1>5, Kinds DEF CallOK
  <1>7. \A b \in Attempts, g \in Sends : c.x = <<b, g>>
            => \A f \in Archives : act[<<b, f>>] # "observed"
    <2> SUFFICES ASSUME NEW f \in Archives PROVE act[<<a, f>>] # "observed"
        BY <1>5
    <2>1. <<a, f>> \in Actions /\ <<a, f>>[2] = f /\ f # "place"
          BY ActionPairs, Kinds
    <2>2. <<a, f>> \notin done
          BY <1>1 DEF TaskInv, LedgerInv, ArchiveKept
    <2> QED BY <2>1, <2>2 DEF TaskInv, LedgerInv, ObservedHappened
  <1> QED BY <1>1, <1>5, <1>6, <1>7, MoveInv

-----------------------------------------------------------------------------
(* The host *)

\* The host performs a call for which a permit was used.
LEMMA PerformedInv ==
    ASSUME TaskInv, NEW x \in Actions, calls[x] > 0, done' = done \cup {x},
           \A w \in Workers : made'[w] = made[w] \/ (x[2] = "create" /\ made'[w] = x[1]),
           archived \subseteq archived',
           x[2] \in Archives => att[x[1]].agent \in archived',
           UNCHANGED <<task, att, act, calls>>
    PROVE  LedgerInv'
  <1> USE DEF TaskInv, LedgerInv
  <1>1. Numbered' /\ Unreserved' /\ CallsOnce' /\ StoppedUnissued' /\ Reservations'
        /\ OneAttemptPerWorker' /\ AgentKnown'
        BY DEF Numbered, Unreserved, CallsOnce, StoppedUnissued, NeverAuthorized, Reservations,
               Live, Surfaces, OneAttemptPerWorker, AgentKnown
  <1>2. Permits'
    <2>1. x = <<x[1], x[2]>>
          BY ActionPairs
    <2>2. \A w \in Workers : made'[w] \in Attempts => calls[<<made'[w], "create">>] > 0
          BY <2>1 DEF Permits
    <2> QED BY <2>2 DEF Permits
  <1>3. ObservedHappened'
        BY DEF ObservedHappened
  <1>4. ArchiveKept'
    <2> SUFFICES ASSUME NEW a \in Attempts, NEW f \in Archives, <<a, f>> \in done'
                 PROVE  att[a].agent \in archived'
        BY DEF ArchiveKept
    <2>1. CASE <<a, f>> = x
      <3>1. x[1] = a /\ x[2] = f
            BY <2>1
      <3> QED BY <3>1
    <2> QED BY <2>1 DEF ArchiveKept
  <1> QED BY <1>1, <1>2, <1>3, <1>4

LEMMA HostSteps ==
    ASSUME TaskInv,
           \/ \E a \in Attempts, w \in Workers : HostCreate(a, w)
           \/ \E x \in Actions : HostSend(x) \/ HostArchive(x)
    PROVE  TaskInv'
  <1>1. ASSUME NEW a \in Attempts, NEW w \in Workers, HostCreate(a, w)
        PROVE  TaskInv'
    <2>1. <<a, "create">> \in Actions /\ <<a, "create">>[1] = a /\ <<a, "create">>[2] = "create"
          BY ActionPairs, Kinds
    <2>2. /\ calls[<<a, "create">>] > 0 /\ done' = done \cup {<<a, "create">>}
          /\ made' = [made EXCEPT ![w] = a]
          /\ UNCHANGED <<task, brief, owner, ownership, held, att, act, calls, archived>>
          BY <1>1 DEF HostCreate
    <2>3. \/ seat' = [seat EXCEPT ![w] = "minted"] /\ Committed(None, run)
          \/ UNCHANGED <<seat, run, last>>
          BY <1>1 DEF HostCreate
    <2>4. made \in [Workers -> Attempts \cup Leads \cup {None}]
          BY DEF TaskInv, TypeOK
    <2>5. \A v \in Workers : made'[v] = made[v] \/ made'[v] = a
          BY <2>2, <2>4
    <2>6. LedgerInv'
          BY <2>1, <2>2, <2>5, Kinds, PerformedInv
    <2>7. /\ run' \in [Runners -> Runs] /\ last' \in Actions \cup {None} /\ RunsOK' /\ SendsClear'
      <3>1. CASE UNCHANGED <<seat, run, last>>
            BY <2>2, <3>1, RunTypes DEF TaskInv, TypeOK, RunsOK, SendsClear
      <3>2. CASE Committed(None, run)
        <4>1. run' = Repinned(run, None) /\ last' = None
              BY <3>2 DEF Committed
        <4>2. /\ run' \in [Runners -> Runs]
              /\ \A r \in Runners : CallOK(run'[r], att)
              /\ \A r \in Runners : run'[r].pc = "intent" => run'[r].x[2] = "create"
              BY <4>1, RunTypes, RepinnedOK DEF TaskInv, RunsOK
        <4>3. \A b \in Attempts, e \in Effects : <<b, e>> # None
              BY ActionPairs, TaskAssumption
        <4>4. SendsClear'
              BY <4>1, <4>2, <4>3, Kinds DEF SendsClear
        <4> QED BY <2>2, <4>1, <4>2, <4>4 DEF RunsOK
      <3> QED BY <2>3, <3>1, <3>2
    <2>8. seat' \in [Workers -> SeatStates]
          BY <2>3 DEF TaskInv, TypeOK, SeatStates
    <2>9. made' \in [Workers -> Attempts \cup Leads \cup {None}] /\ done' \subseteq Actions
          BY <2>1, <2>2, <2>4 DEF TaskInv, TypeOK
    <2>10. TypeOK'
          BY <2>2, <2>7, <2>8, <2>9 DEF TaskInv, TypeOK, Runs
    <2> QED BY <2>6, <2>7, <2>10 DEF TaskInv
  <1>2. ASSUME NEW x \in Actions, HostSend(x) \/ HostArchive(x)
        PROVE  TaskInv'
    <2>1. /\ calls[x] > 0 /\ done' = done \cup {x} /\ UNCHANGED <<ledger, run, calls, made, seat>>
          /\ \/ x[2] \notin Archives /\ archived' = archived
             \/ x[2] \in Archives /\ archived' = archived \cup {att[x[1]].agent}
          BY <1>2, Kinds DEF HostSend, HostArchive
    <2>2. x[1] \in Attempts /\ x[2] \in Effects /\ x = <<x[1], x[2]>>
          BY ActionPairs
    <2>3. att[x[1]] \in AttemptRows
          BY <2>2 DEF TaskInv, TypeOK
    <2>4. x[2] \in Archives => att[x[1]].agent \in Workers
      <3>1. act[x] # "none"
            BY <2>1 DEF TaskInv, LedgerInv, Permits, Unissued
      <3>2. x[2] \in Archives => att[x[1]].agent # None
            BY <2>2, <3>1 DEF TaskInv, LedgerInv, AgentKnown
      <3> QED BY <2>3, <3>2 DEF AttemptRows
    <2>5. LedgerInv'
          BY <2>1, PerformedInv DEF ledger
    <2>6. archived' \subseteq Workers /\ done' \subseteq Actions
          BY <2>1, <2>4 DEF TaskInv, TypeOK
    <2>7. TypeOK'
          BY <2>1, <2>6 DEF TaskInv, TypeOK, ledger
    <2>8. RunsOK' /\ SendsClear'
          BY <2>1 DEF TaskInv, RunsOK, SendsClear, ledger
    <2> QED BY <2>5, <2>7, <2>8 DEF TaskInv
  <1> QED BY <1>1, <1>2

-----------------------------------------------------------------------------
(* A reservation *)

\* The number of the next attempt is not taken, and those before it are.
LEMMA NextNumber ==
    ASSUME TaskInv, NEW t \in Tasks, NEW n \in 1..MaxAttempts, n = Cardinality(Reserved(t)) + 1
    PROVE  /\ att[<<t, n>>].state = "none"
           /\ \A m \in 1..(n - 1) : att[<<t, m>>].state # "none"
  <1> DEFINE S == Reserved(t)
  <1>1. S \subseteq 1..MaxAttempts /\ MaxAttempts \in Nat
        BY TaskAssumption DEF Reserved
  <1>2. IsFiniteSet(S) /\ Cardinality(S) \in Nat
    <2>1. IsFiniteSet(1..MaxAttempts)
          BY <1>1, FS_Interval
    <2>2. IsFiniteSet(S)
          BY <1>1, <2>1, FS_Subset
    <2> QED BY <2>2, FS_CardinalityType
  <1>3. \A m \in 1..MaxAttempts : m \in S <=> att[<<t, m>>].state # "none"
        BY DEF Reserved
  <1>4. \A k \in 1..MaxAttempts : \A m \in 1..k : k \in S => m \in S
    <2>1. \A k \in 1..MaxAttempts : \A m \in 1..k : m \in 1..MaxAttempts
          BY <1>1
    <2> QED BY <1>3, <2>1 DEF TaskInv, LedgerInv, Numbered
  <1> HIDE DEF S
  <1>5. n \notin S
    <2> SUFFICES ASSUME n \in S PROVE FALSE
        OBVIOUS
    <2>1. 1..n \subseteq S
          BY <1>4
    <2>2. Cardinality(1..n) <= Cardinality(S)
          BY <1>2, <2>1, FS_Subset
    <2>3. Cardinality(1..n) = n
          BY FS_Interval
    <2> QED BY <1>2, <2>2, <2>3 DEF S
  <1>6. ASSUME NEW m \in 1..(n - 1), m \notin S PROVE FALSE
    <2>1. \A k \in S : k \in 1..MaxAttempts /\ ~ m \in 1..k
          BY <1>1, <1>4, <1>6
    <2>2. S \subseteq 1..(m - 1)
          BY <1>1, <1>6, <2>1
    <2>3. IsFiniteSet(1..(m - 1)) /\ Cardinality(1..(m - 1)) = m - 1
      <3>1. 1 \in Int /\ m - 1 \in Int /\ m >= 1
            BY <1>1, <1>6
      <3>2. IsFiniteSet(1..(m - 1))
            /\ Cardinality(1..(m - 1)) = IF 1 > m - 1 THEN 0 ELSE (m - 1) - 1 + 1
            BY <3>1, FS_Interval
      <3> QED BY <3>1, <3>2
    <2>4. Cardinality(S) <= m - 1
          BY <2>2, <2>3, FS_Subset
    <2> QED BY <1>1, <1>2, <1>6, <2>4 DEF S
  <1> QED BY <1>1, <1>3, <1>5, <1>6

NewRow(rev, by, o, placement, w) ==
    [NoAttempt EXCEPT !.state = "reserved", !.rev = rev, !.by = by, !.ownership = o,
                      !.placement = placement, !.reuse = w]

LEMMA ReservedRow ==
    ASSUME NEW rev \in 0..MaxRev, NEW by \in Leads, NEW o \in 0..MaxOwnership,
           NEW placement \in {"shared", "isolated"}, NEW w \in Workers \cup {None}
    PROVE  /\ NewRow(rev, by, o, placement, w) \in AttemptRows
           /\ NewRow(rev, by, o, placement, w).state = "reserved"
           /\ NewRow(rev, by, o, placement, w).rev = rev
           /\ NewRow(rev, by, o, placement, w).reuse = w
           /\ NewRow(rev, by, o, placement, w).agent = None
           /\ NewRow(rev, by, o, placement, w).member = None
  BY TaskAssumption DEF NoAttempt, AttemptRows, NewRow

LEMMA ReserveStep ==
    ASSUME TaskInv, NEW r \in Runners, NEW t \in Tasks, NEW w \in Workers \cup {None},
           NEW placement \in Placements \cup {"shared"}, Reserve(r, t, placement, w),
           NEW n \in 1..MaxAttempts, n = Cardinality(Reserved(t)) + 1
    PROVE  TaskInv'
  <1> DEFINE a == <<t, n>>
             new == NewRow(Len(task[t]), owner, ownership, placement, w)
             c == [pc |-> "issue", x |-> <<a, "place">>, by |-> owner]
             calling == [run EXCEPT ![r] = c]
  <1>1. /\ a \in Attempts /\ Ready(t) /\ ~ Overlaps(t)
        /\ att' = [att EXCEPT ![a] = new] /\ act' = [act EXCEPT ![<<a, "place">>] = "intended"]
        /\ Committed(<<a, "place">>, calling)
        /\ UNCHANGED <<task, brief, owner, ownership, held, host, seat>>
        BY DEF Reserve, NewRow
  <1>3. /\ att[a].state = "none"
        /\ \A m \in 1..(n - 1) : att[<<t, m>>].state # "none"
        BY NextNumber
  <1>4. /\ att \in [Attempts -> AttemptRows] /\ act \in [Actions -> ActionStates]
        /\ task[t] \in Seq(Declarations) /\ Len(task[t]) <= MaxRev
        /\ ownership \in 1..MaxOwnership /\ owner \in Leads
        BY DEF TaskInv, TypeOK
  <1>5. Len(task[t]) \in 1..Len(task[t]) /\ Len(task[t]) \in 0..MaxRev
        BY <1>1, <1>4, TaskAssumption DEF Ready
  <1>6. /\ new \in AttemptRows /\ new.state = "reserved" /\ new.rev = Len(task[t])
        /\ new.reuse = w /\ new.agent = None /\ new.member = None
    <2>1. placement \in {"shared", "isolated"}
          BY TaskAssumption
    <2>2. ownership \in 0..MaxOwnership
          BY <1>4
    <2> QED BY <1>4, <1>5, <2>1, <2>2, ReservedRow
  <1>7. c \in Runs /\ c.pc = "issue" /\ c.x = <<a, "place">>
        BY <1>1, <1>4, ActionPairs, Kinds DEF Runs
  <1> HIDE DEF new, c
  <1>8. /\ att' \in [Attempts -> AttemptRows] /\ att'[a] = new
        /\ \A b \in Attempts \ {a} : att'[b] = att[b]
        BY <1>1, <1>4, <1>6
  <1>9. \A b \in Attempts : att'[b].state # "none" => b = a \/ att[b].state # "none"
        BY <1>8
  <1>10. /\ <<a, "place">> \in Actions /\ act' \in [Actions -> ActionStates]
         /\ act'[<<a, "place">>] = "intended"
         /\ \A x \in Actions \ {<<a, "place">>} : act'[x] = act[x]
    <2>1. <<a, "place">> \in Actions
          BY <1>1, ActionPairs, Kinds
    <2> QED BY <1>1, <1>4, <2>1 DEF ActionStates
  <1>11. \A e \in Effects : act[<<a, e>>] = "none" /\ calls[<<a, e>>] = 0
    <2>1. \A e \in Effects : act[<<a, e>>] = "none"
          BY <1>1, <1>3 DEF TaskInv, LedgerInv, Unreserved
    <2> QED BY <1>1, <2>1, ActionPairs DEF TaskInv, LedgerInv, Permits, Unissued
  <1>12. calls' = calls /\ done' = done /\ made' = made /\ archived' = archived /\ task' = task
        BY <1>1 DEF host
  <1>13. \A b \in Attempts \ {a} : \A e \in Effects : act'[<<b, e>>] = act[<<b, e>>]
        BY <1>10, ActionPairs, Kinds
  <1>14. \A e \in Effects \ {"place"} : act'[<<a, e>>] = "none"
        BY <1>1, <1>10, <1>11, ActionPairs, Kinds
  <1>15. LedgerInv'
    <2> USE DEF TaskInv, LedgerInv
    <2>1. Numbered'
      <3> SUFFICES ASSUME NEW u \in Tasks, NEW k \in 1..MaxAttempts, NEW m \in 1..k,
                          att'[<<u, k>>].state # "none"
                   PROVE  att'[<<u, m>>].state # "none"
          BY DEF Numbered
      <3>1. <<u, k>> \in Attempts /\ <<u, m>> \in Attempts
            BY TaskAssumption DEF Attempts
      <3>2. CASE <<u, k>> = a
        <4>1. u = t /\ k = n /\ (m = n \/ m \in 1..(n - 1))
          <5>1. u = t /\ k = n
                BY <3>2
          <5> QED BY <5>1
        <4> QED BY <1>3, <1>6, <1>8, <3>1, <4>1
      <3>3. CASE <<u, k>> # a
        <4>1. att[<<u, m>>].state # "none"
              BY <1>8, <3>1, <3>3 DEF Numbered
        <4> QED BY <1>6, <1>8, <3>1, <4>1
      <3> QED BY <3>2, <3>3
    <2> HIDE DEF a
    <2>2. Unreserved'
          BY <1>1, <1>6, <1>8, <1>13 DEF Unreserved
    <2>3. Permits' /\ CallsOnce'
          BY <1>10, <1>11, <1>12, Kinds DEF Permits, CallsOnce, Unissued
    <2>4. ObservedHappened'
          BY <1>10, <1>12 DEF ObservedHappened
    <2>5. StoppedUnissued'
      <3> SUFFICES ASSUME NEW b \in Attempts, att'[b].state = "stopped",
                          NEW e \in {"create"} \cup Sends
                   PROVE  act'[<<b, e>>] \in Unissued
          BY DEF StoppedUnissued, NeverAuthorized, Unissued
      <3>1. b # a /\ att[b].state = "stopped" /\ e \in Effects
            BY <1>6, <1>8, Kinds
      <3>2. act[<<b, e>>] \in Unissued
            BY <3>1 DEF StoppedUnissued, NeverAuthorized, Unissued
      <3> QED BY <1>13, <3>1, <3>2
    <2>6. Reservations'
      <3>1. \A b \in Attempts \ {a} : Live(b)' <=> Live(b)
            BY <1>8 DEF Live
      <3>2. \A b \in Attempts \ {a} : Surfaces(b)' = Surfaces(b)
            BY <1>8, <1>12 DEF Surfaces
      <3>3. Surfaces(a)' = Declared(t).surfaces
        <4>1. a[1] = t
              BY DEF a
        <4> QED BY <1>6, <1>8, <1>12, <4>1 DEF Surfaces, Declared
      <3>4. \A b \in Attempts \ {a} : Live(b) =>
               Surfaces(b) \cap Declared(t).surfaces = {}
            BY <1>1 DEF Overlaps
      <3>5. \A b, d \in Attempts : Live(b)' /\ Live(d)' /\ b # d
               => Surfaces(b)' \cap Surfaces(d)' = {}
        <4> SUFFICES ASSUME NEW b \in Attempts, NEW d \in Attempts, Live(b)', Live(d)', b # d
                     PROVE  Surfaces(b)' \cap Surfaces(d)' = {}
            OBVIOUS
        <4>1. CASE b # a /\ d # a
              BY <3>1, <3>2, <4>1 DEF Reservations
        <4>2. CASE b = a
              BY <3>1, <3>2, <3>3, <3>4, <4>2
        <4>3. CASE d = a
              BY <3>1, <3>2, <3>3, <3>4, <4>3
        <4> QED BY <4>1, <4>2, <4>3
      <3>6. \A b \in Attempts : att'[b].state # "none" => att'[b].rev \in 1..Len(task'[b[1]])
        <4>1. a[1] = t
              BY DEF a
        <4> QED BY <1>5, <1>6, <1>8, <1>12, <4>1 DEF Reservations
      <3> QED BY <3>5, <3>6 DEF Reservations
    <2>7. OneAttemptPerWorker'
          BY <1>6, <1>8 DEF OneAttemptPerWorker, Live
    <2>8. AgentKnown'
      <3> SUFFICES ASSUME NEW b \in Attempts
                   PROVE  /\ \A e \in Sends \cup Archives :
                                act'[<<b, e>>] # "none" => att'[b].agent # None
                          /\ act'[<<b, "create">>] # "none" => att'[b].reuse = None
                          /\ att'[b].agent # None /\ att'[b].reuse = None
                                => act'[<<b, "create">>] = "observed"
          BY DEF AgentKnown
      <3>1. CASE b = a
            BY <1>6, <1>8, <1>14, <3>1, Kinds
      <3>2. CASE b # a
            BY <1>8, <1>13, <3>2, Kinds DEF AgentKnown
      <3> QED BY <3>1, <3>2
    <2>9. ArchiveKept'
      <3> SUFFICES ASSUME NEW b \in Attempts, NEW f \in Archives, <<b, f>> \in done
                   PROVE  att'[b].agent \in archived
          BY <1>12 DEF ArchiveKept
      <3>1. <<b, f>> \in Actions /\ f \in Effects
            BY ActionPairs, Kinds
      <3>2. b # a
            BY <1>11, <3>1 DEF Permits
      <3> QED BY <1>8, <3>2 DEF ArchiveKept
    <2> QED BY <2>1, <2>2, <2>3, <2>4, <2>5, <2>6, <2>7, <2>8, <2>9
  <1> HIDE DEF calling
  <1>16. /\ calling \in [Runners -> Runs]
         /\ \A q \in Runners : CallOK(calling[q], att')
    <2>1. \A q \in Runners : CallOK(run[q], att')
      <3> SUFFICES ASSUME NEW q \in Runners, run[q].pc # "idle" PROVE CallOK(run[q], att')
          BY DEF CallOK
      <3>1. run[q].x[1] \in Attempts \ {a}
            BY <1>3, CallKnown
      <3> QED BY <1>8, <3>1 DEF TaskInv, RunsOK, CallOK
    <2>2. CallOK(c, att')
      <3>1. <<a, "place">>[1] = a /\ <<a, "place">>[2] = "place"
            OBVIOUS
      <3> QED BY <1>6, <1>7, <1>8, <1>10, <3>1, Kinds DEF CallOK
    <2> QED BY <1>7, <2>1, <2>2, RunTypes DEF TaskInv, calling
  <1>17. /\ run' \in [Runners -> Runs] /\ last' = <<a, "place">>
         /\ \A q \in Runners : CallOK(run'[q], att')
         /\ \A q \in Runners : run'[q].pc = "intent" => run'[q].x[2] = "create"
    <2>1. run' = Repinned(calling, <<a, "place">>) /\ last' = <<a, "place">>
          BY <1>1 DEF Committed
    <2> QED BY <1>16, <2>1, RepinnedOK
  <1>18. RunsOK'
        BY <1>17 DEF RunsOK
  <1>19. SendsClear'
    <2>1. \A b \in Attempts, e \in Sends : <<b, e>> # <<a, "place">> /\ <<b, e>>[2] # "create"
          BY Kinds
    <2> QED BY <1>17, <2>1 DEF SendsClear
  <1>20. TypeOK'
    <2>1. /\ last' \in Actions \cup {None} /\ calls' \in [Actions -> Nat]
          BY <1>10, <1>12, <1>17 DEF TaskInv, TypeOK
    <2> QED BY <1>1, <1>8, <1>10, <1>12, <1>17, <2>1 DEF TaskInv, TypeOK, Runs
  <1> QED BY <1>15, <1>18, <1>19, <1>20 DEF TaskInv

-----------------------------------------------------------------------------
(* The invariant holds *)

LEMMA InitInv == Init => TaskInv
  <1> SUFFICES ASSUME Init PROVE TaskInv
      OBVIOUS
  <1> USE DEF Init
  <1>1. TypeOK
    <2>1. [t \in Tasks |-> <<>>] \in [Tasks -> Seq(Declarations)]
          /\ \A t \in Tasks : Len([u \in Tasks |-> <<>>][t]) <= MaxRev
          BY TaskAssumption
    <2>2. att \in [Attempts -> AttemptRows] /\ run \in [Runners -> Runs]
          BY NoAttemptRow, NoRunOK
    <2>3. /\ act \in [Actions -> ActionStates] /\ seat \in [Workers -> SeatStates]
          /\ made \in [Workers -> Attempts \cup Leads \cup {None}]
          /\ calls \in [Actions -> Nat]
          BY DEF ActionStates, SeatStates
    <2> QED BY <2>1, <2>2, <2>3, TaskAssumption DEF TypeOK, Runs
  <1>2. /\ \A a \in Attempts : att[a] = NoAttempt /\ ~ Live(a) /\ att[a].state = "none"
        /\ \A a \in Attempts : \A e \in Effects : act[<<a, e>>] = "none"
        BY NoAttemptRow, ActionPairs DEF Live
  <1>3. Numbered
    <2>1. \A t \in Tasks, n \in 1..MaxAttempts : <<t, n>> \in Attempts
          BY AttemptPairs
    <2> QED BY <1>2, <2>1 DEF Numbered
  <1>4. Unreserved /\ CallsOnce /\ ObservedHappened /\ StoppedUnissued
        BY <1>2 DEF Unreserved, CallsOnce, ObservedHappened, StoppedUnissued
  <1>5. Permits
        BY TaskAssumption DEF Permits
  <1>6. Reservations /\ OneAttemptPerWorker
        BY <1>2 DEF Reservations, OneAttemptPerWorker
  <1>7. AgentKnown /\ ArchiveKept
        BY <1>2, NoAttemptRow, Kinds DEF AgentKnown, ArchiveKept
  <1>8. RunsOK
        BY NoRunOK DEF RunsOK
  <1>9. SendsClear
    <2>1. \A r \in Runners : run[r].pc # "intent"
          BY DEF NoRun
    <2>2. \A a \in Attempts, e \in Sends : <<a, e>> # None
          BY ActionPairs, Kinds, TaskAssumption
    <2> QED BY <2>1, <2>2 DEF SendsClear
  <1> QED BY <1>1, <1>3, <1>4, <1>5, <1>6, <1>7, <1>8, <1>9 DEF TaskInv, LedgerInv

LEMMA ToolCallSteps ==
    ASSUME TaskInv, NEW r \in Runners, ToolCall(r)
    PROVE  TaskInv'
  <1>1. ASSUME NEW t \in Tasks, NEW p \in Placements \cup {"shared"},
               NEW w \in Workers \cup {None}, Reserve(r, t, p, w)
        PROVE  TaskInv'
    <2> DEFINE n == Cardinality(Reserved(t)) + 1
    <2>1. <<t, n>> \in Attempts
          BY <1>1 DEF Reserve
    <2> HIDE DEF n
    <2>2. n \in 1..MaxAttempts
          BY <2>1 DEF Attempts
    <2> QED BY <1>1, <2>2, ReserveStep DEF n
  <1>2. ASSUME NEW a \in Attempts, RetryReuse(r, a) PROVE TaskInv'
        BY <1>2, RetryReuseStep
  <1>3. ASSUME NEW a \in Attempts, NEW e \in Sends \cup Archives, Start(r, a, e) PROVE TaskInv'
        BY <1>3, StartStep
  <1> QED BY <1>1, <1>2, <1>3, IntendStep, IssueStep, ObserveStep, BindStep, EndSteps DEF ToolCall

LEMMA NextInv ==
    ASSUME TaskInv, [Next]_vars
    PROVE  TaskInv'
  <1>1. CASE OwnerCommand
    <2>1. ASSUME NEW a \in Attempts,
                 \/ Stop(a) \/ Discharge(a)
                 \/ \E targets \in SUBSET Targets(a) :
                       \E positive \in SUBSET targets : Reconcile(a, targets, positive)
          PROVE  TaskInv'
          BY <2>1, StopStep, DischargeStep, ReconcileStep
    <2> QED BY <1>1, <2>1, OwnerSteps DEF OwnerCommand
  <1>2. CASE \E r \in Runners : ToolCall(r)
        BY <1>2, ToolCallSteps
  <1>3. CASE Host
    <2>1. ASSUME NEW a \in Attempts, NEW e \in Sends, TurnEnded(a, e) PROVE TaskInv'
          BY <2>1, TurnEndedStep
    <2>2. ASSUME NEW w \in Workers, Confirm(w) \/ Register(w) \/ Revoke(w) PROVE TaskInv'
          BY <2>2, SeatSteps
    <2> QED BY <1>3, <2>1, <2>2, HostSteps DEF Host
  <1>4. CASE UNCHANGED vars
    <2>1. LedgerInv'
      <3>1. Advances
            BY <1>4 DEF TaskInv, TypeOK, Advances, Keeps, Grows, vars, ledger, host
      <3> QED BY <3>1, AdvancesInv DEF TaskInv
    <2>2. TypeOK'
          BY <1>4 DEF TaskInv, TypeOK, vars, ledger, host
    <2>3. RunsOK' /\ SendsClear'
          BY <1>4 DEF TaskInv, RunsOK, SendsClear, vars, ledger
    <2> QED BY <2>1, <2>2, <2>3 DEF TaskInv
  <1> QED BY <1>1, <1>2, <1>3, <1>4 DEF Next

(***************************************************************************)
(* Everything the argument needs holds in every state: the rows and their  *)
(* actions agree, permits are used once, reservations are disjoint.        *)
(***************************************************************************)
THEOREM Bookkeeping == Spec => []TaskInv
  BY InitInv, NextInv, PTL DEF Spec

(***************************************************************************)
(* The host is called at most once for each effect (runTaskEffect          *)
(* "issue").                                                               *)
(***************************************************************************)
THEOREM EachEffectOnce == Spec => []CallsOnce
  <1>1. TaskInv => CallsOnce
        BY DEF TaskInv, LedgerInv
  <1> QED BY Bookkeeping, <1>1, PTL

(***************************************************************************)
(* What the ledger observed was performed (task.effect.observe,            *)
(* task.reconcile).                                                        *)
(***************************************************************************)
THEOREM PositiveEvidenceOnly == Spec => []ObservedHappened
  <1>1. TaskInv => ObservedHappened
        BY DEF TaskInv, LedgerInv
  <1> QED BY Bookkeeping, <1>1, PTL

(***************************************************************************)
(* A worker serves one live attempt (decideDeskTask "task.effect.bind").   *)
(***************************************************************************)
THEOREM WorkerServesOne == Spec => []OneAttemptPerWorker
  <1>1. TaskInv => OneAttemptPerWorker
        BY DEF TaskInv, LedgerInv
  <1> QED BY Bookkeeping, <1>1, PTL

\* An authorized attempt is live: it is reserved, and it was not stopped
\* before, since a ruling takes only what was never authorized.
LEMMA AuthorizedIsLive ==
    ASSUME TaskInv, NEW a \in Attempts, Authorized(a)
    PROVE  Live(a) /\ ~ NeverAuthorized(a)
  <1> USE DEF TaskInv, LedgerInv
  <1>1. PICK e \in {"create"} \cup Sends : calls[<<a, e>>] > 0
        BY DEF Authorized
  <1>2. <<a, e>> \in Actions /\ e \in Effects
        BY <1>1, ActionPairs, Kinds
  <1>3. act[<<a, e>>] \notin Unissued
        BY <1>1, <1>2 DEF Permits
  <1>4. att[a].state # "none"
        BY <1>2, <1>3 DEF Unreserved, Unissued
  <1>5. ~ NeverAuthorized(a)
        BY <1>1, <1>3 DEF NeverAuthorized, Unissued
  <1> QED BY <1>4, <1>5 DEF StoppedUnissued, Live

(***************************************************************************)
(* Attempts that were ever allowed a worker own disjoint surfaces          *)
(* (task.reserve, task.reconcile).                                         *)
(***************************************************************************)
THEOREM DisjointWriters == Spec => []OneWriter
  <1>1. TaskInv => OneWriter
        BY AuthorizedIsLive DEF TaskInv, LedgerInv, Reservations, OneWriter
  <1> QED BY Bookkeeping, <1>1, PTL

(***************************************************************************)
(* An attempt that is ruled stopped never had a worker (terminal attempt   *)
(* rulings of task.reconcile).                                             *)
(***************************************************************************)
THEOREM StoppedIsClean == Spec => []StoppedNeverWorked
  <1>1. TaskInv => StoppedNeverWorked
    <2> SUFFICES ASSUME TaskInv, NEW a \in Attempts, att[a].state = "stopped"
                 PROVE  ~ Authorized(a) /\ ~ \E w \in Workers : made[w] = a
        BY DEF StoppedNeverWorked
    <2>1. ~ Authorized(a)
          BY AuthorizedIsLive DEF Live
    <2>2. ~ \E w \in Workers : made[w] = a
          BY <2>1 DEF TaskInv, LedgerInv, Permits, Authorized
    <2> QED BY <2>1, <2>2
  <1> QED BY Bookkeeping, <1>1, PTL

\* Only an issue calls the host.
LEMMA OnlyIssuesCall ==
    ASSUME TaskInv, Next, NEW a \in Attempts, NEW e \in Effects, calls'[<<a, e>>] > calls[<<a, e>>]
    PROVE  \E r \in Runners : Issue(r) /\ run[r].x = <<a, e>>
  <1>1. <<a, e>> \in Actions
        BY ActionPairs
  <1>2. calls \in [Actions -> Nat]
        BY DEF TaskInv, TypeOK
  <1>3. calls' # calls
        BY <1>1, <1>2
  <1>4. PICK r \in Runners : Issue(r)
    <2>1. ~ OwnerCommand
          BY <1>3 DEF OwnerCommand, Declare, Rebrief, Succeed, Hold, Rule, Stop, Discharge,
                      Reconcile, host
    <2>2. ~ Host
          BY <1>3 DEF Host, HostCreate, HostSend, HostArchive, TurnEnded, Confirm, Register,
                      Revoke, host
    <2>3. \A r \in Runners : ToolCall(r) => Issue(r)
          BY <1>3 DEF ToolCall, Reserve, RetryReuse, Start, Intend, NotPermitted, Observe, Bind,
                      End, host
    <2> QED BY <2>1, <2>2, <2>3 DEF Next
  <1>5. calls' = [calls EXCEPT ![run[r].x] = @ + 1]
        BY <1>4 DEF Issue
  <1> QED BY <1>1, <1>2, <1>4, <1>5

(***************************************************************************)
(* No work is started after a stop or an observed archive (task.stop,      *)
(* attemptEffectGate, dispatchSend).                                       *)
(***************************************************************************)
THEOREM NothingAfterTheEnd == Spec => NoWorkAfterTheEnd
  <1> DEFINE Ended == \A a \in Attempts, e \in Effects :
                calls'[<<a, e>>] > calls[<<a, e>>] =>
                   /\ att[a].stop => Kind(e) = "archive"
                   /\ e \in Sends => \A f \in Archives : act[<<a, f>>] # "observed"
  <1>1. TaskInv /\ [Next]_vars => [Ended]_vars
    <2> SUFFICES ASSUME TaskInv, Next, NEW a \in Attempts, NEW e \in Effects,
                        calls'[<<a, e>>] > calls[<<a, e>>]
                 PROVE  /\ att[a].stop => Kind(e) = "archive"
                        /\ e \in Sends => \A f \in Archives : act[<<a, f>>] # "observed"
        OBVIOUS
    <2>1. PICK r \in Runners : Issue(r) /\ run[r].x = <<a, e>>
          BY OnlyIssuesCall
    <2>2. Admissible(<<a, e>>)
          BY <2>1 DEF Issue
    <2>3. <<a, e>>[1] = a /\ <<a, e>>[2] = e
          OBVIOUS
    <2>4. last = <<a, e>> /\ (Kind(e) # "archive" => Gate(a, att[a], act, Kind(e)))
          BY <2>2, <2>3 DEF Admissible
    <2>5. att[a].stop => Kind(e) = "archive"
          BY <2>4 DEF Gate
    <2>6. e \in Sends => \A f \in Archives : act[<<a, f>>] # "observed"
          BY <2>4 DEF TaskInv, SendsClear
    <2> QED BY <2>5, <2>6
  <1>2. Spec => [][Ended]_vars
        BY Bookkeeping, <1>1, PTL DEF Spec
  <1> QED BY <1>2 DEF NoWorkAfterTheEnd
=============================================================================
