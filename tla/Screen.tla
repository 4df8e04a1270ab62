------------------------------- MODULE Screen -------------------------------
(***************************************************************************)
(* The management screen of ManagerSurface.tsx and the manager behind it:  *)
(* an administrator visits targets (daemon homes), starts operations whose *)
(* replies may be late or lost, reads their status and polls them.         *)
(*                                                                         *)
(* store[t] is the view kept for the target t, view what is painted.  A    *)
(* start invocation or a read carries a ticket of the visit it was made    *)
(* in (live), a read also whether it is the latest issued (last): numbers  *)
(* that only grow are kept as these two flags.  Continuations of one       *)
(* answer run to their end: an action is an answer with all it does.       *)
(***************************************************************************)
EXTENDS Naturals, FiniteSets

CONSTANTS
    Targets,      \* daemon homes the screen can show
    Managed,      \* those for which the administrator confirms the mapping
    First,        \* the one it opens with
    Operations,   \* operation ids it makes, numbered
    Refusable,    \* operations the manager may find invalid
    MaxVisits,    \* switches of the target
    MaxReads,     \* reads on their way when a poll or a reload starts one
    MaxRestarts,  \* restarts of the manager's process
    Unset

ASSUME ScreenAssumption == First \in Targets /\ Unset \notin Targets \cup Operations

VARIABLES
    shown, visits, store, view, fresh,
    requests,     \* target -> the operation whose start is not resolved
    applying,     \* Unset, "saving" or "reading": saveAndApplyProfiles
    runs,         \* start invocations: [op, live, reply]
    late,         \* operations of which a copy may still reach the manager
    reads,        \* status reads: [at, op, kind, live, last, answer]
    homeOf,       \* operation -> the target it was made for, Unset before
    journal,      \* operation -> "absent", "pending", "done"
    deadBoot,     \* pending operations whose worker's process is gone
    answered      \* operations whose fate the screen has been told

clientVars == <<shown, visits, store, view, fresh, requests, applying, answered>>
wireVars == <<runs, late, reads>>
managerVars == <<homeOf, journal, deadBoot>>
screenVars == <<clientVars, wireVars, managerVars>>

Reply == {"rejected", "pending", "done"}
NoStatus == [pending |-> FALSE, visit |-> FALSE]
EmptyView == [busy |-> FALSE, pending |-> Unset, status |-> NoStatus]
Tracked(o) == [op |-> o, uncertain |-> FALSE, retry |-> FALSE]
PendingOp(v) == IF v.pending = Unset THEN Unset ELSE v.pending.op

(***************************************************************************)
(* Views: applyPatch and update.                                           *)
(***************************************************************************)
Patched(t, v) == store' = [store EXCEPT ![t] = v]
\* A patch merges into its target's own view, and is painted only while that
\* target is on screen.
Update(t, v) == /\ Patched(t, v)
                /\ view' = IF t = shown THEN v ELSE view

(***************************************************************************)
(* Reads: refresh.                                                         *)
(***************************************************************************)
\* A read supersedes every other; R are the reads it finds.  Of the
\* superseded ones the first stays on its way, and one that a save waits for.
Issued(R, t, o, kind) ==
    {[r EXCEPT !.last = FALSE] : r \in {r \in R : \/ ~r.last \/ r.kind = "apply"
                                                \/ \A q \in R : q.last}}
    \cup {[at |-> t, op |-> o, kind |-> kind, live |-> TRUE, last |-> TRUE, answer |-> Unset]}

\* The reload button and the poll of the tracked operation.
Reload ==
    /\ Cardinality(reads) < MaxReads
    /\ reads' = Issued(reads, shown, PendingOp(view), "user") /\ fresh' = FALSE
    /\ Update(shown, store[shown])
    /\ UNCHANGED <<shown, visits, requests, applying, answered, runs, late, managerVars>>
PollTick ==
    /\ view.pending # Unset
    /\ ~\E r \in reads : r.kind = "poll" /\ r.live /\ r.op = view.pending.op
    /\ Cardinality(reads) < MaxReads
    /\ reads' = Issued(reads, shown, view.pending.op, "poll") /\ fresh' = FALSE
    /\ Update(shown, store[shown])
    /\ UNCHANGED <<shown, visits, requests, applying, answered, runs, late, managerVars>>

\* The manager answers: the operation asked for, or the active one.
RunningAt(t) == {o \in Operations : homeOf[o] = t /\ journal[o] = "pending"}
StatusOf(r) ==
    IF r.op # Unset THEN journal[r.op]
    ELSE IF RunningAt(r.at) # {} THEN "pending" ELSE "done"
StatusRead(r) ==
    /\ r \in reads /\ r.answer = Unset
    /\ reads' = (reads \ {r}) \cup {[r EXCEPT !.answer = StatusOf(r)]}
    /\ UNCHANGED <<clientVars, runs, late, managerVars>>

\* The effect of the chosen target: the kept view is painted, the acknowledged
\* window and a save in progress are dropped, and a read starts.
Switch(t) ==
    /\ t # shown /\ visits < MaxVisits
    /\ shown' = t /\ visits' = visits + 1
    /\ view' = store[t] /\ applying' = Unset /\ fresh' = FALSE
    /\ runs' = {[r EXCEPT !.live = FALSE] : r \in runs}
    /\ reads' = Issued({[r EXCEPT !.live = FALSE] : r \in reads}, t, PendingOp(store[t]), "user")
    /\ store' = [u \in Targets |-> [store[u] EXCEPT !.status.visit = FALSE]]
    /\ UNCHANGED <<requests, answered, late, managerVars>>

\* An ended operation leaves the busy flag to the reply of its start.
ObservedBusy(v, r) ==
    LET status == [pending |-> r.answer = "pending", visit |-> r.live]
        exact == r.op # Unset /\ v.pending # Unset /\ v.pending.op = r.op
    IN CASE exact /\ r.answer = "done" -> [v EXCEPT !.pending = Unset, !.status = status]
         [] exact /\ r.answer # "done" /\ v.pending.uncertain ->
              [v EXCEPT !.status = status, !.pending.retry = (r.answer = "absent")]
         [] OTHER -> [v EXCEPT !.status = status]
\* What a status does to the view kept for its target: an exact terminal read
\* ends the tracking, an explicit absence permits a retry of the same request.
Observed(v, r) ==
    LET status == [pending |-> r.answer = "pending", visit |-> r.live]
        exact == r.op # Unset /\ v.pending # Unset /\ v.pending.op = r.op
    IN CASE exact /\ r.answer = "done" ->
              [busy |-> v.busy /\ requests[r.at] # r.op, pending |-> Unset, status |-> status]
         [] exact /\ r.answer # "done" /\ v.pending.uncertain ->
              [v EXCEPT !.status = status, !.pending.retry = (r.answer = "absent")]
         [] OTHER -> [v EXCEPT !.status = status]
Retires(r) == /\ r.op # Unset /\ PendingOp(store[r.at]) = r.op /\ r.answer = "done"
              /\ requests[r.at] = r.op

(***************************************************************************)
(* Starts: runOperation.                                                   *)
(***************************************************************************)
\* What the store and the unresolved requests allow, whatever is painted.
Startable(t, v) == ~v.busy /\ v.pending = Unset /\ requests[t] = Unset
Sent(o) == [op |-> o, live |-> TRUE, reply |-> Unset]
Starting(v, o) == [v EXCEPT !.busy = TRUE, !.pending = Tracked(o)]
\* Ids are made one after the other.
NewOperation(o) == homeOf[o] = Unset /\ \A p \in Operations : p < o => homeOf[p] # Unset

\* canMutate, with the administrator's acknowledgments given.
CanMutate == /\ shown \in Managed /\ fresh /\ ~view.status.pending /\ ~view.busy /\ view.pending = Unset
             /\ applying = Unset
StartOperation(o) ==
    /\ NewOperation(o) /\ CanMutate /\ Startable(shown, store[shown])
    /\ requests' = [requests EXCEPT ![shown] = o]
    /\ Update(shown, Starting(store[shown], o))
    /\ homeOf' = [homeOf EXCEPT ![o] = shown] /\ runs' = runs \cup {Sent(o)}
    /\ UNCHANGED <<shown, visits, fresh, applying, answered, late, reads, journal, deadBoot>>
RetryOriginal ==
    /\ fresh /\ ~view.status.pending /\ ~view.busy /\ applying = Unset
    /\ view.pending # Unset /\ view.pending.retry
    /\ LET o == view.pending.op IN
       /\ requests[shown] = o
       /\ ~store[shown].busy /\ store[shown].pending = view.pending
       /\ Update(shown, Starting(store[shown], o))
       /\ runs' = runs \cup {Sent(o)}
    /\ UNCHANGED <<shown, visits, fresh, requests, applying, answered, late, reads, managerVars>>

\* saveAndApplyProfiles: the profiles are saved, the status is read again, and
\* only an unchanged and quiet target is activated.
SaveAndApply ==
    /\ CanMutate /\ applying' = "saving"
    /\ UNCHANGED <<shown, visits, store, view, fresh, requests, answered, wireVars, managerVars>>
ProfilesSaved(ok) ==
    /\ applying = "saving"
    /\ IF ok THEN /\ applying' = "reading" /\ fresh' = FALSE
                  /\ reads' = Issued(reads, shown, Unset, "apply")
                  /\ Update(shown, store[shown])
       ELSE applying' = Unset /\ UNCHANGED <<fresh, reads, store, view>>
    /\ UNCHANGED <<shown, visits, requests, answered, runs, late, managerVars>>

\* A read's ticket is good while its visit lasts and no later read was issued.
Current(r) == r.live /\ r.last

Ends(r) == r.kind = "apply" /\ r.live
StatusArrives(r) ==
    /\ r \in reads /\ r.answer # Unset /\ Current(r)
    /\ fresh' = TRUE
    /\ answered' = IF r.op # Unset /\ r.answer = "done" THEN answered \cup {r.op} ELSE answered
    /\ applying' = IF Ends(r) THEN Unset ELSE applying
    /\ \/ /\ Update(r.at, Observed(store[r.at], r))
          /\ requests' = IF Retires(r) THEN [requests EXCEPT ![r.at] = Unset] ELSE requests
          /\ Ends(r) => r.answer = "pending" \/ ~Startable(r.at, store[r.at]) \/ ~\E o \in Operations : NewOperation(o)
          /\ UNCHANGED <<runs, homeOf>>
       \/ \E o \in Operations :
          /\ Ends(r) /\ NewOperation(o) /\ r.answer # "pending" /\ Startable(r.at, store[r.at])
          /\ requests' = [requests EXCEPT ![r.at] = o]
          /\ Update(r.at, Starting(Observed(store[r.at], r), o))
          /\ homeOf' = [homeOf EXCEPT ![o] = r.at] /\ runs' = runs \cup {Sent(o)}
    /\ reads' = reads \ {r}
    /\ UNCHANGED <<shown, visits, late, journal, deadBoot>>
\* The read fails or is no longer wanted: nothing is painted.
StatusDropped(r) ==
    /\ r \in reads
    /\ reads' = reads \ {r}
    /\ applying' = IF Ends(r) THEN Unset ELSE applying
    /\ UNCHANGED <<shown, visits, store, view, fresh, requests, answered, runs, late, managerVars>>

\* A reply to a start that was resolved otherwise is not looked at.
StillAsked(i) == requests[homeOf[i.op]] = i.op
Replied(v, i) == [v EXCEPT !.busy = FALSE,
                           !.pending = IF i.reply = "pending" THEN Tracked(i.op) ELSE Unset]
StartReplies(i) ==
    /\ i \in runs /\ i.reply # Unset
    /\ runs' = runs \ {i}
    /\ LET t == homeOf[i.op] IN
       IF ~StillAsked(i) THEN UNCHANGED <<store, view, fresh, requests, answered, reads>>
       ELSE /\ requests' = [requests EXCEPT ![t] = Unset]
            /\ answered' = answered \cup {i.op}
            /\ IF i.live THEN /\ Update(t, Replied(store[t], i)) /\ fresh' = FALSE
                              /\ reads' = Issued(reads, t, IF i.reply = "rejected" THEN Unset ELSE i.op, "user")
               ELSE Patched(t, Replied(store[t], i)) /\ UNCHANGED <<view, fresh, reads>>
    /\ UNCHANGED <<shown, visits, applying, late, managerVars>>

Unconfirmed(v, i) == [v EXCEPT !.busy = FALSE, !.pending = [Tracked(i.op) EXCEPT !.uncertain = TRUE]]
Abandoned(i) == late' = IF i.reply = Unset THEN late \cup {i.op} ELSE late
\* A failed start is taken for one that never happened.
StartForgets(i) ==
    /\ i \in runs /\ runs' = runs \ {i} /\ Abandoned(i)
    /\ LET t == homeOf[i.op] IN
       IF ~StillAsked(i) THEN UNCHANGED <<store, view, fresh, requests, reads>>
       ELSE /\ requests' = [requests EXCEPT ![t] = Unset]
            /\ Update(t, [store[t] EXCEPT !.busy = FALSE, !.pending = Unset])
            /\ UNCHANGED <<fresh, reads>>
    /\ UNCHANGED <<shown, visits, applying, answered, managerVars>>
\* The call fails or expires: says nothing about acceptance.  The id stays
\* tracked as unconfirmed and is probed.
StartFails(i) ==
    /\ i \in runs /\ runs' = runs \ {i} /\ Abandoned(i)
    /\ LET t == homeOf[i.op] IN
       IF ~StillAsked(i) THEN UNCHANGED <<store, view, fresh, reads>>
       ELSE IF i.live
         THEN /\ Update(t, Unconfirmed(store[t], i)) /\ fresh' = FALSE
              /\ reads' = Issued(reads, t, i.op, "user")
         ELSE /\ Patched(t, IF PendingOp(store[t]) \in {Unset, i.op} THEN Unconfirmed(store[t], i) ELSE store[t])
              /\ UNCHANGED <<view, fresh, reads>>
    /\ UNCHANGED <<shown, visits, requests, applying, answered, managerVars>>

(***************************************************************************)
(* The manager: admission, the end of an operation, a restart.             *)
(***************************************************************************)
\* A repeated id is answered from the journal, a new one needs a quiet target.
Admission(o, ok) ==
    IF journal[o] # "absent" THEN journal[o]
    ELSE IF ok /\ RunningAt(homeOf[o]) = {} THEN "pending" ELSE "rejected"
Journaled(o, reply) == journal' = IF reply = "rejected" THEN journal ELSE [journal EXCEPT ![o] = reply]
StartArrives(i, ok) ==
    /\ i \in runs /\ i.reply = Unset /\ (~ok => i.op \in Refusable)
    /\ LET reply == Admission(i.op, ok) IN
       /\ Journaled(i.op, reply)
       /\ runs' = (runs \ {i}) \cup {[i EXCEPT !.reply = reply]}
    /\ UNCHANGED <<clientVars, late, reads, homeOf, deadBoot>>
LateArrives(o) ==
    /\ o \in late /\ late' = late \ {o}
    /\ Journaled(o, Admission(o, TRUE))
    /\ UNCHANGED <<clientVars, runs, reads, homeOf, deadBoot>>
OperationEnds(o) ==
    /\ journal[o] = "pending" /\ o \notin deadBoot
    /\ journal' = [journal EXCEPT ![o] = "done"]
    /\ UNCHANGED <<clientVars, wireVars, homeOf, deadBoot>>
\* A pending operation of another boot is interrupted; it stays pending in the
\* journal until a reconcile names it.
ManagerRestarts ==
    /\ Cardinality(deadBoot) < MaxRestarts
    /\ \E o \in Operations : /\ journal[o] = "pending" /\ o \notin deadBoot
                             /\ deadBoot' = deadBoot \cup {o}
    /\ UNCHANGED <<clientVars, wireVars, homeOf, journal>>

\* The screen opens and reads the status of its first target.
ScreenInit ==
    /\ shown = First /\ visits = 0
    /\ store = [t \in Targets |-> EmptyView] /\ view = EmptyView /\ fresh = FALSE
    /\ requests = [t \in Targets |-> Unset] /\ applying = Unset
    /\ runs = {} /\ late = {} /\ reads = Issued({}, shown, Unset, "user")
    /\ homeOf = [o \in Operations |-> Unset] /\ journal = [o \in Operations |-> "absent"]
    /\ deadBoot = {} /\ answered = {}

ScreenNext ==
    \/ Reload \/ PollTick \/ RetryOriginal \/ SaveAndApply \/ ManagerRestarts
    \/ \E t \in Targets : Switch(t)
    \/ \E o \in Operations : StartOperation(o) \/ OperationEnds(o)
    \/ \E r \in reads : StatusRead(r) \/ StatusArrives(r) \/ StatusDropped(r)
    \/ \E i \in runs : StartReplies(i) \/ StartFails(i)
    \/ \E ok \in BOOLEAN :
        \/ ProfilesSaved(ok)
        \/ \E i \in runs : StartArrives(i, ok)
    \/ \E o \in late : LateArrives(o)

\* Timers fire, calls end with an answer or an error, the manager's workers
\* finish; and reads that are repeated for ever do not fail for ever.
ScreenFairness ==
    /\ WF_screenVars(PollTick)
    /\ WF_screenVars(\E r \in reads : StatusRead(r) \/ StatusArrives(r) \/ StatusDropped(r))
    /\ WF_screenVars(\E i \in runs : StartReplies(i) \/ StartFails(i))
    /\ WF_screenVars(\E o \in Operations : OperationEnds(o))
    /\ WF_screenVars(\E ok \in BOOLEAN : ProfilesSaved(ok))
    /\ SF_screenVars(\E r \in reads : r.live /\ r.last /\ StatusRead(r))
    /\ SF_screenVars(\E r \in reads : r.live /\ r.last /\ StatusArrives(r))

ScreenSpec == ScreenInit /\ [][ScreenNext]_screenVars /\ ScreenFairness

(***************************************************************************)
(* Properties.                                                             *)
(***************************************************************************)
\* "an empty status read cannot authorize a replacement request"
\* (ManagerSurface.tsx:405): the screen makes a new operation for a target
\* only when it was told the fate of every earlier one it made for it, by the
\* reply to its start or by a status that names it as ended, through late
\* replies, lost replies, retries and changes of the target; and the status it
\* starts from was asked for in this visit of the target
\* (target-async.ts:19).
ToldBefore ==
    \A o \in Operations : homeOf[o] = Unset /\ homeOf'[o] # Unset =>
        /\ \A p \in Operations : homeOf[p] = homeOf'[o] => p \in answered
        /\ view'.status.visit
NoBlindReplacement == [][ToldBefore]_screenVars

\* The screen lets go: what is painted does not stay busy for ever after its
\* start ended in another visit, and an operation that ended is not tracked
\* for ever.
ScreenUnblocks ==
    []<>(~view.busy /\ (view.pending # Unset => journal[view.pending.op] # "done"))

=============================================================================
