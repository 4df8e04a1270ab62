---------------------------- MODULE ManagerProofs ----------------------------
(***************************************************************************)
(* Proofs about module Manager, for any number of operations, boots,       *)
(* faults and edits, any providers and any preferences; and about Screen,  *)
(* the screen of its administrator, for any number of targets, operations, *)
(* visits, reads and restarts of the manager.                              *)
(***************************************************************************)
EXTENDS Manager, Screen, TLAPS

-----------------------------------------------------------------------------
(* Chains *)

\* The operations of which `of' names an earlier one.
Backward(o) == \A i \in DOMAIN o : o[i].of \in 0..(i - 1)

\* A set that holds what each of its members recovers.
ClosedUnder(o, S) == \A k \in S : o[k].of # 0 => o[k].of \in S

\* An operation is in its own chain.
LEMMA ChainSelf ==
    ASSUME NEW o, NEW i \in DOMAIN o
    PROVE  i \in Chain(o, i)
  BY DEF Chain

\* Everything in a chain is in every closed set that holds its first link.
LEMMA ChainWithin ==
    ASSUME NEW o, NEW i, NEW S \in SUBSET DOMAIN o, i \in S, ClosedUnder(o, S)
    PROVE  Chain(o, i) \subseteq S
  BY DEF Chain, ClosedUnder

\* A chain is made of operations of the journal.
LEMMA ChainDomain == ASSUME NEW o, NEW i PROVE Chain(o, i) \subseteq DOMAIN o
  BY DEF Chain

\* A chain is closed.
LEMMA ChainClosed ==
    ASSUME NEW o, NEW i \in DOMAIN o,
           \A k \in DOMAIN o : o[k].of # 0 => o[k].of \in DOMAIN o
    PROVE  ClosedUnder(o, Chain(o, i))
  <1> SUFFICES ASSUME NEW k \in Chain(o, i), o[k].of # 0
               PROVE  o[k].of \in Chain(o, i)
    BY DEF ClosedUnder
  <1>1. k \in DOMAIN o /\ o[k].of \in DOMAIN o
    BY ChainDomain
  <1> QED BY <1>1 DEF Chain

\* The chain of a link is part of the chain.
LEMMA ChainNested ==
    ASSUME NEW o, NEW i \in DOMAIN o, NEW j \in Chain(o, i),
           \A k \in DOMAIN o : o[k].of # 0 => o[k].of \in DOMAIN o
    PROVE  Chain(o, j) \subseteq Chain(o, i)
  BY ChainClosed, ChainWithin, ChainDomain

\* The chain of a recovery is itself and the chain of what it recovers.
LEMMA ChainStep ==
    ASSUME NEW o, NEW i \in DOMAIN o,
           \A k \in DOMAIN o : o[k].of # 0 => o[k].of \in DOMAIN o
    PROVE  Chain(o, i) = {i} \cup (IF o[i].of = 0 THEN {} ELSE Chain(o, o[i].of))
  <1> DEFINE S == {i} \cup (IF o[i].of = 0 THEN {} ELSE Chain(o, o[i].of))
  <1>1. S \in SUBSET DOMAIN o
    BY ChainDomain
  <1>2. ClosedUnder(o, S)
    <2>1. CASE o[i].of = 0
      BY <2>1 DEF ClosedUnder
    <2>2. CASE o[i].of # 0
      <3>1. o[i].of \in DOMAIN o /\ o[i].of \in Chain(o, o[i].of)
        BY <2>2, ChainSelf
      <3>2. ClosedUnder(o, Chain(o, o[i].of))
        BY <3>1, ChainClosed
      <3> QED BY <2>2, <3>1, <3>2 DEF ClosedUnder
    <2> QED BY <2>1, <2>2
  <1>3. Chain(o, i) \subseteq S
    <2> HIDE DEF S
    <2>1. i \in S
      BY DEF S
    <2> QED BY <1>1, <1>2, <2>1, ChainWithin
  <1>4. S \subseteq Chain(o, i)
    <2>1. i \in Chain(o, i)
      BY ChainSelf
    <2>2. ASSUME o[i].of # 0 PROVE Chain(o, o[i].of) \subseteq Chain(o, i)
      <3>1. o[i].of \in Chain(o, i)
        BY <2>1, <2>2, ChainClosed DEF ClosedUnder
      <3> QED BY <3>1, ChainNested
    <2> QED BY <2>1, <2>2
  <1> QED BY <1>3, <1>4

\* Chains depend on `of' alone.
LEMMA ChainSame ==
    ASSUME NEW o, NEW p, NEW i, DOMAIN p = DOMAIN o,
           \A k \in DOMAIN o : p[k].of = o[k].of
    PROVE  Chain(p, i) = Chain(o, i)
  <1>1. \A S \in SUBSET DOMAIN o : ClosedUnder(p, S) <=> ClosedUnder(o, S)
    BY DEF ClosedUnder
  <1>2. \A j : j \in Chain(p, i) <=> /\ j \in DOMAIN o
                                     /\ \A S \in SUBSET DOMAIN o :
                                           i \in S /\ ClosedUnder(p, S) => j \in S
    BY DEF Chain, ClosedUnder
  <1>3. \A j : j \in Chain(o, i) <=> /\ j \in DOMAIN o
                                     /\ \A S \in SUBSET DOMAIN o :
                                           i \in S /\ ClosedUnder(o, S) => j \in S
    BY DEF Chain, ClosedUnder
  <1> QED BY <1>1, <1>2, <1>3

\* A new operation changes no chain of the old ones.
LEMMA ChainOld ==
    ASSUME NEW o, NEW p, NEW i \in DOMAIN o, DOMAIN o \subseteq DOMAIN p,
           \A k \in DOMAIN o : p[k].of = o[k].of,
           \A k \in DOMAIN o : o[k].of # 0 => o[k].of \in DOMAIN o
    PROVE  Chain(p, i) = Chain(o, i)
  <1>1. Chain(p, i) \subseteq Chain(o, i)
    <2>1. Chain(o, i) \in SUBSET DOMAIN p /\ i \in Chain(o, i)
      BY ChainDomain, ChainSelf
    <2>2. ClosedUnder(o, Chain(o, i))
      BY ChainClosed
    <2>3. ClosedUnder(p, Chain(o, i))
      BY <2>2, ChainDomain DEF ClosedUnder
    <2> QED BY <2>1, <2>3, ChainWithin
  <1>2. ASSUME NEW j \in Chain(o, i) PROVE j \in Chain(p, i)
    <2>1. j \in DOMAIN p
      BY ChainDomain
    <2>2. ASSUME NEW S \in SUBSET DOMAIN p, i \in S, ClosedUnder(p, S) PROVE j \in S
      <3> DEFINE T == S \cap DOMAIN o
      <3>1. T \in SUBSET DOMAIN o /\ i \in T
        BY <2>2
      <3>2. ClosedUnder(o, T)
        BY <2>2 DEF ClosedUnder
      <3>3. Chain(o, i) \subseteq T
        <4> HIDE DEF T
        <4> QED BY <3>1, <3>2, ChainWithin
      <3> QED BY <3>3
    <2> QED BY <2>1, <2>2 DEF Chain, ClosedUnder
  <1> QED BY <1>1, <1>2

-----------------------------------------------------------------------------
(* The invariant *)

Open == {"pending", "recovery-required"}
SentAttempts == {"pending", "outcome-unknown"}

\* Refined, for one operation: what its phase and its end say of its plan.
OpRefined(op) ==
    /\ op.phase \in {"prepared", "patch-dispatched", "verified"} => op.plan # NoPlan
    /\ \/ op.phase # "terminal"
       \/ op.kind = "inspect"
       \/ op.outcome \notin {"succeeded", "recovery-required"}
       \/ op.plan # NoPlan

\* What an operation says of itself.
OpOK(op) ==
    /\ op \in Intents
    /\ op.kind \in Recoveries => op.of # 0 /\ op.plan # NoPlan
    /\ op.kind \in Mutations => op.of = 0
    /\ op.kind = "inspect" => op.plan = NoPlan
    /\ op.attempt # "none" => op.plan # NoPlan
    /\ OpRefined(op)

\* The journal: one operation at most is pending, and only what had a plan is
\* recovered.
JournalOK(o) ==
    /\ \E n \in Nat : DOMAIN o = 1..n
    /\ Backward(o)
    /\ \A i \in DOMAIN o : OpOK(o[i])
    /\ \A i \in DOMAIN o : o[i].kind \in Recoveries => o[o[i].of].plan # NoPlan
    /\ \A i, j \in DOMAIN o :
          o[i].outcome = "pending" /\ o[j].outcome = "pending" => i = j

\* Patches that may still be running, in boot b.
FlightOK(o, f, b) ==
    \A i \in f :
       /\ i \in DOMAIN o
       /\ o[i].bootId = b
       /\ o[i].attempt \in SentAttempts
       /\ o[i].outcome \in Open
       /\ \A j \in f : OneChain(o, i, j) => i = j

\* Where a worker can be with its operation.
Stage(op, binding, step) ==
    /\ step \notin {"fail", "note"} => op.outcome = "pending"
    /\ step \in {"recheck", "threw", "await", "mark", "settle", "verify",
                 "commit", "guard", "classify"} => op.plan # NoPlan
    /\ step \in {"start", "read", "plan"} /\ op.kind = "deactivate" => binding # Absent
    /\ step \in {"judge", "note", "close", "verdict"} => op.kind = "inspect"
    /\ step \in {"note", "close"} => op.of # 0
    /\ step \in Steps

\* The worker's operation is of this boot, and apart from its own patch none
\* of its chain may still be running.
WorkerOK(o, binding, f, b, w) ==
    w # NoWorker =>
       /\ w.op \in DOMAIN o
       /\ o[w.op].bootId = b
       /\ Stage(o[w.op], binding, w.at)
       /\ w.op \in f => w.at \in {"await", "mark", "fail"}
       /\ o[w.op].kind # "inspect" =>
             \A j \in f : OneChain(o, j, w.op) => j = w.op

\* As long as no receipt is written that its writer thinks was not: an
\* operation has ended when its phase says so, and what was recovered is never
\* a no-op and not under way.
EndsAgree(op) == op.phase = "terminal" <=> op.outcome \notin Open

SettledOK(o) ==
    /\ \A i \in DOMAIN o : EndsAgree(o[i])
    /\ \A i \in DOMAIN o : o[i].kind \in Recoveries =>
          o[o[i].of].outcome \in {"recovery-required", "succeeded", "failed"}
    /\ \A i \in DOMAIN o : o[i].kind \in Recoveries /\ o[i].outcome = "succeeded" =>
          \A j \in Chain(o, i) : o[j].outcome \in {"succeeded", "failed"}

WorkerSettled(o, w) ==
    w # NoWorker /\ o[w.op].kind # "inspect" => o[w.op].outcome = "pending"

Plain ==
    /\ receipt \in Receipts
    /\ disk \in Projections /\ live \in Projections
    /\ boot \in Nat \ {0}
    /\ dead \subseteq DOMAIN ops
    /\ worker \in Workers
    /\ faults \in [write: Nat, sync: Nat, drift: Nat]

ManagerInv ==
    /\ Plain
    /\ JournalOK(ops)
    /\ FlightOK(ops, flight, boot)
    /\ WorkerOK(ops, receipt.binding, flight, boot, worker)
    /\ Synced => SettledOK(ops) /\ WorkerSettled(ops, worker)

\* What the properties ask is part of it.
LEMMA InvTypes == ManagerInv => TypeOK
  BY DEF ManagerInv, Plain, TypeOK, Receipts, FlightOK, WorkerOK, NoWorker

\* What the properties ask is part of it: assertReceiptRefinements.
LEMMA InvRefined == ManagerInv => Refined(receipt)
  BY DEF ManagerInv, JournalOK, OpOK, OpRefined, Refined, Pending, ops

\* What the properties ask is part of it: the same-boot gate.
LEMMA InvGuarded == ManagerInv => OneGuardedPatch
  BY DEF ManagerInv, FlightOK, OneGuardedPatch, SentAttempts, Open

\* What the properties ask is part of it: settleChain.
LEMMA InvSettles == ManagerInv => ChainsSettle
  BY DEF ManagerInv, SettledOK, ChainsSettle

\* An empty receipt satisfies it.
LEMMA InitOK == Init => ManagerInv
  <1> SUFFICES ASSUME Init PROVE ManagerInv
    OBVIOUS
  <1>1. receipt = EmptyReceipt /\ ops = <<>> /\ DOMAIN ops = {} /\ DOMAIN ops = 1..0
    BY DEF Init, EmptyReceipt, ops
  <1>2. Plain
    BY <1>1 DEF Init, Plain, Receipts, States, Projections, EmptyReceipt, Absent,
                Workers, NoWorker, Steps
  <1>3. JournalOK(ops)
    BY <1>1 DEF JournalOK, Backward
  <1>4. FlightOK(ops, flight, boot) /\ WorkerOK(ops, receipt.binding, flight, boot, worker)
    BY DEF Init, FlightOK, WorkerOK
  <1>5. SettledOK(ops) /\ WorkerSettled(ops, worker)
    BY <1>1 DEF Init, SettledOK, WorkerSettled
  <1> QED BY <1>2, <1>3, <1>4, <1>5 DEF ManagerInv
-----------------------------------------------------------------------------
(* Changing the journal *)

\* p is o but for operation w, and what w is about stays the same.
Amends(o, p, w) ==
    /\ DOMAIN p = DOMAIN o
    /\ \A k \in DOMAIN o \ {w} : p[k] = o[k]

Fits(op, x) ==
    /\ OpOK(x)
    /\ x.kind = op.kind /\ x.of = op.of /\ x.bootId = op.bootId
    /\ op.plan # NoPlan => x.plan # NoPlan
    /\ x.outcome = "pending" => op.outcome = "pending"

Kept(o, p) ==
    /\ DOMAIN p = DOMAIN o
    /\ \A k \in DOMAIN o : /\ p[k].kind = o[k].kind
                           /\ p[k].of = o[k].of
                           /\ p[k].bootId = o[k].bootId

\* Earlier operations are in the journal.
LEMMA OfInside ==
    ASSUME NEW o, JournalOK(o)
    PROVE  \A k \in DOMAIN o : o[k].of # 0 => o[k].of \in DOMAIN o /\ o[k].of < k
  BY DEF JournalOK, Backward

\* What keeps every `of' keeps every chain.
LEMMA KeptChains ==
    ASSUME NEW o, NEW p, Kept(o, p)
    PROVE  /\ \A i : Chain(p, i) = Chain(o, i)
           /\ \A i, j : OneChain(p, i, j) <=> OneChain(o, i, j)
  <1>1. \A i : Chain(p, i) = Chain(o, i)
    BY ChainSame DEF Kept
  <1> QED BY <1>1 DEF OneChain

\* A journal stays one when the changed operation fits what it was.
LEMMA JournalAmended ==
    ASSUME NEW o, JournalOK(o), NEW p, NEW w \in DOMAIN o, Amends(o, p, w),
           Fits(o[w], p[w])
    PROVE  JournalOK(p) /\ Kept(o, p)
  <1>1. Kept(o, p)
    BY DEF Kept, Fits, Amends
  <1>2. Backward(p)
    BY <1>1 DEF JournalOK, Backward, Kept
  <1>3. \A i \in DOMAIN p : OpOK(p[i])
    BY DEF JournalOK, Fits, Amends
  <1>4. \A i \in DOMAIN p : p[i].kind \in Recoveries => p[p[i].of].plan # NoPlan
    <2> SUFFICES ASSUME NEW i \in DOMAIN p, p[i].kind \in Recoveries
                 PROVE  p[p[i].of].plan # NoPlan
      OBVIOUS
    <2>1. i \in DOMAIN o /\ o[i].kind \in Recoveries /\ p[i].of = o[i].of
      BY <1>1 DEF Kept
    <2>2. o[o[i].of].plan # NoPlan /\ o[i].of # 0
      BY <2>1 DEF JournalOK, OpOK
    <2>3. o[i].of \in DOMAIN o
      BY <2>1, <2>2, OfInside
    <2> QED BY <2>1, <2>2, <2>3 DEF Amends, Fits
  <1>5. \A i, j \in DOMAIN p :
           p[i].outcome = "pending" /\ p[j].outcome = "pending" => i = j
    BY DEF JournalOK, Fits, Amends
  <1> QED BY <1>1, <1>2, <1>3, <1>4, <1>5 DEF JournalOK, Kept

\* Patches in flight, when their operations stay open and under way.
LEMMA FlightKept ==
    ASSUME NEW o, NEW p, NEW f, NEW b, Kept(o, p), FlightOK(o, f, b),
           \A i \in f : p[i].attempt \in SentAttempts /\ p[i].outcome \in Open
    PROVE  FlightOK(p, f, b)
  <1>1. \A i, j : OneChain(p, i, j) <=> OneChain(o, i, j)
    BY KeptChains
  <1> QED BY <1>1 DEF FlightOK, Kept

\* One patch more, of an operation none of whose chain is in flight.
LEMMA FlightSent ==
    ASSUME NEW o, NEW f, NEW b, NEW w \in DOMAIN o, FlightOK(o, f, b),
           o[w].bootId = b, o[w].attempt \in SentAttempts, o[w].outcome \in Open,
           \A j \in f : OneChain(o, j, w) => j = w
    PROVE  FlightOK(o, f \cup {w}, b)
  <1>1. \A i, j : OneChain(o, i, j) <=> OneChain(o, j, i)
    BY DEF OneChain
  <1> QED BY <1>1 DEF FlightOK

\* A chain that starts with a planned operation has plans only, and no no-op
\* but perhaps its first.
LEMMA ChainPlanned ==
    ASSUME NEW o, JournalOK(o), NEW i \in DOMAIN o, o[i].plan # NoPlan
    PROVE  \A j \in Chain(o, i) : o[j].plan # NoPlan
  <1> DEFINE S == {k \in DOMAIN o : o[k].plan # NoPlan}
  <1>1. ClosedUnder(o, S)
    <2> SUFFICES ASSUME NEW k \in S, o[k].of # 0 PROVE o[k].of \in S
      BY DEF ClosedUnder
    <2>1. k \in DOMAIN o /\ o[k].plan # NoPlan
      OBVIOUS
    <2>2. o[k].kind \in Recoveries
      BY <2>1 DEF JournalOK, OpOK, Intents, Kinds, Recoveries, Mutations
    <2>3. o[k].of \in DOMAIN o
      BY OfInside
    <2> QED BY <2>2, <2>3 DEF JournalOK
  <1>2. S \in SUBSET DOMAIN o /\ i \in S
    OBVIOUS
  <1> HIDE DEF S
  <1>3. Chain(o, i) \subseteq S
    BY <1>1, <1>2, ChainWithin
  <1> QED BY <1>3 DEF S

\* Nothing that is being recovered ended as a no-op.
LEMMA ChainNoNoop ==
    ASSUME NEW o, JournalOK(o), SettledOK(o), NEW i \in DOMAIN o,
           o[i].kind \in Recoveries
    PROVE  \A j \in Chain(o, o[i].of) : o[j].outcome # "no-op"
  <1> DEFINE S == {k \in DOMAIN o : o[k].plan # NoPlan /\ o[k].outcome # "no-op"}
  <1>1. o[i].of \in DOMAIN o /\ o[o[i].of].plan # NoPlan
    BY OfInside DEF JournalOK, OpOK
  <1>2. ClosedUnder(o, S)
    <2> SUFFICES ASSUME NEW k \in S, o[k].of # 0 PROVE o[k].of \in S
      BY DEF ClosedUnder
    <2>1. k \in DOMAIN o /\ o[k].plan # NoPlan
      OBVIOUS
    <2>2. o[k].kind \in Recoveries
      BY <2>1 DEF JournalOK, OpOK, Intents, Kinds, Recoveries, Mutations
    <2>3. o[k].of \in DOMAIN o
      BY OfInside
    <2> QED BY <2>2, <2>3 DEF JournalOK, SettledOK
  <1>3. S \in SUBSET DOMAIN o /\ o[i].of \in S
    BY <1>1 DEF SettledOK
  <1> HIDE DEF S
  <1>4. Chain(o, o[i].of) \subseteq S
    BY <1>2, <1>3, ChainWithin
  <1> QED BY <1>4 DEF S

\* An operation that is under way, or has no plan, can end without disturbing
\* what settled recoveries say, unless it is a recovery that succeeds.
LEMMA SettledAmended ==
    ASSUME NEW o, JournalOK(o), SettledOK(o), NEW p, NEW w \in DOMAIN o,
           Amends(o, p, w), Kept(o, p), EndsAgree(p[w]),
           o[w].outcome \in {"pending", "recovery-required"} \/ o[w].plan = NoPlan,
           p[w].outcome = "recovery-required" \/ o[w].outcome = "pending"
              \/ o[w].plan = NoPlan,
           ~ (p[w].kind \in Recoveries /\ p[w].outcome = "succeeded")
    PROVE  SettledOK(p)
  <1>1. \A i \in DOMAIN p : EndsAgree(p[i])
    BY DEF SettledOK, Amends
  <1>2. ASSUME NEW i \in DOMAIN p, p[i].kind \in Recoveries
        PROVE  p[p[i].of].outcome \in {"recovery-required", "succeeded", "failed"}
    <2>1. i \in DOMAIN o /\ o[i].kind \in Recoveries /\ p[i].of = o[i].of
      BY <1>2 DEF Kept
    <2>2. o[i].of \in DOMAIN o /\ o[o[i].of].plan # NoPlan
      BY <2>1, OfInside DEF JournalOK, OpOK
    <2>3. o[o[i].of].outcome \in {"recovery-required", "succeeded", "failed"}
      BY <2>1 DEF SettledOK
    <2> QED BY <2>1, <2>2, <2>3 DEF Amends
  <1>3. ASSUME NEW i \in DOMAIN p, p[i].kind \in Recoveries, p[i].outcome = "succeeded",
               NEW j \in Chain(p, i)
        PROVE  p[j].outcome \in {"succeeded", "failed"}
    <2>1. i # w /\ i \in DOMAIN o /\ p[i] = o[i]
      BY <1>3 DEF Amends
    <2>2. j \in Chain(o, i)
      BY KeptChains
    <2>3. o[j].outcome \in {"succeeded", "failed"} /\ j \in DOMAIN o
      BY <1>3, <2>1, <2>2, ChainDomain DEF SettledOK
    <2>4. o[j].plan # NoPlan
      BY <1>3, <2>1, <2>2, ChainPlanned DEF JournalOK, OpOK
    <2> QED BY <2>3, <2>4 DEF Amends
  <1> QED BY <1>1, <1>2, <1>3 DEF SettledOK
-----------------------------------------------------------------------------
(* The worker's steps *)

Faults == [write: Nat, sync: Nat, drift: Nat]

\* Operation w becomes x.
Edit(o, w, x) == [o EXCEPT ![w] = x]

\* Editing one operation changes that one only.
LEMMA EditAmends ==
    ASSUME NEW o \in Seq(Intents), NEW w \in DOMAIN o, NEW x \in Intents
    PROVE  /\ Edit(o, w, x) \in Seq(Intents)
           /\ Amends(o, Edit(o, w, x), w)
           /\ Edit(o, w, x)[w] = x
           /\ DOMAIN Edit(o, w, x) = DOMAIN o
  BY DEF Edit, Amends

\* What Amend and Conclude hand to the journal.
Receipt3(st, binding, o) == [state |-> st, binding |-> binding, operations |-> o]

\* Amend and Conclude, and the receipt itself, in that form.
LEMMA AmendIs ==
    ASSUME receipt \in Receipts, NEW x, NEW st
    PROVE  /\ Amend(x) = Receipt3(receipt.state, receipt.binding, Edit(ops, worker.op, x))
           /\ Conclude(x, st) = Receipt3(st, receipt.binding, Edit(ops, worker.op, x))
           /\ receipt = Receipt3(receipt.state, receipt.binding, ops)
  <1>1. receipt = Receipt3(receipt.state, receipt.binding, ops)
    BY DEF Receipt3, ops, Receipts
  <1>2. Amend(x) = Receipt3(receipt.state, receipt.binding, Edit(ops, worker.op, x))
    BY DEF Amend, Receipt3, Edit, ops, Receipts
  <1>3. Conclude(x, st) = [Amend(x) EXCEPT !.state = st]
    BY DEF Conclude
  <1>4. Conclude(x, st) = Receipt3(st, receipt.binding, Edit(ops, worker.op, x))
    BY <1>2, <1>3 DEF Receipt3
  <1> QED BY <1>1, <1>2, <1>4

\* A write that replaces operation i as well as the state.
Put(r, st, i, x) == [r EXCEPT !.state = st, !.operations[i] = x]

\* The same for an operation the worker does not own.
LEMMA PutIs ==
    ASSUME NEW r \in Receipts, NEW i, NEW st, NEW x
    PROVE  Put(r, st, i, x) =
              Receipt3(st, r.binding, Edit(r.operations, i, x))
  <1> DEFINE q == [r EXCEPT !.state = st]
  <1>1. q = Receipt3(st, r.binding, r.operations)
    BY DEF Receipt3, Receipts
  <1>2. [r EXCEPT !.state = st, !.operations[i] = x] = [q EXCEPT !.operations[i] = x]
    OBVIOUS
  <1> HIDE DEF q
  <1>3. q.operations = r.operations
    BY <1>1 DEF Receipt3
  <1>4. [q EXCEPT !.operations[i] = x] = Receipt3(st, r.binding, Edit(r.operations, i, x))
    BY <1>1, <1>3 DEF Receipt3, Edit
  <1> QED BY <1>2, <1>4 DEF Put

\* A write that opens operation i for recovery.
LEMMA ReopenedIs ==
    ASSUME NEW r \in Receipts, NEW i \in DOMAIN r.operations, NEW st
    PROVE  [r EXCEPT !.state = st, !.operations[i].outcome = "recovery-required"] =
             Receipt3(st, r.binding, Edit(r.operations, i, [r.operations[i] EXCEPT
                         !.outcome = "recovery-required"]))
  <1> DEFINE x == [r.operations[i] EXCEPT !.outcome = "recovery-required"]
  <1>3. [r EXCEPT !.state = st, !.operations[i].outcome = "recovery-required"] = Put(r, st, i, x)
    BY DEF Put
  <1> HIDE DEF x
  <1>4. Put(r, st, i, x) = Receipt3(st, r.binding, Edit(r.operations, i, x))
    BY PutIs
  <1> QED BY <1>3, <1>4 DEF x

\* A write that ends operation i without its effect.
LEMMA EndedIs ==
    ASSUME NEW r \in Receipts, NEW i \in DOMAIN r.operations, NEW st
    PROVE  [r EXCEPT !.state = st, !.operations[i].outcome = "failed",
                     !.operations[i].phase = "terminal"] =
             Receipt3(st, r.binding, Edit(r.operations, i, [r.operations[i] EXCEPT
                         !.outcome = "failed", !.phase = "terminal"]))
  <1> DEFINE y == [r.operations[i] EXCEPT !.outcome = "failed"]
             x == [y EXCEPT !.phase = "terminal"]
             q == Receipt3(st, r.binding, Edit(r.operations, i, y))
  <1>1. [r EXCEPT !.state = st, !.operations[i].outcome = "failed"] = Put(r, st, i, y)
    BY DEF Put
  <1>2. Put(r, st, i, y) = q
    <2> HIDE DEF y
    <2> QED BY PutIs
  <1>3. [r EXCEPT !.state = st, !.operations[i].outcome = "failed",
                  !.operations[i].phase = "terminal"]
           = [[r EXCEPT !.state = st, !.operations[i].outcome = "failed"]
                 EXCEPT !.operations[i].phase = "terminal"]
    BY DEF Put
  <1>4. r.operations \in Seq(Intents)
    BY DEF Receipts
  <1>5. q.operations = Edit(r.operations, i, y) /\ q.operations[i] = y
    <2> HIDE DEF y
    <2> QED BY <1>4 DEF Edit, Receipt3
  <1>6. [q EXCEPT !.operations[i].phase = "terminal"] = [q EXCEPT !.operations[i] = x]
    <2> HIDE DEF q, y
    <2> QED BY <1>5
  <1>7. [q EXCEPT !.operations[i] = x] = Receipt3(st, r.binding, Edit(r.operations, i, x))
    <2> HIDE DEF y, x
    <2>1. [q EXCEPT !.operations[i] = x]
             = Receipt3(st, r.binding, [Edit(r.operations, i, y) EXCEPT ![i] = x])
      BY DEF Receipt3
    <2>2. [Edit(r.operations, i, y) EXCEPT ![i] = x] = Edit(r.operations, i, x)
      BY <1>4 DEF Edit
    <2> QED BY <2>1, <2>2
  <1>8. x = [r.operations[i] EXCEPT !.outcome = "failed", !.phase = "terminal"]
    BY DEF Put
  <1> HIDE DEF x, y, q
  <1> QED BY <1>1, <1>2, <1>3, <1>6, <1>7, <1>8

\* A write that appends an operation.
LEMMA AppendedIs ==
    ASSUME NEW st, NEW b, NEW o, NEW x
    PROVE  [Receipt3(st, b, o) EXCEPT !.operations = Append(@, x)]
              = Receipt3(st, b, Append(o, x))
  <1> DEFINE r == Receipt3(st, b, o)
             q == Append(r.operations, x)
  <1>1. r.operations = o
    BY DEF Receipt3
  <1>2. [r EXCEPT !.operations = Append(@, x)] = [r EXCEPT !.operations = q]
    OBVIOUS
  <1>3. q = Append(o, x)
    <2> HIDE DEF r
    <2> QED BY <1>1
  <1> HIDE DEF q
  <1>4. [r EXCEPT !.operations = q] = Receipt3(st, b, q)
    BY DEF Receipt3
  <1> QED BY <1>2, <1>3, <1>4

\* A journal write is done, has failed, or has failed after its rename.
LEMMA JournalCases ==
    ASSUME NEW new, NEW next, faults \in Faults, Journal(new, next)
    PROVE  /\ faults' \in Faults
           /\ Synced' => Synced
           /\ \/ receipt' = new /\ worker' = next
              \/ receipt' = receipt /\ worker' = [worker EXCEPT !.at = "fail"]
              \/ receipt' = new /\ worker' = [worker EXCEPT !.at = "fail"] /\ ~Synced'
  BY DEF Journal, Written, NotWritten, Faults, Synced

\* What keeps the invariant when the worker edits its operation at most.
LEMMA AmendStep ==
    ASSUME ManagerInv, worker # NoWorker, Plain',
           Amends(ops, ops', worker.op), Fits(Op, ops'[worker.op]),
           boot' = boot, Synced' => Synced,
           \/ flight' = flight
           \/ flight' = flight \cup {worker.op} /\ Op.kind # "inspect",
           worker.op \in flight' =>
              /\ ops'[worker.op].attempt \in SentAttempts
              /\ ops'[worker.op].outcome \in Open,
           \/ worker' = NoWorker
           \/ /\ worker'.op = worker.op
              /\ Stage(ops'[worker.op], receipt'.binding, worker'.at)
              /\ worker.op \in flight' => worker'.at \in {"await", "mark", "fail"},
           Synced' => /\ EndsAgree(ops'[worker.op])
                      /\ ~ (Op.kind \in Recoveries /\ ops'[worker.op].outcome = "succeeded")
                      /\ \/ worker' = NoWorker \/ Op.kind = "inspect"
                         \/ ops'[worker.op].outcome = "pending"
    PROVE  ManagerInv'
  <1> DEFINE w == worker.op
  <1>1. w \in DOMAIN ops /\ Op = ops[w]
    BY DEF ManagerInv, WorkerOK, Op
  <1>2. JournalOK(ops') /\ Kept(ops, ops')
    BY <1>1, JournalAmended DEF ManagerInv
  <1>3. \A i, j : OneChain(ops', i, j) <=> OneChain(ops, i, j)
    BY <1>2, KeptChains
  <1>4. ops'[w].kind = ops[w].kind /\ ops'[w].bootId = ops[w].bootId
    BY <1>1 DEF Fits
  <1>5. ops[w].kind # "inspect" => \A j \in flight : OneChain(ops, j, w) => j = w
    BY <1>1 DEF ManagerInv, WorkerOK
  <1>6. ops[w].bootId = boot
    BY <1>1 DEF ManagerInv, WorkerOK
  <1>7. FlightOK(ops', flight', boot')
    <2>1. \A i \in flight : i # w => ops'[i] = ops[i]
      BY <1>1 DEF ManagerInv, FlightOK, Amends
    <2>2. CASE flight' = flight
      <3>1. \A i \in flight : ops'[i].attempt \in SentAttempts /\ ops'[i].outcome \in Open
        BY <2>1, <2>2 DEF ManagerInv, FlightOK
      <3> QED BY <3>1, <2>2, <1>2, FlightKept DEF ManagerInv
    <2>3. CASE flight' = flight \cup {w} /\ Op.kind # "inspect"
      <3>1. w \in flight'
        BY <2>3
      <3>2. \A i \in flight : ops'[i].attempt \in SentAttempts /\ ops'[i].outcome \in Open
        BY <2>1, <3>1 DEF ManagerInv, FlightOK
      <3>3. FlightOK(ops', flight, boot)
        BY <3>2, <1>2, FlightKept DEF ManagerInv
      <3>4. \A j \in flight : OneChain(ops', j, w) => j = w
        BY <1>1, <1>3, <1>5, <2>3
      <3>5. w \in DOMAIN ops'
        BY <1>1 DEF Amends
      <3>6. ops'[w].bootId = boot /\ ops'[w].attempt \in SentAttempts /\ ops'[w].outcome \in Open
        BY <3>1, <1>4, <1>6
      <3> HIDE DEF w
      <3>7. FlightOK(ops', flight \cup {w}, boot)
        BY <3>3, <3>4, <3>5, <3>6, FlightSent
      <3> QED BY <3>7, <2>3 DEF w
    <2> QED BY <2>2, <2>3
  <1>8. WorkerOK(ops', receipt'.binding, flight', boot', worker')
    <2>1. CASE worker' = NoWorker
      BY <2>1 DEF WorkerOK
    <2>2. CASE worker' # NoWorker
      <3>1. worker'.op = w /\ Stage(ops'[w], receipt'.binding, worker'.at)
               /\ (w \in flight' => worker'.at \in {"await", "mark", "fail"})
        BY <2>2
      <3>2. w \in DOMAIN ops' /\ ops'[w].bootId = boot'
        BY <1>1, <1>4, <1>6 DEF Amends
      <3>3. ops'[w].kind # "inspect" => \A j \in flight' : OneChain(ops', j, w) => j = w
        BY <1>3, <1>4, <1>5
      <3> QED BY <3>1, <3>2, <3>3 DEF WorkerOK
    <2> QED BY <2>1, <2>2
  <1>9. ASSUME Synced' PROVE SettledOK(ops') /\ WorkerSettled(ops', worker')
    <2>1. SettledOK(ops) /\ WorkerSettled(ops, worker) /\ JournalOK(ops)
      BY <1>9 DEF ManagerInv
    <2>2. ops[w].outcome = "pending" \/ ops[w].plan = NoPlan
      BY <1>1, <2>1 DEF WorkerSettled, JournalOK, OpOK
    <2>3. EndsAgree(ops'[w]) /\ ~ (ops'[w].kind \in Recoveries /\ ops'[w].outcome = "succeeded")
      BY <1>9, <1>1, <1>4
    <2>4. SettledOK(ops')
      <3> HIDE DEF w
      <3>1. Amends(ops, ops', w)
        BY DEF w
      <3> QED BY <1>1, <1>2, <2>1, <2>2, <2>3, <3>1, SettledAmended
    <2>5. WorkerSettled(ops', worker')
      BY <1>9, <1>1, <1>4 DEF WorkerSettled
    <2> QED BY <2>4, <2>5
  <1>10. Plain'
    OBVIOUS
  <1> QED BY <1>2, <1>7, <1>8, <1>9, <1>10 DEF ManagerInv

\* An operation fits itself.
LEMMA FitsItself ==
    ASSUME ManagerInv, worker # NoWorker
    PROVE  /\ worker.op \in DOMAIN ops /\ Op = ops[worker.op]
           /\ OpOK(Op) /\ Fits(Op, Op) /\ Op.bootId = boot
           /\ Stage(Op, receipt.binding, worker.at)
           /\ worker.op \in flight => /\ worker.at \in {"await", "mark", "fail"}
                                      /\ Op.attempt \in SentAttempts /\ Op.outcome \in Open
           /\ Synced => /\ EndsAgree(Op)
                        /\ Op.kind = "inspect" \/ Op.outcome = "pending"
                        /\ ~ (Op.kind \in Recoveries /\ Op.outcome = "succeeded")
  <1>1. worker.op \in DOMAIN ops /\ Op = ops[worker.op]
    BY DEF ManagerInv, WorkerOK, Op
  <1>2. OpOK(Op) /\ Fits(Op, Op)
    BY <1>1 DEF ManagerInv, JournalOK, Fits
  <1>3. Synced => EndsAgree(Op) /\ (Op.kind = "inspect" \/ Op.outcome = "pending")
    BY <1>1 DEF ManagerInv, SettledOK, WorkerSettled
  <1>4. Synced => ~ (Op.kind \in Recoveries /\ Op.outcome = "succeeded")
    BY <1>3 DEF Recoveries
  <1> QED BY <1>1, <1>2, <1>3, <1>4 DEF ManagerInv, WorkerOK, FlightOK

\* A step that leaves the journal alone.
LEMMA QuietStep ==
    ASSUME ManagerInv, worker # NoWorker, receipt' = receipt, faults' = faults,
           UNCHANGED <<host, boot, dead>>, worker' \in Workers,
           worker'.op = worker.op, Stage(Op, receipt.binding, worker'.at),
           worker.op \in flight => worker'.at \in {"await", "mark", "fail"}
    PROVE  ManagerInv'
  <1>1. Plain'
    BY DEF ManagerInv, Plain, host, ops
  <1>2. ops' = ops /\ flight' = flight /\ boot' = boot /\ (Synced' <=> Synced)
    BY DEF ops, host, Synced
  <1>3. Amends(ops, ops', worker.op) /\ ops'[worker.op] = Op
    BY <1>2, FitsItself DEF Amends
  <1> QED BY <1>1, <1>2, <1>3, FitsItself, AmendStep

\* A step that edits the worker's operation and writes the journal.
LEMMA WriteStep ==
    ASSUME ManagerInv, worker # NoWorker,
           NEW x, NEW st \in States, NEW binding \in Projections, NEW next \in Workers,
           Journal(Receipt3(st, binding, Edit(ops, worker.op, x)), next),
           UNCHANGED <<host, boot, dead>>, Fits(Op, x),
           worker.op \in flight => x.attempt \in SentAttempts /\ x.outcome \in Open,
           \/ next = NoWorker
           \/ /\ next.op = worker.op
              /\ Stage(x, binding, next.at)
              /\ worker.op \in flight => next.at \in {"await", "mark", "fail"},
           Synced => /\ EndsAgree(x)
                     /\ ~ (Op.kind \in Recoveries /\ x.outcome = "succeeded")
                     /\ next = NoWorker \/ Op.kind = "inspect" \/ x.outcome = "pending"
    PROVE  ManagerInv'
  <1> DEFINE new == Receipt3(st, binding, Edit(ops, worker.op, x))
             failing == [worker EXCEPT !.at = "fail"]
  <1>1. receipt \in Receipts /\ ops \in Seq(Intents) /\ worker \in Workers
    BY DEF ManagerInv, Plain, Receipts, ops
  <1>2. faults \in Faults
    BY DEF ManagerInv, Plain, Faults
  <1>3. worker.op \in DOMAIN ops /\ Op = ops[worker.op]
    BY FitsItself
  <1>4. x \in Intents
    BY DEF Fits, OpOK
  <1>5. new \in Receipts /\ new.operations = Edit(ops, worker.op, x) /\ new.binding = binding
    BY <1>1, <1>3, <1>4, EditAmends DEF Receipt3, Receipts
  <1>6. failing \in Workers /\ failing.op = worker.op /\ failing.at = "fail"
    BY <1>1 DEF Workers, Steps
  <1>7. DOMAIN Edit(ops, worker.op, x) = DOMAIN ops
           /\ Amends(ops, Edit(ops, worker.op, x), worker.op)
           /\ Edit(ops, worker.op, x)[worker.op] = x
    <2> HIDE DEF new, failing
    <2>1. ops \in Seq(Intents) /\ worker.op \in DOMAIN ops /\ x \in Intents
      BY <1>1, <1>3, <1>4
    <2>2. Amends(ops, Edit(ops, worker.op, x), worker.op)
      BY <2>1, EditAmends
    <2>3. Edit(ops, worker.op, x)[worker.op] = x
      BY <2>1, EditAmends
    <2>4. DOMAIN Edit(ops, worker.op, x) = DOMAIN ops
      BY <2>1, EditAmends
    <2> QED BY <2>2, <2>3, <2>4
  <1>8. /\ faults' \in Faults /\ (Synced' => Synced)
        /\ \/ receipt' = new /\ worker' = next
           \/ receipt' = receipt /\ worker' = failing
           \/ receipt' = new /\ worker' = failing /\ ~Synced'
    <2>1. Journal(new, next)
      OBVIOUS
    <2> HIDE DEF new
    <2> QED BY <2>1, <1>2, JournalCases
  <1>9. boot' = boot /\ flight' = flight /\ dead' = dead /\ disk' = disk /\ live' = live
    BY DEF host
  <1>10. \A y, z : Stage(y, z, "fail")
    BY DEF Stage, Steps
  <1> HIDE DEF new, failing
  <1>11. CASE receipt' = new /\ worker' = next
    <2>1. ops' = Edit(ops, worker.op, x) /\ receipt'.binding = binding
      BY <1>5, <1>11 DEF ops
    <2>2. Plain'
      BY <1>5, <1>7, <1>8, <1>9, <1>11, <2>1 DEF ManagerInv, Plain, Faults
    <2>3. Amends(ops, ops', worker.op) /\ ops'[worker.op] = x
      BY <1>7, <2>1
    <2> QED BY <1>8, <1>9, <1>11, <2>1, <2>2, <2>3, AmendStep
  <1>12. CASE receipt' = receipt /\ worker' = failing
    <2>1. ops' = ops
      BY <1>12 DEF ops
    <2>2. Plain'
      BY <1>6, <1>8, <1>9, <1>12, <2>1 DEF ManagerInv, Plain, Faults
    <2>3. Amends(ops, ops', worker.op) /\ ops'[worker.op] = Op
      BY <1>3, <2>1 DEF Amends
    <2>4. Stage(Op, receipt'.binding, worker'.at) /\ worker'.op = worker.op /\ worker'.at = "fail"
      BY <1>6, <1>10, <1>12
    <2> QED BY <1>8, <1>9, <2>2, <2>3, <2>4, FitsItself, AmendStep
  <1>13. CASE receipt' = new /\ worker' = failing /\ ~Synced'
    <2>1. ops' = Edit(ops, worker.op, x)
      BY <1>5, <1>13 DEF ops
    <2>2. Plain'
      BY <1>5, <1>6, <1>7, <1>8, <1>9, <1>13, <2>1 DEF ManagerInv, Plain, Faults
    <2>3. Amends(ops, ops', worker.op) /\ ops'[worker.op] = x
      BY <1>7, <2>1
    <2>4. Stage(x, receipt'.binding, worker'.at) /\ worker'.op = worker.op /\ worker'.at = "fail"
      BY <1>6, <1>10, <1>13
    <2> QED BY <1>8, <1>9, <1>13, <2>2, <2>3, <2>4, AmendStep
  <1> QED BY <1>8, <1>11, <1>12, <1>13

\* A step that only moves the worker.
LEMMA GotoStep ==
    ASSUME ManagerInv, worker # NoWorker, NEW step \in Steps, Goto(step),
           UNCHANGED <<host, boot, dead>>, Stage(Op, receipt.binding, step),
           worker.op \in flight => step \in {"await", "mark", "fail"}
    PROVE  ManagerInv'
  <1>1. worker' \in Workers /\ worker'.op = worker.op /\ worker'.at = step
    BY DEF Goto, ManagerInv, Plain, Workers
  <1> QED BY <1>1, QuietStep DEF Goto

\* The same for the writes of Amend and Conclude.
LEMMA NextWorker ==
    ASSUME ManagerInv, NEW step \in Steps
    PROVE  /\ [worker EXCEPT !.at = step] \in Workers
           /\ [worker EXCEPT !.at = step].op = worker.op
           /\ [worker EXCEPT !.at = step].at = step
  BY DEF ManagerInv, Plain, Workers

\* A write of Amend, from which the worker goes on.
LEMMA AmendWrite ==
    ASSUME ManagerInv, worker # NoWorker, NEW x, NEW step \in Steps,
           Journal(Amend(x), [worker EXCEPT !.at = step]),
           UNCHANGED <<host, boot, dead>>, Fits(Op, x),
           worker.op \in flight => x.attempt \in SentAttempts /\ x.outcome \in Open,
           Stage(x, receipt.binding, step),
           worker.op \in flight => step \in {"await", "mark", "fail"},
           Synced => /\ EndsAgree(x)
                     /\ Op.kind = "inspect" \/ x.outcome = "pending"
    PROVE  ManagerInv'
  <1>1. receipt \in Receipts /\ receipt.state \in States /\ receipt.binding \in Projections
    BY DEF ManagerInv, Plain, Receipts
  <1>2. Amend(x) = Receipt3(receipt.state, receipt.binding, Edit(ops, worker.op, x))
    BY <1>1, AmendIs
  <1>3. ~ ("inspect" \in Recoveries)
    BY DEF Recoveries
  <1> QED BY <1>1, <1>2, <1>3, NextWorker, WriteStep

\* A write of Conclude, with which the worker ends.
LEMMA ConcludeLast ==
    ASSUME ManagerInv, worker # NoWorker, NEW x, NEW st \in States,
           JournalLast(Conclude(x, st)),
           UNCHANGED <<host, boot, dead>>, Fits(Op, x),
           worker.op \in flight => x.attempt \in SentAttempts /\ x.outcome \in Open,
           Synced => /\ EndsAgree(x)
                     /\ ~ (Op.kind \in Recoveries /\ x.outcome = "succeeded")
    PROVE  ManagerInv'
  <1>1. receipt \in Receipts /\ receipt.binding \in Projections
    BY DEF ManagerInv, Plain, Receipts
  <1>2. Conclude(x, st) = Receipt3(st, receipt.binding, Edit(ops, worker.op, x))
    BY <1>1, AmendIs
  <1>3. NoWorker \in Workers
    BY DEF NoWorker, Workers, Steps, Projections
  <1> QED BY <1>1, <1>2, <1>3, WriteStep DEF JournalLast

-----------------------------------------------------------------------------
(* Steps every worker shares *)

\* A failed check only moves the worker to recordFailure.
LEMMA CheckFailsOK ==
    ASSUME ManagerInv, CheckFails
    PROVE  ManagerInv'
  <1>1. Stage(Op, receipt.binding, "fail") /\ "fail" \in Steps
    BY DEF Stage, Steps
  <1> QED BY <1>1, GotoStep DEF CheckFails

\* What recordFailure makes of an operation: one whose patch may still run
\* stays open.
LEMMA FailedOpFits ==
    ASSUME ManagerInv, worker # NoWorker
    PROVE  /\ Fits(Op, FailedOp(Op))
           /\ worker.op \in flight => /\ FailedOp(Op).attempt \in SentAttempts
                                      /\ FailedOp(Op).outcome \in Open
           /\ FailedOp(Op).outcome \in {"recovery-required", "failed"}
           /\ Synced => EndsAgree(FailedOp(Op))
           /\ Op.priorState \in States
  <1> DEFINE unsure == Op.attempt \in {"pending", "outcome-unknown", "returned"}
  <1>1. Op \in Intents /\ OpOK(Op)
    BY FitsItself DEF OpOK
  <1>2. CASE unsure
    <2>1. FailedOp(Op) = [Op EXCEPT !.outcome = "recovery-required"]
      BY <1>2 DEF FailedOp
    <2>2. Op.plan # NoPlan
      BY <1>1, <1>2 DEF OpOK
    <2>3. Synced => EndsAgree(FailedOp(Op))
      <3>1. Synced => Op.outcome = "pending" /\ EndsAgree(Op)
        BY <1>1, <2>2, FitsItself DEF OpOK
      <3> QED BY <3>1, <2>1, <1>1 DEF EndsAgree, Open, Intents
    <2>4. OpOK(FailedOp(Op))
      BY <1>1, <2>1, <2>2 DEF OpOK, OpRefined, Intents, Outcomes
    <2>5. Fits(Op, FailedOp(Op)) /\ FailedOp(Op).attempt = Op.attempt
             /\ FailedOp(Op).outcome = "recovery-required" /\ Op.priorState \in States
      BY <1>1, <2>1, <2>4 DEF Fits, Intents
    <2> QED BY <2>3, <2>5, FitsItself DEF Open
  <1>3. CASE ~unsure
    <2>1. FailedOp(Op) = [Op EXCEPT !.outcome = "failed", !.phase = "terminal"]
      BY <1>3 DEF FailedOp
    <2>2. worker.op \notin flight
      BY <1>3, FitsItself DEF SentAttempts
    <2>3. OpOK(FailedOp(Op))
      BY <1>1, <2>1 DEF OpOK, OpRefined, Intents, Outcomes, Phases
    <2>4. Fits(Op, FailedOp(Op)) /\ EndsAgree(FailedOp(Op))
             /\ FailedOp(Op).outcome = "failed" /\ Op.priorState \in States
      BY <1>1, <2>1, <2>3 DEF Fits, Intents, EndsAgree, Open
    <2> QED BY <2>2, <2>4
  <1> QED BY <1>2, <1>3

\* recordFailure, its write done, failed, or failed after the rename.
LEMMA RecordFailureOK ==
    ASSUME ManagerInv, RecordFailure
    PROVE  ManagerInv'
  <1> DEFINE op == FailedOp(Op)
             st == IF op.outcome = "failed" THEN op.priorState ELSE "RECOVERY_REQUIRED"
             new == Conclude(op, st)
  <1>1. /\ worker # NoWorker
        /\ \/ Written(new) /\ UNCHANGED dead
           \/ NotWritten(new) /\ dead' = dead \cup {worker.op}
        /\ worker' = NoWorker
        /\ UNCHANGED <<host, boot>>
    BY DEF RecordFailure
  <1>2. /\ Fits(Op, op) /\ op \in Intents
        /\ worker.op \in flight => op.attempt \in SentAttempts /\ op.outcome \in Open
        /\ op.outcome \in {"recovery-required", "failed"}
        /\ Synced => EndsAgree(op)
    BY <1>1, FailedOpFits DEF Fits, OpOK
  <1>3. st \in States
    BY <1>2 DEF Intents, States
  <1>4. receipt \in Receipts /\ ops \in Seq(Intents) /\ receipt.binding \in Projections
    BY DEF ManagerInv, Plain, Receipts, ops
  <1>5. worker.op \in DOMAIN ops /\ Op = ops[worker.op]
    BY <1>1, FitsItself
  <1> HIDE DEF op, st
  <1>6. new = Receipt3(st, receipt.binding, Edit(ops, worker.op, op))
    BY <1>4, AmendIs
  <1>7. new \in Receipts /\ new.operations = Edit(ops, worker.op, op)
    BY <1>2, <1>3, <1>4, <1>5, <1>6, EditAmends DEF Receipt3, Receipts
  <1>8. /\ Edit(ops, worker.op, op) \in Seq(Intents)
        /\ DOMAIN Edit(ops, worker.op, op) = DOMAIN ops
        /\ Amends(ops, Edit(ops, worker.op, op), worker.op)
        /\ Edit(ops, worker.op, op)[worker.op] = op
    BY <1>2, <1>4, <1>5, EditAmends
  <1> HIDE DEF new
  <1>9. /\ receipt' \in {new, receipt}
        /\ faults' \in Faults /\ (Synced' => Synced)
        /\ dead' \in {dead, dead \cup {worker.op}}
    BY <1>1 DEF Written, NotWritten, Faults, Synced, ManagerInv, Plain
  <1>10. NoWorker \in Workers
    BY DEF NoWorker, Workers, Steps, Projections
  <1>11. boot' = boot /\ flight' = flight /\ disk' = disk /\ live' = live
    BY <1>1 DEF host
  <1>12. ops' = receipt'.operations
    BY DEF ops
  <1>13. DOMAIN ops' = DOMAIN ops
    BY <1>7, <1>8, <1>9, <1>12 DEF ops
  <1>14. Plain'
    BY <1>1, <1>5, <1>7, <1>9, <1>10, <1>11, <1>13 DEF ManagerInv, Plain, Faults
  <1>15. CASE receipt' = new
    <2>1. ops' = Edit(ops, worker.op, op)
      BY <1>7, <1>12, <1>15
    <2>2. Amends(ops, ops', worker.op) /\ ops'[worker.op] = op
      BY <1>8, <2>1
    <2> QED BY <1>1, <1>2, <1>9, <1>11, <1>14, <2>2, AmendStep
  <1>16. CASE receipt' = receipt
    <2>1. ops' = ops
      BY <1>16 DEF ops
    <2>2. Amends(ops, ops', worker.op) /\ ops'[worker.op] = Op
      BY <1>5, <2>1 DEF Amends
    <2>3. "inspect" \notin Recoveries
      BY DEF Recoveries
    <2> QED BY <1>1, <1>9, <1>11, <1>14, <2>2, <2>3, FitsItself, AmendStep
  <1> QED BY <1>9, <1>15, <1>16

\* With a plan an operation may be in any phase, with any attempt, and open.
LEMMA PlannedFits ==
    ASSUME NEW op, OpOK(op), op.plan # NoPlan, NEW x \in Intents,
           x.kind = op.kind, x.of = op.of, x.bootId = op.bootId, x.plan = op.plan,
           x.outcome = "pending" => op.outcome = "pending"
    PROVE  Fits(op, x)
  BY DEF Fits, OpOK, OpRefined

\* Where the plan is there, the operation is under way and no inspect.
LEMMA AtWork ==
    ASSUME ManagerInv, worker # NoWorker,
           worker.at \in {"recheck", "threw", "await", "mark", "settle", "verify",
                          "commit", "guard", "classify"}
    PROVE  /\ Op \in Intents /\ OpOK(Op) /\ Op.plan # NoPlan
           /\ Op.kind # "inspect" /\ Op.outcome = "pending"
           /\ Synced => Op.phase # "terminal"
           /\ Op.priorState \in States
  <1>1. Op.plan # NoPlan /\ Op.outcome = "pending"
    BY FitsItself DEF Stage
  <1>2. OpOK(Op) /\ Op \in Intents
    BY FitsItself DEF OpOK
  <1>3. Op.kind # "inspect"
    BY <1>1, <1>2 DEF OpOK
  <1>4. Synced => Op.phase # "terminal"
    BY <1>1, FitsItself DEF EndsAgree, Open
  <1>5. Op.priorState \in States
    BY <1>2 DEF Intents
  <1> QED BY <1>1, <1>2, <1>3, <1>4, <1>5

\* A call that threw at once never reached the host.
LEMMA DispatchThrewOK ==
    ASSUME ManagerInv, DispatchThrew
    PROVE  ManagerInv'
  <1> DEFINE x == [Op EXCEPT !.attempt = "threw"]
  <1>1. /\ worker # NoWorker /\ worker.at = "threw"
        /\ Journal(Amend(x), [worker EXCEPT !.at = "fail"])
        /\ UNCHANGED <<host, boot, dead>>
    BY DEF DispatchThrew
  <1>2. /\ x \in Intents /\ x.kind = Op.kind /\ x.of = Op.of /\ x.bootId = Op.bootId
        /\ x.plan = Op.plan /\ x.outcome = Op.outcome /\ x.phase = Op.phase
    BY <1>1, AtWork DEF Intents, Attempts
  <1> HIDE DEF x
  <1>3. Fits(Op, x)
    BY <1>1, <1>2, AtWork, PlannedFits
  <1>4. worker.op \notin flight /\ "fail" \in Steps /\ Stage(x, receipt.binding, "fail")
    BY <1>1, FitsItself DEF Stage, Steps
  <1>5. Synced => EndsAgree(x) /\ (Op.kind = "inspect" \/ x.outcome = "pending")
    BY <1>1, <1>2, FitsItself DEF EndsAgree
  <1> QED BY <1>1, <1>3, <1>4, <1>5, AmendWrite

\* An answered patch is no longer in flight.
LEMMA PatchReturnedOK ==
    ASSUME ManagerInv, PatchReturned
    PROVE  ManagerInv'
  <1> DEFINE x == [Op EXCEPT !.attempt = "returned"]
  <1>1. /\ worker # NoWorker /\ worker.at = "await" /\ worker.op \notin flight
        /\ Journal(Amend(x), [worker EXCEPT !.at = "settle"])
        /\ UNCHANGED <<host, boot, dead>>
    BY DEF PatchReturned
  <1>2. /\ x \in Intents /\ x.kind = Op.kind /\ x.of = Op.of /\ x.bootId = Op.bootId
        /\ x.plan = Op.plan /\ x.outcome = Op.outcome /\ x.phase = Op.phase
    BY <1>1, AtWork DEF Intents, Attempts
  <1> HIDE DEF x
  <1>3. Fits(Op, x)
    BY <1>1, <1>2, AtWork, PlannedFits
  <1>4. "settle" \in Steps /\ Stage(x, receipt.binding, "settle")
    BY <1>1, <1>2, AtWork DEF Stage, Steps
  <1>5. Synced => EndsAgree(x) /\ (Op.kind = "inspect" \/ x.outcome = "pending")
    BY <1>1, <1>2, FitsItself DEF EndsAgree
  <1> QED BY <1>1, <1>3, <1>4, <1>5, AmendWrite

\* A refused patch may be in flight: its operation stays open and under way.
LEMMA PatchRejectedOK ==
    ASSUME ManagerInv, PatchRejected
    PROVE  ManagerInv'
  <1> DEFINE x == [Op EXCEPT !.attempt = "outcome-unknown"]
  <1>1. /\ worker # NoWorker /\ worker.at = "await"
        /\ Journal(Amend(x), [worker EXCEPT !.at = "mark"])
        /\ UNCHANGED <<host, boot, dead>>
    BY DEF PatchRejected
  <1>2. /\ x \in Intents /\ x.kind = Op.kind /\ x.of = Op.of /\ x.bootId = Op.bootId
        /\ x.plan = Op.plan /\ x.outcome = Op.outcome /\ x.phase = Op.phase
        /\ x.attempt = "outcome-unknown"
    BY <1>1, AtWork DEF Intents, Attempts
  <1> HIDE DEF x
  <1>3. Fits(Op, x)
    BY <1>1, <1>2, AtWork, PlannedFits
  <1>4. "mark" \in Steps /\ Stage(x, receipt.binding, "mark") /\ x.attempt \in SentAttempts
           /\ x.outcome \in Open
    BY <1>1, <1>2, AtWork DEF Stage, Steps, SentAttempts, Open
  <1>5. Synced => EndsAgree(x) /\ (Op.kind = "inspect" \/ x.outcome = "pending")
    BY <1>1, <1>2, FitsItself DEF EndsAgree
  <1> QED BY <1>1, <1>3, <1>4, <1>5, AmendWrite

\* markRecovery and requireRecovery leave the operation open, as its patch
\* may still be in flight.
LEMMA MarkRecoveryOK ==
    ASSUME ManagerInv, worker # NoWorker, worker.at \in {"mark", "settle"},
           JournalLast(MarkRecovery), UNCHANGED <<host, boot, dead>>
    PROVE  ManagerInv'
  <1> DEFINE x == [Op EXCEPT !.outcome = "recovery-required"]
  <1>1. JournalLast(Conclude(x, "RECOVERY_REQUIRED"))
    BY DEF MarkRecovery
  <1>2. /\ x \in Intents /\ x.kind = Op.kind /\ x.of = Op.of /\ x.bootId = Op.bootId
        /\ x.plan = Op.plan /\ x.outcome = "recovery-required" /\ x.phase = Op.phase
        /\ x.attempt = Op.attempt
    BY AtWork DEF Intents, Outcomes
  <1> HIDE DEF x
  <1>3. Fits(Op, x)
    BY <1>2, AtWork, PlannedFits
  <1>4. worker.op \in flight => x.attempt \in SentAttempts /\ x.outcome \in Open
    BY <1>2, FitsItself DEF Open
  <1>5. "RECOVERY_REQUIRED" \in States
    BY DEF States
  <1>6. Synced => EndsAgree(x) /\ ~ (Op.kind \in Recoveries /\ x.outcome = "succeeded")
    BY <1>2, AtWork DEF EndsAgree, Open
  <1> QED BY <1>1, <1>3, <1>4, <1>5, <1>6, ConcludeLast

\* The recovery mark after an unknown outcome.
LEMMA MarkUnknownOK ==
    ASSUME ManagerInv, MarkUnknown
    PROVE  ManagerInv'
  BY MarkRecoveryOK DEF MarkUnknown

\* An operation that was not carried out ends as failed.
LEMMA FailedLastOK ==
    ASSUME ManagerInv, worker # NoWorker, worker.at \in {"settle", "classify"},
           NEW st \in States,
           JournalLast(Conclude([Op EXCEPT !.outcome = "failed", !.phase = "terminal"], st)),
           UNCHANGED <<host, boot, dead>>
    PROVE  ManagerInv'
  <1> DEFINE x == [Op EXCEPT !.outcome = "failed", !.phase = "terminal"]
  <1>1. JournalLast(Conclude(x, st))
    OBVIOUS
  <1>2. /\ x \in Intents /\ x.kind = Op.kind /\ x.of = Op.of /\ x.bootId = Op.bootId
        /\ x.plan = Op.plan /\ x.outcome = "failed" /\ x.phase = "terminal"
    BY AtWork DEF Intents, Outcomes, Phases
  <1> HIDE DEF x
  <1>3. Fits(Op, x)
    BY <1>2, AtWork, PlannedFits
  <1>4. worker.op \notin flight
    BY FitsItself
  <1>5. EndsAgree(x) /\ x.outcome # "succeeded"
    BY <1>2 DEF EndsAgree, Open
  <1> QED BY <1>1, <1>3, <1>4, <1>5, ConcludeLast

\* settleAfterPatch goes on, fails, or asks for recovery.
LEMMA SettleStepOK ==
    ASSUME ManagerInv, Settle
    PROVE  ManagerInv'
  <1> DEFINE failed == Conclude([Op EXCEPT !.outcome = "failed", !.phase = "terminal"],
                                Op.priorState)
  <1>1. /\ worker # NoWorker /\ worker.at = "settle" /\ UNCHANGED <<host, boot, dead>>
        /\ \/ Goto("verify") \/ Goto("fail") \/ JournalLast(failed)
           \/ JournalLast(MarkRecovery)
    BY DEF Settle
  <1>2. /\ "verify" \in Steps /\ "fail" \in Steps
        /\ Stage(Op, receipt.binding, "verify") /\ Stage(Op, receipt.binding, "fail")
        /\ worker.op \notin flight
    BY <1>1, AtWork, FitsItself DEF Stage, Steps
  <1>3. CASE Goto("verify")
    BY <1>1, <1>2, <1>3, GotoStep
  <1>4. CASE Goto("fail")
    BY <1>1, <1>2, <1>4, GotoStep
  <1>5. CASE JournalLast(failed)
    BY <1>1, <1>5, AtWork, FailedLastOK
  <1>6. CASE JournalLast(MarkRecovery)
    BY <1>1, <1>6, MarkRecoveryOK
  <1> QED BY <1>1, <1>3, <1>4, <1>5, <1>6

\* The attempt is journalled before the host sees the patch; a write that
\* fails sends nothing, and none of the chain is in flight.
LEMMA DispatchOK ==
    ASSUME ManagerInv, worker # NoWorker, worker.at \in {"recheck", "guard"}, Dispatch
    PROVE  ManagerInv'
  <1> DEFINE x == [Op EXCEPT !.phase = "patch-dispatched", !.attempt = "pending"]
             new == Amend(x)
  <1>1. /\ x \in Intents /\ x.kind = Op.kind /\ x.of = Op.of /\ x.bootId = Op.bootId
        /\ x.plan = Op.plan /\ x.outcome = "pending" /\ x.phase = "patch-dispatched"
        /\ x.attempt = "pending"
    BY AtWork DEF Intents, Attempts, Phases
  <1>2. /\ disk' = disk /\ live' = live /\ boot' = boot /\ dead' = dead
        /\ \/ /\ Journal(new, [worker EXCEPT !.at = "await"])
              /\ flight' = IF worker'.at = "await" THEN flight \cup {worker.op} ELSE flight
           \/ /\ Journal(new, [worker EXCEPT !.at = "threw"])
              /\ flight' = flight
    BY DEF Dispatch
  <1> HIDE DEF x, new
  <1>3. Fits(Op, x)
    BY <1>1, AtWork, PlannedFits
  <1>4. EndsAgree(x) /\ x.attempt \in SentAttempts /\ x.outcome \in Open
    BY <1>1 DEF EndsAgree, Open, SentAttempts
  <1>5. CASE Journal(new, [worker EXCEPT !.at = "threw"]) /\ flight' = flight
    <2>1. "threw" \in Steps /\ Stage(x, receipt.binding, "threw") /\ worker.op \notin flight
      BY <1>1, AtWork, FitsItself DEF Stage, Steps
    <2>2. Journal(Amend(x), [worker EXCEPT !.at = "threw"])
      BY <1>5 DEF new
    <2>3. UNCHANGED <<host, boot, dead>>
      BY <1>2, <1>5 DEF host
    <2>4. Synced => EndsAgree(x) /\ x.outcome = "pending"
      BY <1>1, <1>4
    <2> QED BY <1>3, <2>1, <2>2, <2>3, <2>4, AmendWrite
  <1>6. CASE /\ Journal(new, [worker EXCEPT !.at = "await"])
             /\ flight' = IF worker'.at = "await" THEN flight \cup {worker.op} ELSE flight
    <2> DEFINE next == [worker EXCEPT !.at = "await"]
               failing == [worker EXCEPT !.at = "fail"]
    <2>1. /\ next \in Workers /\ next.op = worker.op /\ next.at = "await"
          /\ failing \in Workers /\ failing.op = worker.op /\ failing.at = "fail"
      BY NextWorker DEF Steps
    <2>2. faults \in Faults /\ receipt \in Receipts /\ ops \in Seq(Intents)
      BY DEF ManagerInv, Plain, Faults, Receipts, ops
    <2> HIDE DEF next, failing
    <2>3. Journal(new, next)
      BY <1>6 DEF next
    <2>4. /\ faults' \in Faults /\ (Synced' => Synced)
          /\ \/ receipt' = new /\ worker' = next
             \/ receipt' = receipt /\ worker' = failing
             \/ receipt' = new /\ worker' = failing /\ ~Synced'
      BY <2>2, <2>3, JournalCases DEF failing
    <2>5. new = Receipt3(receipt.state, receipt.binding, Edit(ops, worker.op, x))
      BY <2>2, AmendIs DEF new
    <2>6. worker.op \in DOMAIN ops /\ Op = ops[worker.op] /\ worker.op \notin flight
      BY FitsItself
    <2>7. /\ Edit(ops, worker.op, x) \in Seq(Intents)
          /\ DOMAIN Edit(ops, worker.op, x) = DOMAIN ops
          /\ Amends(ops, Edit(ops, worker.op, x), worker.op)
          /\ Edit(ops, worker.op, x)[worker.op] = x
      BY <1>1, <2>2, <2>6, EditAmends
    <2>8. new \in Receipts /\ new.operations = Edit(ops, worker.op, x)
             /\ new.binding = receipt.binding
      BY <2>2, <2>5, <2>7 DEF Receipt3, Receipts
    <2>9. CASE receipt' = new /\ worker' = next
      <3>1. flight' = flight \cup {worker.op} /\ worker' # NoWorker
        BY <1>6, <2>1, <2>9 DEF NoWorker
      <3>2. ops' = Edit(ops, worker.op, x)
        BY <2>8, <2>9 DEF ops
      <3>3. Plain'
        BY <1>2, <2>1, <2>4, <2>7, <2>8, <2>9, <3>2 DEF ManagerInv, Plain, Faults
      <3>4. Amends(ops, ops', worker.op) /\ ops'[worker.op] = x
        BY <2>7, <3>2
      <3>5. Stage(x, receipt'.binding, worker'.at) /\ worker'.op = worker.op
               /\ worker'.at = "await"
        BY <1>1, <2>1, <2>9, AtWork DEF Stage, Steps
      <3>6. Op.kind # "inspect"
        BY AtWork
      <3>7. boot' = boot /\ (Synced' => Synced)
        BY <1>2, <2>4
      <3> QED BY <1>1, <1>3, <1>4, <3>1, <3>3, <3>4, <3>5, <3>6, <3>7, AmendStep
    <2>10. CASE receipt' = receipt /\ worker' = failing
      <3>1. flight' = flight
        BY <1>6, <2>1, <2>10
      <3>2. UNCHANGED <<host, boot, dead>>
        BY <1>2, <3>1 DEF host
      <3>3. ops' = ops
        BY <2>10 DEF ops
      <3>4. Plain'
        BY <1>2, <2>1, <2>4, <2>10, <3>3 DEF ManagerInv, Plain, Faults
      <3>5. Amends(ops, ops', worker.op) /\ ops'[worker.op] = Op
        BY <2>6, <3>3 DEF Amends
      <3>6. Stage(Op, receipt'.binding, worker'.at) /\ worker'.op = worker.op
               /\ worker'.at = "fail"
        BY <2>1, <2>10 DEF Stage, Steps
      <3>7. boot' = boot /\ (Synced' => Synced)
        BY <1>2, <2>4
      <3> QED BY <2>6, <3>1, <3>4, <3>5, <3>6, <3>7, FitsItself, AmendStep
    <2>11. CASE receipt' = new /\ worker' = failing /\ ~Synced'
      <3>1. flight' = flight
        BY <1>6, <2>1, <2>11
      <3>2. ops' = Edit(ops, worker.op, x)
        BY <2>8, <2>11 DEF ops
      <3>3. Plain'
        BY <1>2, <2>1, <2>4, <2>7, <2>8, <2>11, <3>2 DEF ManagerInv, Plain, Faults
      <3>4. Amends(ops, ops', worker.op) /\ ops'[worker.op] = x
        BY <2>7, <3>2
      <3>5. Stage(x, receipt'.binding, worker'.at) /\ worker'.op = worker.op
               /\ worker'.at = "fail"
        BY <2>1, <2>11 DEF Stage, Steps
      <3>6. boot' = boot
        BY <1>2
      <3> QED BY <1>3, <2>6, <2>11, <3>1, <3>3, <3>4, <3>5, <3>6, AmendStep
    <2> QED BY <2>4, <2>9, <2>10, <2>11
  <1> QED BY <1>2, <1>5, <1>6

-----------------------------------------------------------------------------
(* Activation and deactivation *)

\* assertPlanCurrent, and the one patch of the worker.
LEMMA RecheckOK ==
    ASSUME ManagerInv, Recheck
    PROVE  ManagerInv'
  <1>1. /\ worker # NoWorker /\ worker.at = "recheck"
        /\ \/ Goto("verify") /\ UNCHANGED <<host, boot, dead>>
           \/ Dispatch
           \/ Goto("fail") /\ UNCHANGED <<host, boot, dead>>
    BY DEF Recheck, Worker
  <1>2. /\ "verify" \in Steps /\ "fail" \in Steps
        /\ Stage(Op, receipt.binding, "verify") /\ Stage(Op, receipt.binding, "fail")
        /\ worker.op \notin flight
    BY <1>1, AtWork, FitsItself DEF Stage, Steps
  <1>3. CASE Dispatch
    BY <1>1, <1>3, DispatchOK
  <1>4. CASE Goto("verify") /\ UNCHANGED <<host, boot, dead>>
    BY <1>1, <1>2, <1>4, GotoStep
  <1>5. CASE Goto("fail") /\ UNCHANGED <<host, boot, dead>>
    BY <1>1, <1>2, <1>5, GotoStep
  <1> QED BY <1>1, <1>3, <1>4, <1>5

\* Assets are reused, or made and journalled.
LEMMA PrepareOK ==
    ASSUME ManagerInv, Prepare
    PROVE  ManagerInv'
  <1> DEFINE x == [Op EXCEPT !.phase = "materialized"]
  <1>1. /\ worker # NoWorker /\ worker.at = "start" /\ UNCHANGED <<host, boot, dead>>
        /\ \/ receipt.binding # Absent /\ Goto("read")
           \/ Op.kind = "activate" /\ Journal(Amend(x), [worker EXCEPT !.at = "read"])
    BY DEF Prepare, Worker
  <1>2. /\ Op \in Intents /\ OpOK(Op) /\ Op.outcome = "pending" /\ worker.op \notin flight
        /\ "read" \in Steps
    BY <1>1, FitsItself DEF Stage, OpOK, Steps
  <1>3. CASE receipt.binding # Absent /\ Goto("read")
    <2>1. Stage(Op, receipt.binding, "read")
      BY <1>2, <1>3 DEF Stage
    <2> QED BY <1>1, <1>2, <1>3, <2>1, GotoStep
  <1>4. CASE Op.kind = "activate" /\ Journal(Amend(x), [worker EXCEPT !.at = "read"])
    <2>1. /\ x \in Intents /\ x.kind = Op.kind /\ x.of = Op.of /\ x.bootId = Op.bootId
          /\ x.plan = Op.plan /\ x.outcome = "pending" /\ x.phase = "materialized"
          /\ x.attempt = Op.attempt
      BY <1>2 DEF Intents, Phases
    <2>2. Journal(Amend(x), [worker EXCEPT !.at = "read"])
      BY <1>4
    <2> HIDE DEF x
    <2>3. Fits(Op, x)
      BY <1>2, <2>1 DEF Fits, OpOK, OpRefined
    <2>4. Stage(x, receipt.binding, "read") /\ EndsAgree(x)
      BY <1>4, <1>2, <2>1 DEF Stage, EndsAgree, Open
    <2> QED BY <1>1, <1>2, <2>1, <2>2, <2>3, <2>4, AmendWrite
  <1> QED BY <1>1, <1>3, <1>4

\* The worker remembers what it read.
LEMMA ReadRawOK ==
    ASSUME ManagerInv, ReadRaw
    PROVE  ManagerInv'
  <1>1. /\ worker # NoWorker /\ worker.at = "read" /\ UNCHANGED <<host, boot, dead>>
        /\ receipt' = receipt /\ faults' = faults
        /\ worker' = [worker EXCEPT !.at = "plan", !.disk = disk]
    BY DEF ReadRaw, Worker
  <1>2. worker' \in Workers /\ worker'.op = worker.op /\ worker'.at = "plan"
    BY <1>1 DEF ManagerInv, Plain, Workers, Steps
  <1>3. Stage(Op, receipt.binding, "plan") /\ worker.op \notin flight
    BY <1>1, FitsItself DEF Stage, Steps
  <1> QED BY <1>1, <1>2, <1>3, QuietStep

\* The plan of an activation leads somewhere, and that of a deactivation
\* replaces the binding: neither is empty.
LEMMA PlanOK ==
    ASSUME ManagerInv, Plan
    PROVE  ManagerInv'
  <1>1. PICK after \in IF Op.kind = "activate" THEN Shapes ELSE {Absent} :
          LET x == [Op EXCEPT !.phase = "prepared",
                              !.plan = [before |-> worker.disk, after |-> after,
                                        previousBinding |-> receipt.binding]]
          IN  \/ Journal(Amend(x), [worker EXCEPT !.at = "recheck", !.live = live])
              \/ Goto("fail")
    BY DEF Plan
  <1>2. /\ worker # NoWorker /\ worker.at = "plan" /\ UNCHANGED <<host, boot, dead>>
        /\ Op.kind \in Mutations
    BY DEF Plan, Worker
  <1> DEFINE plan == [before |-> worker.disk, after |-> after,
                      previousBinding |-> receipt.binding]
             x == [Op EXCEPT !.phase = "prepared", !.plan = plan]
             next == [worker EXCEPT !.at = "recheck", !.live = live]
  <1>3. /\ Op \in Intents /\ OpOK(Op) /\ Op.outcome = "pending" /\ worker.op \notin flight
        /\ Op.kind = "deactivate" => receipt.binding # Absent
    BY <1>2, FitsItself DEF Stage, OpOK
  <1>4. CASE Goto("fail")
    <2>1. "fail" \in Steps /\ Stage(Op, receipt.binding, "fail")
      BY DEF Stage, Steps
    <2> QED BY <1>2, <1>4, <2>1, GotoStep
  <1>5. CASE Journal(Amend(x), next)
    <2>1. after \in Projections /\ (after = Absent => Op.kind = "deactivate")
      BY <1>2, ManagerAssumption DEF Projections, Shapes, Absent, Mutations
    <2>2. worker \in Workers /\ receipt \in Receipts /\ live \in Projections
      BY DEF ManagerInv, Plain
    <2>3. plan \in Plans /\ plan.after = after /\ plan.previousBinding = receipt.binding
      BY <2>1, <2>2 DEF Plans, Workers, Receipts
    <2>4. plan # NoPlan
      <3> HIDE DEF plan
      <3> QED BY <1>3, <2>1, <2>3 DEF NoPlan
    <2> HIDE DEF plan
    <2>5. /\ x \in Intents /\ x.kind = Op.kind /\ x.of = Op.of /\ x.bootId = Op.bootId
          /\ x.plan = plan /\ x.outcome = "pending" /\ x.phase = "prepared"
      BY <1>3, <2>3 DEF Intents, Phases
    <2>6. next \in Workers /\ next.op = worker.op /\ next.at = "recheck"
      BY <2>2 DEF Workers, Steps
    <2> HIDE DEF x, next
    <2>7. Op.kind # "inspect"
      BY <1>2 DEF Mutations
    <2>8. Fits(Op, x)
      BY <1>3, <2>4, <2>5, <2>7 DEF Fits, OpOK, OpRefined
    <2>9. Stage(x, receipt.binding, next.at) /\ EndsAgree(x)
      BY <2>4, <2>5, <2>6, <2>7 DEF Stage, EndsAgree, Open, Steps
    <2>10. receipt.state \in States /\ receipt.binding \in Projections
      BY <2>2 DEF Receipts
    <2>11. Journal(Receipt3(receipt.state, receipt.binding, Edit(ops, worker.op, x)), next)
      BY <1>5, <2>2, AmendIs
    <2> QED BY <1>2, <1>3, <2>5, <2>6, <2>8, <2>9, <2>10, <2>11, WriteStep
  <1> QED BY <1>1, <1>4, <1>5

\* The verified phase, of an operation that has a plan.
LEMMA VerifyOK ==
    ASSUME ManagerInv, Verify
    PROVE  ManagerInv'
  <1> DEFINE x == [Op EXCEPT !.phase = "verified"]
  <1>1. /\ worker # NoWorker /\ worker.at = "verify" /\ UNCHANGED <<host, boot, dead>>
        /\ Journal(Amend(x), [worker EXCEPT !.at = "commit"])
    BY DEF Verify, Worker
  <1>2. /\ x \in Intents /\ x.kind = Op.kind /\ x.of = Op.of /\ x.bootId = Op.bootId
        /\ x.plan = Op.plan /\ x.outcome = "pending" /\ x.phase = "verified"
    BY <1>1, AtWork DEF Intents, Phases
  <1> HIDE DEF x
  <1>3. Fits(Op, x)
    BY <1>1, <1>2, AtWork, PlannedFits
  <1>4. /\ "commit" \in Steps /\ Stage(x, receipt.binding, "commit") /\ EndsAgree(x)
        /\ worker.op \notin flight
    BY <1>1, <1>2, AtWork, FitsItself DEF Stage, Steps, EndsAgree, Open
  <1> QED BY <1>1, <1>2, <1>3, <1>4, AmendWrite

\* The binding, the state and the outcome in one write.
LEMMA CommitOK ==
    ASSUME ManagerInv, Commit
    PROVE  ManagerInv'
  <1> DEFINE target == Op.plan.after
             noop   == Op.attempt = "none" /\ (Op.kind = "activate" => receipt.binding = target)
             end    == IF noop THEN "no-op" ELSE "succeeded"
             x      == [Op EXCEPT !.phase = "terminal", !.outcome = end]
             st     == IF target # Absent THEN "ACTIVE" ELSE "INACTIVE"
  <1>1. /\ worker # NoWorker /\ worker.at = "commit" /\ UNCHANGED <<host, boot, dead>>
        /\ Op.kind \in Mutations
        /\ JournalLast([Conclude(x, st) EXCEPT !.binding = target])
    BY DEF Commit, Worker
  <1>2. end \in {"no-op", "succeeded"} /\ st \in States
    BY DEF States
  <1>3. target \in Projections
    BY <1>1, AtWork DEF Intents, Plans
  <1> HIDE DEF end, st, target
  <1>4. /\ x \in Intents /\ x.kind = Op.kind /\ x.of = Op.of /\ x.bootId = Op.bootId
        /\ x.plan = Op.plan /\ x.outcome = end /\ x.phase = "terminal"
    BY <1>1, <1>2, AtWork DEF Intents, Phases, Outcomes
  <1> HIDE DEF x
  <1>5. Fits(Op, x)
    BY <1>1, <1>2, <1>4, AtWork, PlannedFits
  <1>6. /\ worker.op \notin flight /\ EndsAgree(x) /\ Op.kind \notin Recoveries
    BY <1>1, <1>2, <1>4, FitsItself DEF EndsAgree, Open, Mutations, Recoveries
  <1>7. receipt \in Receipts
    BY DEF ManagerInv, Plain
  <1>8. [Conclude(x, st) EXCEPT !.binding = target]
           = Receipt3(st, target, Edit(ops, worker.op, x))
    <2>1. Conclude(x, st) = Receipt3(st, receipt.binding, Edit(ops, worker.op, x))
      BY <1>7, AmendIs
    <2> QED BY <2>1 DEF Receipt3
  <1>9. NoWorker \in Workers
    BY DEF NoWorker, Workers, Steps, Projections
  <1> QED BY <1>1, <1>2, <1>3, <1>5, <1>6, <1>8, <1>9, WriteStep DEF JournalLast

-----------------------------------------------------------------------------
(* Recovery *)

\* A recovery remembers what it read.
LEMMA ReadForRecoveryOK ==
    ASSUME ManagerInv, ReadForRecovery
    PROVE  ManagerInv'
  <1>1. /\ worker # NoWorker /\ worker.at = "start" /\ UNCHANGED <<host, boot, dead>>
        /\ receipt' = receipt /\ faults' = faults /\ Op.kind \in Recoveries
        /\ worker' = [worker EXCEPT !.at = "classify", !.disk = disk]
    BY DEF ReadForRecovery, Worker
  <1>2. worker' \in Workers /\ worker'.op = worker.op /\ worker'.at = "classify"
    BY <1>1 DEF ManagerInv, Plain, Workers, Steps
  <1>3. Stage(Op, receipt.binding, "classify") /\ worker.op \notin flight
    BY <1>1, FitsItself DEF Stage, Steps, OpOK
  <1> QED BY <1>1, <1>2, <1>3, QuietStep

\* A recovery goes on, sends its patch, or fails.
LEMMA ClassifyOK ==
    ASSUME ManagerInv, Classify
    PROVE  ManagerInv'
  <1> DEFINE failed == Conclude([Op EXCEPT !.outcome = "failed", !.phase = "terminal"],
                                "RECOVERY_REQUIRED")
  <1>1. /\ worker # NoWorker /\ worker.at = "classify" /\ UNCHANGED <<host, boot, dead>>
        /\ JournalLast(failed) \/ Goto("verify") \/ Goto("guard")
    BY DEF Classify, Worker
  <1>2. /\ "verify" \in Steps /\ "guard" \in Steps /\ "RECOVERY_REQUIRED" \in States
        /\ Stage(Op, receipt.binding, "verify") /\ Stage(Op, receipt.binding, "guard")
        /\ worker.op \notin flight
    BY <1>1, AtWork, FitsItself DEF Stage, Steps, States
  <1>3. CASE Goto("verify")
    BY <1>1, <1>2, <1>3, GotoStep
  <1>4. CASE Goto("guard")
    BY <1>1, <1>2, <1>4, GotoStep
  <1>5. CASE JournalLast(failed)
    BY <1>1, <1>2, <1>5, FailedLastOK
  <1> QED BY <1>1, <1>3, <1>4, <1>5

\* The patch of a recovery; the gate that admitted it still holds.
LEMMA RedispatchOK ==
    ASSUME ManagerInv, Redispatch
    PROVE  ManagerInv'
  BY DispatchOK DEF Redispatch, Worker

\* A recovery that was verified only moves on.
LEMMA VerifyRecoveredOK ==
    ASSUME ManagerInv, VerifyRecovered
    PROVE  ManagerInv'
  <1>1. /\ worker # NoWorker /\ worker.at = "verify" /\ UNCHANGED <<host, boot, dead>>
        /\ Goto("commit")
    BY DEF VerifyRecovered, Worker
  <1>2. /\ "commit" \in Steps /\ Stage(Op, receipt.binding, "commit")
        /\ worker.op \notin flight
    BY <1>1, AtWork, FitsItself DEF Stage, Steps
  <1> QED BY <1>1, <1>2, GotoStep

\* A write that failed before its rename.
LEMMA FailStep ==
    ASSUME ManagerInv, worker # NoWorker, receipt' = receipt,
           worker' = [worker EXCEPT !.at = "fail"], faults' \in Faults,
           Synced' => Synced, UNCHANGED <<host, boot, dead>>
    PROVE  ManagerInv'
  <1>1. ops' = ops
    BY DEF ops
  <1>2. worker' \in Workers /\ worker'.op = worker.op /\ worker'.at = "fail"
    BY NextWorker DEF Steps
  <1>3. Plain'
    BY <1>1, <1>2 DEF ManagerInv, Plain, Faults, host
  <1>4. Amends(ops, ops', worker.op) /\ ops'[worker.op] = Op
    BY <1>1, FitsItself DEF Amends
  <1>5. Stage(Op, receipt'.binding, worker'.at)
    BY <1>2 DEF Stage, Steps
  <1>6. boot' = boot /\ flight' = flight
    BY DEF host
  <1> QED BY <1>2, <1>3, <1>4, <1>5, <1>6, FitsItself, AmendStep

\* What Finalize makes of the journal: w is done, and of the chain it
\* recovered everything that was not ended is.
Finalized(o, p, w) ==
    /\ DOMAIN p = DOMAIN o
    /\ p[w].outcome = "succeeded"
    /\ \A j \in DOMAIN o :
          /\ OpOK(p[j])
          /\ p[j].kind = o[j].kind /\ p[j].of = o[j].of /\ p[j].bootId = o[j].bootId
          /\ p[j].plan = o[j].plan /\ p[j].priorState = o[j].priorState
    /\ \A j \in DOMAIN o \ {w} :
          \/ p[j] = o[j] /\ (j \in Chain(o, o[w].of) => o[j].phase = "terminal")
          \/ /\ j \in Chain(o, o[w].of) /\ o[j].phase # "terminal"
             /\ p[j].outcome \in {"succeeded", "failed"} /\ p[j].phase = "terminal"
    /\ EndsAgree(p[w])

\* settleChain ends the open operations of the chain and no other.
LEMMA SettleChainFinalizes ==
    ASSUME NEW o \in Seq(Intents), JournalOK(o), NEW w \in DOMAIN o,
           o[w].kind \in Recoveries, NEW target
    PROVE  LET done == [o[w] EXCEPT !.phase = "terminal", !.outcome = "succeeded"]
               p    == [SettleChain(o, o[w].of, target) EXCEPT ![w] = done]
           IN  p \in Seq(Intents) /\ Finalized(o, p, w)
  <1> DEFINE done == [o[w] EXCEPT !.phase = "terminal", !.outcome = "succeeded"]
             s == SettleChain(o, o[w].of, target)
             p == [s EXCEPT ![w] = done]
             C == Chain(o, o[w].of)
  <1>1. o[w].of \in DOMAIN o /\ o[o[w].of].plan # NoPlan /\ o[w].plan # NoPlan
    BY OfInside DEF JournalOK, OpOK
  <1>2. \A j \in C : o[j].plan # NoPlan /\ j \in DOMAIN o
    BY <1>1, ChainPlanned, ChainDomain
  <1>3. \A j \in DOMAIN o : o[j] \in Intents /\ OpOK(o[j])
    BY DEF JournalOK
  <1>4. DOMAIN s = DOMAIN o
    BY DEF SettleChain
  <1>5. \A j \in DOMAIN o : ~(j \in C /\ o[j].phase # "terminal") => s[j] = o[j]
    BY DEF SettleChain
  <1>6. \A j \in DOMAIN o : j \in C /\ o[j].phase # "terminal" =>
           \E e \in {"succeeded", "failed"} :
              s[j] = [o[j] EXCEPT !.phase = "terminal", !.outcome = e]
    BY DEF SettleChain
  <1> HIDE DEF s, C
  <1>7. ASSUME NEW j \in DOMAIN o, j \in C, o[j].phase # "terminal"
        PROVE  /\ s[j] \in Intents
               /\ s[j].kind = o[j].kind /\ s[j].of = o[j].of /\ s[j].bootId = o[j].bootId
               /\ s[j].plan = o[j].plan /\ s[j].attempt = o[j].attempt
               /\ s[j].priorState = o[j].priorState
               /\ s[j].phase = "terminal" /\ s[j].outcome \in {"succeeded", "failed"}
    <2>1. PICK e \in {"succeeded", "failed"} :
             s[j] = [o[j] EXCEPT !.phase = "terminal", !.outcome = e]
      BY <1>6, <1>7
    <2> QED BY <1>3, <2>1 DEF Intents, Phases, Outcomes
  <1>8. \A j \in DOMAIN o : j \in C /\ o[j].phase # "terminal" => OpOK(s[j])
    BY <1>2, <1>3, <1>7 DEF OpOK, OpRefined
  <1>9. /\ done \in Intents /\ done.kind = o[w].kind /\ done.of = o[w].of
        /\ done.bootId = o[w].bootId /\ done.plan = o[w].plan
        /\ done.attempt = o[w].attempt /\ done.phase = "terminal" /\ done.outcome = "succeeded"
        /\ done.priorState = o[w].priorState
    BY <1>3 DEF Intents, Phases, Outcomes
  <1>10. OpOK(done) /\ EndsAgree(done)
    BY <1>1, <1>3, <1>9 DEF OpOK, OpRefined, EndsAgree, Open
  <1> HIDE DEF done
  <1>11. DOMAIN p = DOMAIN o /\ p[w] = done /\ \A j \in DOMAIN o \ {w} : p[j] = s[j]
    BY <1>4
  <1>12. p \in Seq(Intents)
    <2>1. s \in Seq(Intents)
      <3>1. \A j \in DOMAIN o : s[j] \in Intents
        BY <1>3, <1>5, <1>7
      <3>2. s = [j \in DOMAIN o |-> s[j]]
        BY DEF s, SettleChain
      <3>3. DOMAIN o = 1..Len(o) /\ Len(o) \in Nat
        OBVIOUS
      <3> QED BY <3>1, <3>2, <3>3, <1>4
    <2>2. p = Edit(s, w, done) /\ w \in DOMAIN s
      BY <1>4 DEF Edit
    <2> HIDE DEF p
    <2> QED BY <2>1, <2>2, <1>9, EditAmends
  <1> HIDE DEF p
  <1>13. Finalized(o, p, w)
    BY <1>3, <1>5, <1>7, <1>8, <1>9, <1>10, <1>11 DEF Finalized, C
  <1> QED BY <1>12, <1>13 DEF p, done, s

\* It leaves a journal.
LEMMA FinalizedJournal ==
    ASSUME NEW o, JournalOK(o), NEW p, NEW w \in DOMAIN o, Finalized(o, p, w)
    PROVE  JournalOK(p) /\ Kept(o, p)
  <1>1. Kept(o, p)
    BY DEF Kept, Finalized
  <1>2. \A i \in DOMAIN p : p[i].kind \in Recoveries => p[p[i].of].plan # NoPlan
    <2> SUFFICES ASSUME NEW i \in DOMAIN p, p[i].kind \in Recoveries
                 PROVE  p[p[i].of].plan # NoPlan
      OBVIOUS
    <2>1. i \in DOMAIN o /\ o[i].kind \in Recoveries /\ p[i].of = o[i].of
      BY DEF Finalized
    <2>2. o[o[i].of].plan # NoPlan /\ o[i].of \in DOMAIN o
      BY <2>1, OfInside DEF JournalOK, OpOK
    <2> QED BY <2>1, <2>2 DEF Finalized
  <1>3. \A i \in DOMAIN p : p[i].outcome = "pending" => o[i].outcome = "pending"
    BY DEF Finalized
  <1>4. Backward(p) /\ (\A i \in DOMAIN p : OpOK(p[i])) /\ DOMAIN p = DOMAIN o
    BY DEF Finalized, JournalOK, Backward
  <1>5. \A i, j \in DOMAIN p :
           p[i].outcome = "pending" /\ p[j].outcome = "pending" => i = j
    BY <1>3, <1>4 DEF JournalOK
  <1> QED BY <1>1, <1>2, <1>4, <1>5 DEF JournalOK

\* It leaves nothing of the chain open, so the recovery may succeed.
LEMMA FinalizedSettled ==
    ASSUME NEW o, JournalOK(o), SettledOK(o), NEW p, NEW w \in DOMAIN o,
           o[w].kind \in Recoveries, Finalized(o, p, w)
    PROVE  SettledOK(p)
  <1> DEFINE C == Chain(o, o[w].of)
  <1>0. o[w].of \in DOMAIN o /\ o[w].of # 0 /\ w \in DOMAIN o
           /\ \A k \in DOMAIN o : o[k].of # 0 => o[k].of \in DOMAIN o
    BY OfInside DEF JournalOK, OpOK
  <1>1. Kept(o, p) /\ DOMAIN p = DOMAIN o
    BY FinalizedJournal DEF Finalized
  <1>2. \A i : Chain(p, i) = Chain(o, i)
    BY <1>1, KeptChains
  <1>3. \A j \in DOMAIN o : EndsAgree(p[j])
    <2> SUFFICES ASSUME NEW j \in DOMAIN o PROVE EndsAgree(p[j])
      OBVIOUS
    <2>1. CASE j = w
      BY <2>1 DEF Finalized
    <2>2. CASE j # w /\ p[j] = o[j]
      BY <2>2 DEF SettledOK
    <2>3. CASE p[j].outcome \in {"succeeded", "failed"} /\ p[j].phase = "terminal"
      BY <2>3 DEF EndsAgree, Open
    <2> QED BY <2>1, <2>2, <2>3 DEF Finalized
  <1>4. \A j \in DOMAIN o : j = w \/ p[j] = o[j] \/ p[j].outcome \in {"succeeded", "failed"}
    BY DEF Finalized
  <1>5. ASSUME NEW i \in DOMAIN p, p[i].kind \in Recoveries
        PROVE  p[p[i].of].outcome \in {"recovery-required", "succeeded", "failed"}
    <2>1. i \in DOMAIN o /\ o[i].kind \in Recoveries /\ p[i].of = o[i].of
      BY <1>5, <1>1 DEF Kept
    <2>2. o[o[i].of].outcome \in {"recovery-required", "succeeded", "failed"}
             /\ o[i].of \in DOMAIN o
      BY <2>1, OfInside DEF SettledOK, JournalOK, OpOK
    <2>3. p[w].outcome = "succeeded"
      BY DEF Finalized
    <2> QED BY <1>4, <2>1, <2>2, <2>3
  <1>6. \A j \in C : p[j].outcome \in {"succeeded", "failed"}
    <2> SUFFICES ASSUME NEW j \in C PROVE p[j].outcome \in {"succeeded", "failed"}
      OBVIOUS
    <2>1. j \in DOMAIN o /\ o[j].outcome # "no-op" /\ o[j] \in Intents /\ EndsAgree(o[j])
      BY ChainNoNoop, ChainDomain DEF JournalOK, OpOK, SettledOK
    <2>2. o[j].phase = "terminal" => o[j].outcome \in {"succeeded", "failed"}
      BY <2>1 DEF EndsAgree, Open, Intents, Outcomes
    <2> QED BY <2>1, <2>2 DEF Finalized
  <1>7. Chain(o, w) = {w} \cup C
    BY <1>0, ChainStep
  <1>8. ASSUME NEW i \in DOMAIN p, p[i].kind \in Recoveries, p[i].outcome = "succeeded",
               NEW j \in Chain(p, i)
        PROVE  p[j].outcome \in {"succeeded", "failed"}
    <2>1. i \in DOMAIN o /\ o[i].kind \in Recoveries /\ j \in Chain(o, i) /\ j \in DOMAIN o
      BY <1>1, <1>2, <1>8, ChainDomain DEF Kept
    <2>2. p[w].outcome = "succeeded"
      BY DEF Finalized
    <2>3. CASE i \in Chain(o, w)
      <3>1. Chain(o, i) \subseteq Chain(o, w)
        BY <1>0, <2>3, ChainNested
      <3> QED BY <3>1, <2>1, <2>2, <1>6, <1>7
    <2>4. CASE i \notin Chain(o, w)
      <3>1. i # w /\ i \notin C
        BY <2>4, <1>7
      <3>2. p[i] = o[i]
        BY <3>1, <2>1 DEF Finalized
      <3>3. o[j].outcome \in {"succeeded", "failed"}
        BY <3>2, <2>1, <1>8 DEF SettledOK
      <3> QED BY <3>3, <2>1, <2>2, <1>4
    <2> QED BY <2>3, <2>4
  <1> QED BY <1>1, <1>3, <1>5, <1>8 DEF SettledOK

\* finalizeIntended and finalizePrevious: no patch of the chain is in flight
\* when they settle it.
LEMMA FinalizeOK ==
    ASSUME ManagerInv, Finalize
    PROVE  ManagerInv'
  <1> DEFINE w       == worker.op
             target  == ChainTarget(ops, w)
             binding == BindingReached(ops, w)
             done    == [Op EXCEPT !.phase = "terminal", !.outcome = "succeeded"]
             p       == [SettleChain(ops, Op.of, target) EXCEPT ![w] = done]
             st      == IF binding # Absent THEN "ACTIVE" ELSE "INACTIVE"
             new     == Receipt3(st, binding, p)
             failing == [worker EXCEPT !.at = "fail"]
  <1>1. /\ worker # NoWorker /\ worker.at = "commit" /\ Op.kind \in Recoveries
        /\ UNCHANGED <<host, boot, dead>>
        /\ JournalLast(new)
    BY DEF Finalize, Worker, Receipt3
  <1>2. w \in DOMAIN ops /\ Op = ops[w] /\ w \notin flight /\ Op \in Intents
    BY <1>1, FitsItself DEF OpOK
  <1>3. /\ receipt \in Receipts /\ ops \in Seq(Intents) /\ faults \in Faults /\ JournalOK(ops)
    BY DEF ManagerInv, Plain, Receipts, ops, Faults
  <1>4. st \in States
    BY DEF States
  <1>5. binding \in Projections
    BY <1>2 DEF BindingReached, Intents, Plans
  <1>6. p \in Seq(Intents) /\ Finalized(ops, p, w)
    BY <1>1, <1>2, <1>3, SettleChainFinalizes
  <1> HIDE DEF p, st, binding
  <1>7. new \in Receipts /\ new.operations = p /\ new.binding = binding
    BY <1>4, <1>5, <1>6 DEF Receipt3, Receipts
  <1> HIDE DEF new
  <1>8. /\ faults' \in Faults /\ (Synced' => Synced)
        /\ \/ receipt' = new /\ worker' = NoWorker
           \/ receipt' = receipt /\ worker' = failing
           \/ receipt' = new /\ worker' = failing /\ ~Synced'
    BY <1>1, <1>3, JournalCases DEF JournalLast
  <1>9. boot' = boot /\ flight' = flight /\ dead' = dead /\ disk' = disk /\ live' = live
    BY <1>1 DEF host
  <1>10. /\ failing \in Workers /\ failing.op = w /\ failing.at = "fail"
         /\ NoWorker \in Workers
    BY NextWorker DEF Steps, NoWorker, Workers, Projections
  <1> HIDE DEF failing
  <1>11. JournalOK(p) /\ Kept(ops, p)
    BY <1>2, <1>3, <1>6, FinalizedJournal
  <1>12. \A i, j : OneChain(p, i, j) <=> OneChain(ops, i, j)
    BY <1>11, KeptChains
  <1>13. \A i \in flight : p[i] = ops[i]
    <2> SUFFICES ASSUME NEW i \in flight PROVE p[i] = ops[i]
      OBVIOUS
    <2>1. i \in DOMAIN ops /\ i # w
      BY <1>2 DEF ManagerInv, FlightOK
    <2>2. OneChain(ops, i, w) => i = w
      BY <1>1, <1>2 DEF ManagerInv, WorkerOK, Recoveries
    <2>3. i \notin Chain(ops, ops[w].of)
      <3>1. i \in Chain(ops, i)
        BY <2>1, ChainSelf
      <3>2. ops[w].of # 0 /\ \A k \in DOMAIN ops : ops[k].of # 0 => ops[k].of \in DOMAIN ops
        BY <1>1, <1>2, <1>3, OfInside DEF JournalOK, OpOK
      <3>3. Chain(ops, ops[w].of) \subseteq Chain(ops, w)
        BY <1>2, <3>2, ChainStep
      <3> QED BY <2>1, <2>2, <3>1, <3>3 DEF OneChain
    <2> QED BY <1>6, <2>1, <2>3 DEF Finalized
  <1>14. FlightOK(p, flight, boot)
    <2>1. \A i \in flight : p[i].attempt \in SentAttempts /\ p[i].outcome \in Open
      BY <1>13 DEF ManagerInv, FlightOK
    <2> QED BY <1>11, <2>1, FlightKept DEF ManagerInv
  <1>15. CASE receipt' = receipt /\ worker' = failing
    BY <1>1, <1>8, <1>15, FailStep DEF failing
  <1>16. CASE receipt' = new /\ (worker' = NoWorker \/ (worker' = failing /\ ~Synced'))
    <2>1. ops' = p
      BY <1>7, <1>16 DEF ops
    <2>2. Plain'
      BY <1>6, <1>7, <1>8, <1>9, <1>10, <1>16, <2>1 DEF ManagerInv, Plain, Faults, Finalized
    <2>3. WorkerOK(p, receipt'.binding, flight, boot, worker')
      <3>1. CASE worker' = NoWorker
        BY <3>1 DEF WorkerOK
      <3>2. CASE worker' = failing
        <4>1. w \in DOMAIN p /\ p[w].bootId = boot /\ Stage(p[w], receipt'.binding, "fail")
          BY <1>1, <1>2, <1>11, FitsItself DEF Kept, Stage, Steps
        <4>2. p[w].kind # "inspect" => \A j \in flight : OneChain(p, j, w) => j = w
          BY <1>1, <1>2, <1>11, <1>12 DEF ManagerInv, WorkerOK, Kept
        <4> QED BY <1>2, <1>10, <3>2, <4>1, <4>2 DEF WorkerOK
      <3> QED BY <1>16, <3>1, <3>2
    <2>4. ASSUME Synced' PROVE SettledOK(p) /\ WorkerSettled(p, worker')
      <3>1. SettledOK(ops)
        BY <1>8, <2>4 DEF ManagerInv
      <3>2. SettledOK(p)
        BY <1>1, <1>2, <1>3, <1>6, <3>1, FinalizedSettled
      <3> QED BY <1>16, <2>4, <3>2 DEF WorkerSettled
    <2> QED BY <1>9, <1>11, <1>14, <2>1, <2>2, <2>3, <2>4 DEF ManagerInv
  <1> QED BY <1>8, <1>15, <1>16
-----------------------------------------------------------------------------
(* Inspection *)

\* An inspect remembers what it read.
LEMMA ReadForInspectOK ==
    ASSUME ManagerInv, ReadForInspect
    PROVE  ManagerInv'
  <1>1. /\ worker # NoWorker /\ worker.at = "start" /\ UNCHANGED <<host, boot, dead>>
        /\ receipt' = receipt /\ faults' = faults /\ Op.kind = "inspect"
        /\ worker' = [worker EXCEPT !.at = "judge", !.disk = disk]
    BY DEF ReadForInspect, Worker
  <1>2. worker' \in Workers /\ worker'.op = worker.op /\ worker'.at = "judge"
    BY <1>1 DEF ManagerInv, Plain, Workers, Steps
  <1>3. Stage(Op, receipt.binding, "judge") /\ worker.op \notin flight
    BY <1>1, FitsItself DEF Stage, Steps
  <1> QED BY <1>1, <1>2, <1>3, QuietStep

\* The inspect's own end, and going on after it.
LEMMA InspectDoneOK ==
    ASSUME ManagerInv, worker # NoWorker, Op.kind = "inspect",
           worker.at \in {"judge", "close", "verdict"},
           NEW st \in States, UNCHANGED <<host, boot, dead>>,
           \/ JournalLast(InspectDone(st))
           \/ Op.of # 0 /\ Journal(InspectDone(st), [worker EXCEPT !.at = "note"])
    PROVE  ManagerInv'
  <1> DEFINE x == [Op EXCEPT !.outcome = "succeeded", !.phase = "terminal"]
  <1>1. Op \in Intents /\ OpOK(Op) /\ worker.op \notin flight
    BY FitsItself DEF OpOK
  <1>2. /\ x \in Intents /\ x.kind = "inspect" /\ x.of = Op.of /\ x.bootId = Op.bootId
        /\ x.plan = Op.plan /\ x.outcome = "succeeded" /\ x.phase = "terminal"
        /\ x.attempt = Op.attempt
    BY <1>1 DEF Intents, Phases, Outcomes
  <1>3. InspectDone(st) = Conclude(x, st)
    BY DEF InspectDone
  <1> HIDE DEF x
  <1>4. Fits(Op, x)
    BY <1>1, <1>2 DEF Fits, OpOK, OpRefined, Recoveries, Mutations
  <1>5. EndsAgree(x) /\ "inspect" \notin Recoveries
    BY <1>2 DEF EndsAgree, Open, Recoveries
  <1>6. CASE JournalLast(InspectDone(st))
    BY <1>1, <1>3, <1>4, <1>5, <1>6, ConcludeLast
  <1>7. CASE Op.of # 0 /\ Journal(InspectDone(st), [worker EXCEPT !.at = "note"])
    <2> DEFINE next == [worker EXCEPT !.at = "note"]
    <2>1. next \in Workers /\ next.op = worker.op /\ next.at = "note"
      BY NextWorker DEF Steps
    <2>2. receipt \in Receipts /\ receipt.binding \in Projections
      BY DEF ManagerInv, Plain, Receipts
    <2>3. Journal(InspectDone(st), next)
      BY <1>7
    <2>4. InspectDone(st) = Receipt3(st, receipt.binding, Edit(ops, worker.op, x))
      BY <1>3, <2>2, AmendIs
    <2> HIDE DEF next
    <2>5. Stage(x, receipt.binding, next.at)
      BY <1>2, <1>7, <2>1 DEF Stage, Steps
    <2> QED BY <1>1, <1>4, <1>5, <2>1, <2>2, <2>3, <2>4, <2>5, WriteStep
  <1> QED BY <1>6, <1>7

\* An inspect ends in a conflict; its subject stays open.
LEMMA InspectConflictOK ==
    ASSUME ManagerInv, InspectConflict
    PROVE  ManagerInv'
  <1>1. /\ worker # NoWorker /\ worker.at = "judge" /\ Op.kind = "inspect"
        /\ UNCHANGED <<host, boot, dead>>
        /\ \/ JournalLast(InspectDone("RECOVERY_REQUIRED"))
           \/ /\ Op.of # 0
              /\ Journal(InspectDone("RECOVERY_REQUIRED"), [worker EXCEPT !.at = "note"])
    BY DEF InspectConflict, Worker, PlanlessSubject
  <1>2. "RECOVERY_REQUIRED" \in States
    BY DEF States
  <1> QED BY <1>1, <1>2, InspectDoneOK

\* A write that leaves the worker's operation as it is.
LEMMA SameOp ==
    ASSUME ManagerInv, worker # NoWorker
    PROVE  Edit(ops, worker.op, Op) = ops
  <1>1. ops \in Seq(Intents) /\ Op = ops[worker.op]
    BY FitsItself DEF ManagerInv, Plain, Receipts, ops
  <1> QED BY <1>1 DEF Edit

\* The second write of a conflict changes no operation.
LEMMA InspectNoteOK ==
    ASSUME ManagerInv, InspectNote
    PROVE  ManagerInv'
  <1>1. /\ worker # NoWorker /\ worker.at = "note" /\ UNCHANGED <<host, boot, dead>>
        /\ JournalLast(receipt)
    BY DEF InspectNote, Worker
  <1>2. receipt \in Receipts /\ receipt.state \in States /\ receipt.binding \in Projections
    BY DEF ManagerInv, Plain, Receipts
  <1>3. receipt = Receipt3(receipt.state, receipt.binding, Edit(ops, worker.op, Op))
    BY <1>1, <1>2, AmendIs, SameOp
  <1>4. NoWorker \in Workers /\ worker.op \notin flight
    BY <1>1, FitsItself DEF NoWorker, Workers, Steps, Projections
  <1>5. Journal(Receipt3(receipt.state, receipt.binding, Edit(ops, worker.op, Op)), NoWorker)
    BY <1>1, <1>3 DEF JournalLast
  <1> QED BY <1>1, <1>2, <1>4, <1>5, FitsItself, WriteStep

\* The second write after inspectInterrupted ends the inspect.
LEMMA InspectCloseOK ==
    ASSUME ManagerInv, InspectClose
    PROVE  ManagerInv'
  <1>1. /\ worker # NoWorker /\ worker.at = "close" /\ Op.kind = "inspect"
        /\ UNCHANGED <<host, boot, dead>>
        /\ JournalLast(InspectDone(ops[Op.of].priorState))
    BY DEF InspectClose, Worker
  <1>2. Op.of \in DOMAIN ops
    BY <1>1, FitsItself, OfInside DEF Stage, ManagerInv
  <1>3. ops[Op.of].priorState \in States
    BY <1>2 DEF ManagerInv, JournalOK, OpOK, Intents
  <1> QED BY <1>1, <1>3, InspectDoneOK

\* Taking over profile edits changes the binding only.
LEMMA InspectRefreshOK ==
    ASSUME ManagerInv, InspectRefresh
    PROVE  ManagerInv'
  <1> DEFINE next == [worker EXCEPT !.at = "verdict"]
  <1>1. /\ worker # NoWorker /\ worker.at = "judge" /\ Op.kind = "inspect"
        /\ UNCHANGED <<host, boot, dead>>
        /\ Journal([receipt EXCEPT !.binding = live], next) \/ Goto("verdict")
    BY DEF InspectRefresh, Worker
  <1>2. /\ "verdict" \in Steps /\ worker.op \notin flight /\ OpOK(Op)
        /\ Op.outcome = "pending"
        /\ \A b : Stage(Op, b, "verdict")
    BY <1>1, FitsItself DEF Stage, Steps
  <1>3. CASE Goto("verdict")
    BY <1>1, <1>2, <1>3, GotoStep
  <1>4. CASE Journal([receipt EXCEPT !.binding = live], next)
    <2>1. receipt \in Receipts /\ receipt.state \in States /\ live \in Projections
      BY DEF ManagerInv, Plain, Receipts
    <2>2. receipt = Receipt3(receipt.state, receipt.binding, ops)
      BY <2>1, AmendIs
    <2>3. [receipt EXCEPT !.binding = live] = Receipt3(receipt.state, live, ops)
      BY <2>2 DEF Receipt3
    <2>4. next \in Workers /\ next.op = worker.op /\ next.at = "verdict"
      BY NextWorker DEF Steps
    <2> HIDE DEF next
    <2>5. Journal(Receipt3(receipt.state, live, Edit(ops, worker.op, Op)), next)
      BY <1>1, <1>4, <2>3, SameOp
    <2> QED BY <1>1, <1>2, <2>1, <2>4, <2>5, FitsItself, WriteStep
  <1> QED BY <1>1, <1>3, <1>4

\* The verdict ends the inspect only.
LEMMA InspectVerdictOK ==
    ASSUME ManagerInv, InspectVerdict
    PROVE  ManagerInv'
  <1> DEFINE others == (Pending(receipt) \cup Unresolved(receipt)) \ {worker.op}
             st == IF others # {} THEN "RECOVERY_REQUIRED"
                   ELSE IF receipt.binding # Absent THEN "ACTIVE" ELSE "INACTIVE"
  <1>1. /\ worker # NoWorker /\ worker.at = "verdict" /\ Op.kind = "inspect"
        /\ UNCHANGED <<host, boot, dead>> /\ JournalLast(InspectDone(st))
    BY DEF InspectVerdict, Worker
  <1>2. st \in States
    BY DEF States
  <1> HIDE DEF st
  <1> QED BY <1>1, <1>2, InspectDoneOK

\* The subject never had a plan: it ends, and it is in no recovery's chain.
LEMMA InspectSubjectOK ==
    ASSUME ManagerInv, InspectSubject
    PROVE  ManagerInv'
  <1> DEFINE s       == Op.of
             x       == [ops[s] EXCEPT !.outcome = "failed", !.phase = "terminal"]
             st      == ops[s].priorState
             p       == Edit(ops, s, x)
             new     == Receipt3(st, receipt.binding, p)
             next    == [worker EXCEPT !.at = "close"]
             failing == [worker EXCEPT !.at = "fail"]
  <1>1. /\ worker # NoWorker /\ worker.at = "judge" /\ Op.kind = "inspect"
        /\ UNCHANGED <<host, boot, dead>>
        /\ s # 0 /\ ops[s].plan = NoPlan
        /\ Journal([receipt EXCEPT !.state = st, !.operations[s].outcome = "failed",
                                   !.operations[s].phase = "terminal"], next)
    BY DEF InspectSubject, Worker, PlanlessSubject
  <1>2. /\ receipt \in Receipts /\ ops \in Seq(Intents) /\ faults \in Faults /\ JournalOK(ops)
        /\ receipt.binding \in Projections
    BY DEF ManagerInv, Plain, Receipts, ops, Faults
  <1>3. /\ worker.op \in DOMAIN ops /\ Op = ops[worker.op] /\ worker.op \notin flight
        /\ Op.bootId = boot /\ Op.outcome = "pending"
    BY <1>1, FitsItself DEF Stage
  <1>4. s \in DOMAIN ops /\ s # worker.op
    BY <1>1, <1>2, <1>3, OfInside DEF JournalOK, Backward
  <1>5. ops[s] \in Intents /\ OpOK(ops[s]) /\ st \in States
    BY <1>2, <1>4 DEF JournalOK, OpOK, Intents
  <1>6. [receipt EXCEPT !.state = st, !.operations[s].outcome = "failed",
                        !.operations[s].phase = "terminal"] = new
    BY <1>2, <1>4, EndedIs DEF ops
  <1>7. /\ x \in Intents /\ x.kind = ops[s].kind /\ x.of = ops[s].of
        /\ x.bootId = ops[s].bootId /\ x.plan = NoPlan /\ x.attempt = ops[s].attempt
        /\ x.outcome = "failed" /\ x.phase = "terminal"
    BY <1>1, <1>5 DEF Intents, Phases, Outcomes
  <1> HIDE DEF x, st
  <1>8. Fits(ops[s], x) /\ EndsAgree(x)
    BY <1>1, <1>5, <1>7 DEF Fits, OpOK, OpRefined, EndsAgree, Open
  <1>9. p \in Seq(Intents) /\ Amends(ops, p, s) /\ p[s] = x /\ DOMAIN p = DOMAIN ops
    <2> HIDE DEF s
    <2> QED BY <1>2, <1>4, <1>7, EditAmends
  <1> HIDE DEF p
  <1>10. new \in Receipts /\ new.operations = p /\ new.binding = receipt.binding
    BY <1>2, <1>5, <1>9 DEF Receipt3, Receipts
  <1>11. JournalOK(p) /\ Kept(ops, p)
    <2> HIDE DEF s
    <2> QED BY <1>2, <1>4, <1>8, <1>9, JournalAmended
  <1>12. \A i \in flight : p[i] = ops[i]
    <2> SUFFICES ASSUME NEW i \in flight PROVE p[i] = ops[i]
      OBVIOUS
    <2>1. i \in DOMAIN ops /\ ops[i].attempt \in SentAttempts
      BY DEF ManagerInv, FlightOK
    <2>2. ops[i].plan # NoPlan
      BY <1>2, <2>1 DEF JournalOK, OpOK, SentAttempts
    <2> QED BY <1>1, <1>9, <2>1, <2>2 DEF Amends
  <1>13. FlightOK(p, flight, boot)
    <2>1. \A i \in flight : p[i].attempt \in SentAttempts /\ p[i].outcome \in Open
      BY <1>12 DEF ManagerInv, FlightOK
    <2> QED BY <1>11, <2>1, FlightKept DEF ManagerInv
  <1>14. p[worker.op] = Op
    BY <1>3, <1>4, <1>9 DEF Amends
  <1>15. /\ failing \in Workers /\ failing.op = worker.op /\ failing.at = "fail"
         /\ next \in Workers /\ next.op = worker.op /\ next.at = "close"
    BY NextWorker DEF Steps
  <1> HIDE DEF failing, next, new
  <1>16. /\ faults' \in Faults /\ (Synced' => Synced)
         /\ \/ receipt' = new /\ worker' = next
            \/ receipt' = receipt /\ worker' = failing
            \/ receipt' = new /\ worker' = failing /\ ~Synced'
    BY <1>1, <1>2, <1>6, JournalCases DEF failing
  <1>17. boot' = boot /\ flight' = flight /\ dead' = dead /\ disk' = disk /\ live' = live
    BY <1>1 DEF host
  <1>18. CASE receipt' = receipt /\ worker' = failing
    BY <1>1, <1>16, <1>18, FailStep DEF failing
  <1>19. CASE receipt' = new /\ worker' \in {next, failing}
    <2>1. ops' = p
      BY <1>10, <1>19 DEF ops
    <2>2. Plain'
      BY <1>9, <1>10, <1>15, <1>16, <1>17, <1>19, <2>1 DEF ManagerInv, Plain, Faults
    <2>3. worker'.op = worker.op /\ worker'.at \in {"close", "fail"}
      BY <1>15, <1>19
    <2>4. Stage(Op, receipt'.binding, worker'.at)
      BY <1>1, <1>3, <2>3 DEF Stage, Steps
    <2>5. WorkerOK(p, receipt'.binding, flight, boot, worker')
      BY <1>1, <1>3, <1>9, <1>14, <2>3, <2>4 DEF WorkerOK
    <2>6. ASSUME Synced' PROVE SettledOK(p) /\ WorkerSettled(p, worker')
      <3>1. SettledOK(ops)
        BY <1>16, <2>6 DEF ManagerInv
      <3>2. SettledOK(p)
        <4> HIDE DEF s
        <4> QED BY <1>1, <1>2, <1>4, <1>7, <1>8, <1>9, <1>11, <3>1, SettledAmended
      <3> QED BY <1>1, <1>14, <2>3, <3>2 DEF WorkerSettled
    <2> QED BY <1>11, <1>13, <1>17, <2>1, <2>2, <2>5, <2>6 DEF ManagerInv
  <1> QED BY <1>16, <1>18, <1>19
-----------------------------------------------------------------------------
(* Admission *)

\* A journal with one operation more.
LEMMA Appended ==
    ASSUME NEW o \in Seq(Intents), NEW x \in Intents
    PROVE  /\ Append(o, x) \in Seq(Intents)
           /\ DOMAIN o = 1..Len(o) /\ DOMAIN Append(o, x) = 1..(Len(o) + 1)
           /\ Len(o) \in Nat /\ Len(o) + 1 \notin DOMAIN o
           /\ \A k \in DOMAIN o : Append(o, x)[k] = o[k]
           /\ Append(o, x)[Len(o) + 1] = x
  OBVIOUS

\* Grows(o, p, x): p is o and x.
Grows(o, p, n, x) ==
    /\ n \in Nat \ {0} /\ DOMAIN o = 1..(n - 1) /\ DOMAIN p = 1..n
    /\ \A k \in DOMAIN o : p[k] = o[k]
    /\ p[n] = x

\* A journal stays one when only what has a plan is recovered and nothing
\* else is pending.
LEMMA JournalGrows ==
    ASSUME NEW o, NEW p, NEW n, NEW x, Grows(o, p, n, x), JournalOK(o), OpOK(x),
           x.of \in 0..(n - 1), x.kind \in Recoveries => o[x.of].plan # NoPlan,
           x.outcome = "pending" => \A k \in DOMAIN o : o[k].outcome # "pending"
    PROVE  JournalOK(p)
  <1>1. \A k \in DOMAIN p : k = n \/ k \in DOMAIN o
    BY DEF Grows
  <1>2. Backward(p)
    BY <1>1 DEF Backward, Grows, JournalOK
  <1>3. \A i \in DOMAIN p : OpOK(p[i])
    BY <1>1 DEF Grows, JournalOK
  <1>4. ASSUME NEW i \in DOMAIN p, p[i].kind \in Recoveries
        PROVE  p[p[i].of].plan # NoPlan
    <2>1. CASE i = n
      <3>1. x.of \in DOMAIN o /\ o[x.of].plan # NoPlan
        BY <1>4, <2>1 DEF Grows, OpOK
      <3> QED BY <2>1, <3>1 DEF Grows
    <2>2. CASE i \in DOMAIN o
      <3>1. p[i] = o[i] /\ o[i].of \in DOMAIN o /\ o[o[i].of].plan # NoPlan
        BY <1>4, <2>2, OfInside DEF Grows, JournalOK, OpOK
      <3> QED BY <3>1 DEF Grows
    <2> QED BY <1>1, <2>1, <2>2
  <1>5. ASSUME NEW i \in DOMAIN p, NEW j \in DOMAIN p,
               p[i].outcome = "pending", p[j].outcome = "pending"
        PROVE  i = j
    BY <1>1, <1>5 DEF Grows, JournalOK
  <1>6. \E m \in Nat : DOMAIN p = 1..m
    BY DEF Grows
  <1> QED BY <1>2, <1>3, <1>4, <1>5, <1>6 DEF JournalOK

\* The old chains are what they were, and the new operation's is its own link
\* and the chain of what it recovers.
LEMMA ChainsGrow ==
    ASSUME NEW o, NEW p, NEW n, NEW x, Grows(o, p, n, x), JournalOK(o),
           x.of \in 0..(n - 1)
    PROVE  /\ \A i \in DOMAIN o : Chain(p, i) = Chain(o, i)
           /\ \A i, j \in DOMAIN o : OneChain(p, i, j) <=> OneChain(o, i, j)
           /\ \A i \in DOMAIN o :
                 OneChain(p, i, n) => x.of # 0 /\ OneChain(o, i, x.of)
  <1>1. \A k \in DOMAIN o : o[k].of # 0 => o[k].of \in DOMAIN o
    BY OfInside
  <1>2. \A i \in DOMAIN o : Chain(p, i) = Chain(o, i)
    <2>1. DOMAIN o \subseteq DOMAIN p /\ \A k \in DOMAIN o : p[k].of = o[k].of
      BY DEF Grows
    <2> QED BY <1>1, <2>1, ChainOld
  <1>3. ASSUME NEW i \in DOMAIN o, OneChain(p, i, n)
        PROVE  x.of # 0 /\ OneChain(o, i, x.of)
    <2>1. n \in DOMAIN p /\ p[n].of = x.of /\ n \notin DOMAIN o
      BY DEF Grows
    <2>2. \A k \in DOMAIN p : p[k].of # 0 => p[k].of \in DOMAIN p
      <3> SUFFICES ASSUME NEW k \in DOMAIN p, p[k].of # 0 PROVE p[k].of \in DOMAIN p
        OBVIOUS
      <3>1. k = n \/ k \in DOMAIN o
        BY DEF Grows
      <3> QED BY <1>1, <3>1 DEF Grows
    <2>3. Chain(p, n) = {n} \cup (IF x.of = 0 THEN {} ELSE Chain(p, x.of))
      BY <2>1, <2>2, ChainStep
    <2>4. Chain(o, i) \cap Chain(p, n) # {} /\ n \notin Chain(o, i)
      BY <1>2, <1>3, <2>1, ChainDomain DEF OneChain
    <2>5. x.of # 0 /\ Chain(o, i) \cap Chain(p, x.of) # {}
      BY <2>3, <2>4
    <2>6. x.of \in DOMAIN o
      BY <2>5 DEF Grows
    <2> QED BY <1>2, <2>5, <2>6 DEF OneChain
  <1>4. \A i, j \in DOMAIN o : OneChain(p, i, j) <=> OneChain(o, i, j)
    BY <1>2 DEF OneChain
  <1> QED BY <1>2, <1>3, <1>4

\* A new operation changes nothing for the patches in flight.
LEMMA FlightGrows ==
    ASSUME NEW o, NEW p, NEW n, NEW x, NEW f, NEW b, Grows(o, p, n, x),
           JournalOK(o), x.of \in 0..(n - 1), FlightOK(o, f, b)
    PROVE  FlightOK(p, f, b)
  <1>1. \A i, j \in DOMAIN o : OneChain(p, i, j) <=> OneChain(o, i, j)
    BY ChainsGrow
  <1>2. \A i \in f : i \in DOMAIN o /\ i \in DOMAIN p /\ p[i] = o[i]
    BY DEF FlightOK, Grows
  <1> QED BY <1>1, <1>2 DEF FlightOK

\* Nothing that ended is reopened by a new operation.
LEMMA SettledGrows ==
    ASSUME NEW o, NEW p, NEW n, NEW x, Grows(o, p, n, x), JournalOK(o),
           SettledOK(o), x.of \in 0..(n - 1), OpOK(x), EndsAgree(x),
           x.kind \in Recoveries => /\ o[x.of].outcome = "recovery-required"
                                    /\ x.outcome = "pending"
    PROVE  SettledOK(p)
  <1>1. \A k \in DOMAIN p : k = n \/ k \in DOMAIN o
    BY DEF Grows
  <1>2. \A i \in DOMAIN p : EndsAgree(p[i])
    BY <1>1 DEF Grows, SettledOK
  <1>3. ASSUME NEW i \in DOMAIN p, p[i].kind \in Recoveries
        PROVE  p[p[i].of].outcome \in {"recovery-required", "succeeded", "failed"}
    <2>1. CASE i = n
      <3>1. x.of \in DOMAIN o /\ o[x.of].outcome = "recovery-required"
        BY <1>3, <2>1 DEF Grows, OpOK
      <3> QED BY <2>1, <3>1 DEF Grows
    <2>2. CASE i \in DOMAIN o
      <3>1. p[i] = o[i] /\ o[i].of \in DOMAIN o
               /\ o[o[i].of].outcome \in {"recovery-required", "succeeded", "failed"}
        BY <1>3, <2>2, OfInside DEF Grows, JournalOK, OpOK, SettledOK
      <3> QED BY <3>1 DEF Grows
    <2> QED BY <1>1, <2>1, <2>2
  <1>4. ASSUME NEW i \in DOMAIN p, p[i].kind \in Recoveries, p[i].outcome = "succeeded",
               NEW j \in Chain(p, i)
        PROVE  p[j].outcome \in {"succeeded", "failed"}
    <2>1. i # n
      BY <1>4 DEF Grows
    <2>2. i \in DOMAIN o /\ p[i] = o[i]
      BY <1>1, <2>1 DEF Grows
    <2>3. j \in Chain(o, i)
      BY <2>2, ChainsGrow
    <2>4. o[j].outcome \in {"succeeded", "failed"} /\ j \in DOMAIN o
      BY <1>4, <2>2, <2>3, ChainDomain DEF SettledOK
    <2> QED BY <2>4 DEF Grows
  <1> QED BY <1>2, <1>3, <1>4 DEF SettledOK

\* Accepting x, over the journal o in which the operation it takes up is open
\* for recovery.
LEMMA AcceptStep ==
    ASSUME ManagerInv, worker = NoWorker, NEW st \in States, NEW o \in Seq(Intents),
           NEW x, NEW adopt \in BOOLEAN,
           Accept(Receipt3(st, receipt.binding, o), x, adopt),
           Len(o) = Len(ops), DOMAIN o = DOMAIN ops,
           Refined(Receipt3(st, receipt.binding, Append(o, x))) =>
              /\ JournalOK(o) /\ FlightOK(o, flight, boot)
              /\ Synced => SettledOK(o),
           OpOK(x), x.of \in {0} \cup DOMAIN o, x.bootId = boot,
           x.outcome = "pending", x.phase = "accepted",
           x.kind = "deactivate" => receipt.binding # Absent,
           x.kind \in Recoveries => /\ o[x.of].plan # NoPlan
                                    /\ o[x.of].outcome = "recovery-required"
                                    /\ \A j \in flight : ~OneChain(o, j, x.of)
    PROVE  ManagerInv'
  <1> DEFINE n == Len(o) + 1
             p == Append(o, x)
             new == Receipt3(st, receipt.binding, p)
             next == [NoWorker EXCEPT !.op = Len(ops) + 1, !.adopt = adopt]
  <1>1. x \in Intents /\ receipt \in Receipts /\ receipt.binding \in Projections
    BY DEF OpOK, ManagerInv, Plain, Receipts
  <1>2. /\ p \in Seq(Intents) /\ DOMAIN o = 1..Len(o) /\ DOMAIN p = 1..n
        /\ n \in Nat \ {0} /\ n \notin DOMAIN o
        /\ (\A k \in DOMAIN o : p[k] = o[k]) /\ p[n] = x
    BY <1>1, Appended
  <1>3. [Receipt3(st, receipt.binding, o) EXCEPT !.operations = Append(@, x)] = new
    BY AppendedIs
  <1> HIDE DEF p, n
  <1>4. new \in Receipts /\ new.operations = p /\ new.binding = receipt.binding
    BY <1>1, <1>2 DEF Receipt3, Receipts
  <1>5. /\ Refined(new)
        /\ \/ Written(new) /\ worker' = next
           \/ NotWritten(new) /\ UNCHANGED worker
        /\ UNCHANGED <<host, boot, dead>>
    BY <1>3 DEF Accept
  <1>6. Grows(o, p, n, x) /\ x.of \in 0..(n - 1)
    BY <1>2 DEF Grows, n
  <1>7. JournalOK(o) /\ FlightOK(o, flight, boot) /\ (Synced => SettledOK(o))
    BY <1>5 DEF p
  <1>8. \A k \in DOMAIN o : o[k].outcome # "pending"
    <2>1. \A i, j \in DOMAIN p : p[i].outcome = "pending" /\ p[j].outcome = "pending"
                                    => i = j
      BY <1>4, <1>5 DEF Refined, Pending
    <2> QED BY <1>2, <2>1
  <1>9. JournalOK(p)
    BY <1>6, <1>7, <1>8, JournalGrows
  <1>10. FlightOK(p, flight, boot)
    BY <1>6, <1>7, FlightGrows
  <1>11. Synced => SettledOK(p)
    <2>1. EndsAgree(x)
      BY DEF EndsAgree, Open
    <2> QED BY <1>6, <1>7, <2>1, SettledGrows
  <1>12. next \in Workers /\ next.op = n /\ next.at = "start"
    BY <1>2 DEF Workers, NoWorker, Steps, Projections, n
  <1>13. WorkerOK(p, receipt.binding, flight, boot, next)
    <2>1. Stage(x, receipt.binding, "start")
      BY DEF Stage, Steps
    <2>2. n \notin flight
      BY <1>2, <1>7 DEF FlightOK
    <2>3. x.kind # "inspect" => \A j \in flight : ~OneChain(p, j, n)
      <3> SUFFICES ASSUME x.kind # "inspect", NEW j \in flight, OneChain(p, j, n)
                   PROVE  FALSE
        OBVIOUS
      <3>1. j \in DOMAIN o
        BY <1>7 DEF FlightOK
      <3>2. x.of # 0 /\ OneChain(o, j, x.of)
        BY <1>6, <1>7, <3>1, ChainsGrow
      <3>3. x.kind \in Recoveries
        BY <3>2 DEF OpOK, Intents, Kinds, Mutations, Recoveries
      <3> QED BY <3>2, <3>3
    <2>4. n \in DOMAIN p
      BY <1>2
    <2> HIDE DEF next
    <2> QED BY <1>2, <1>12, <2>1, <2>2, <2>3, <2>4 DEF WorkerOK
  <1>14. WorkerSettled(p, next) /\ WorkerSettled(p, NoWorker)
    BY <1>2, <1>12 DEF WorkerSettled
  <1>15. boot' = boot /\ flight' = flight /\ dead' = dead /\ disk' = disk /\ live' = live
    BY <1>5 DEF host
  <1>16. faults \in Faults /\ worker \in Workers
    BY DEF ManagerInv, Plain, Faults
  <1>17. /\ faults' \in Faults /\ (Synced' => Synced)
         /\ \/ receipt' = new /\ worker' = next
            \/ receipt' = receipt /\ worker' = worker
            \/ receipt' = new /\ worker' = worker /\ ~Synced'
    BY <1>5, <1>16 DEF Written, NotWritten, Faults, Synced
  <1>18. dead \subseteq DOMAIN ops /\ DOMAIN ops \subseteq DOMAIN p
    BY <1>2 DEF ManagerInv, Plain, n
  <1> HIDE DEF next, new
  <1>19. CASE receipt' = new /\ worker' \in {next, worker}
    <2>1. ops' = p
      BY <1>4, <1>19 DEF ops
    <2>2. Plain'
      BY <1>4, <1>12, <1>15, <1>16, <1>17, <1>18, <1>19, <2>1
         DEF ManagerInv, Plain, Faults
    <2>3. WorkerOK(p, receipt'.binding, flight, boot, worker')
      <3>1. WorkerOK(p, receipt.binding, flight, boot, NoWorker)
        BY DEF WorkerOK
      <3> QED BY <1>4, <1>13, <1>19, <3>1
    <2>4. WorkerSettled(p, worker')
      BY <1>14, <1>19
    <2> QED BY <1>9, <1>10, <1>11, <1>15, <1>17, <2>1, <2>2, <2>3, <2>4 DEF ManagerInv
  <1>20. CASE receipt' = receipt /\ worker' = worker
    <2>1. ops' = ops
      BY <1>20 DEF ops
    <2>2. Plain'
      BY <1>15, <1>17, <1>20, <2>1 DEF ManagerInv, Plain, Faults
    <2> QED BY <1>15, <1>17, <1>20, <2>1, <2>2 DEF ManagerInv
  <1> QED BY <1>17, <1>19, <1>20

\* What acceptedIntent makes.
LEMMA IntentIs ==
    ASSUME ManagerInv, NEW kind \in Kinds, NEW of \in Nat, NEW plan \in Plans,
           NEW prior \in States
    PROVE  /\ Intent(kind, of, plan, prior) \in Intents
           /\ Intent(kind, of, plan, prior).kind = kind
           /\ Intent(kind, of, plan, prior).of = of
           /\ Intent(kind, of, plan, prior).plan = plan
           /\ Intent(kind, of, plan, prior).bootId = boot
           /\ Intent(kind, of, plan, prior).phase = "accepted"
           /\ Intent(kind, of, plan, prior).outcome = "pending"
           /\ Intent(kind, of, plan, prior).attempt = "none"
  BY DEF ManagerInv, Plain, Intent, Intents, Phases, Outcomes, Attempts

\* The absent plan has the type of one.
LEMMA NoPlanIsPlan == NoPlan \in Plans
  BY DEF NoPlan, Plans, Projections

\* Activate and deactivate take up nothing.
LEMMA MutateOK ==
    ASSUME ManagerInv, worker = NoWorker, NEW st \in States,
           NEW kind \in Mutations, NEW adopt \in BOOLEAN,
           kind = "deactivate" => receipt.binding # Absent,
           Accept([receipt EXCEPT !.state = st],
                  Intent(kind, 0, NoPlan, receipt.state), adopt)
    PROVE  ManagerInv'
  <1> DEFINE x == Intent(kind, 0, NoPlan, receipt.state)
  <1>1. receipt \in Receipts /\ receipt.state \in States /\ ops \in Seq(Intents)
    BY DEF ManagerInv, Plain, Receipts, ops
  <1>2. kind \in Kinds /\ kind \notin Recoveries /\ kind # "inspect"
    BY DEF Kinds, Mutations, Recoveries
  <1>3. /\ x \in Intents /\ x.kind = kind /\ x.of = 0 /\ x.plan = NoPlan
        /\ x.bootId = boot /\ x.phase = "accepted" /\ x.outcome = "pending"
        /\ x.attempt = "none"
    <2>1. 0 \in Nat /\ NoPlan \in Plans /\ kind \in Kinds /\ receipt.state \in States
      BY <1>1, <1>2, NoPlanIsPlan
    <2> QED BY <2>1, IntentIs
  <1>4. [receipt EXCEPT !.state = st] = Receipt3(st, receipt.binding, ops)
    BY <1>1 DEF Receipt3, Receipts, ops
  <1> HIDE DEF x
  <1>5. OpOK(x)
    BY <1>2, <1>3 DEF OpOK, OpRefined
  <1>6. Accept(Receipt3(st, receipt.binding, ops), x, adopt)
    BY <1>4 DEF x
  <1>7. JournalOK(ops) /\ FlightOK(ops, flight, boot) /\ (Synced => SettledOK(ops))
    BY DEF ManagerInv
  <1> QED BY <1>1, <1>2, <1>3, <1>5, <1>6, <1>7, AcceptStep

\* An accepted activate.
LEMMA ActivateOK ==
    ASSUME ManagerInv, NEW adopt \in BOOLEAN, Activate(adopt)
    PROVE  ManagerInv'
  <1>1. "ACTIVATING" \in States /\ "activate" \in Mutations
    BY DEF States, Mutations
  <1> QED BY <1>1, MutateOK DEF Activate, MutationAdmitted

\* An accepted deactivate; it has a binding to take away.
LEMMA DeactivateOK ==
    ASSUME ManagerInv, Deactivate
    PROVE  ManagerInv'
  <1>1. "DEACTIVATING" \in States /\ "deactivate" \in Mutations /\ FALSE \in BOOLEAN
    BY DEF States, Mutations
  <1> QED BY <1>1, MutateOK DEF Deactivate, MutationAdmitted

\* The journal in which an open operation waits for recovery.
Opened(i) == [ops[i] EXCEPT !.outcome = "recovery-required"]

\* Opening an open operation for recovery disturbs nothing.
LEMMA OpenedIs ==
    ASSUME ManagerInv, NEW i \in DOMAIN ops, ops[i].outcome \in Open
    PROVE  /\ Opened(i) \in Intents
           /\ Opened(i).outcome = "recovery-required"
           /\ Opened(i).plan = ops[i].plan /\ Opened(i).attempt = ops[i].attempt
           /\ Edit(ops, i, Opened(i)) \in Seq(Intents)
           /\ Amends(ops, Edit(ops, i, Opened(i)), i)
           /\ Edit(ops, i, Opened(i))[i] = Opened(i)
           /\ DOMAIN Edit(ops, i, Opened(i)) = DOMAIN ops
           /\ Len(Edit(ops, i, Opened(i))) = Len(ops)
           /\ OpRefined(Opened(i)) =>
                 /\ JournalOK(Edit(ops, i, Opened(i)))
                 /\ Kept(ops, Edit(ops, i, Opened(i)))
                 /\ FlightOK(Edit(ops, i, Opened(i)), flight, boot)
                 /\ Synced => SettledOK(Edit(ops, i, Opened(i)))
  <1> DEFINE x == Opened(i)
             p == Edit(ops, i, x)
  <1>1. JournalOK(ops) /\ ops \in Seq(Intents) /\ OpOK(ops[i]) /\ ops[i] \in Intents
    BY DEF ManagerInv, Plain, Receipts, ops, JournalOK, OpOK
  <1>2. /\ x \in Intents /\ x.kind = ops[i].kind /\ x.of = ops[i].of
        /\ x.bootId = ops[i].bootId /\ x.plan = ops[i].plan
        /\ x.attempt = ops[i].attempt /\ x.phase = ops[i].phase
        /\ x.outcome = "recovery-required"
    BY <1>1 DEF Opened, Intents, Outcomes
  <1> HIDE DEF x
  <1>3. p \in Seq(Intents) /\ Amends(ops, p, i) /\ p[i] = x /\ DOMAIN p = DOMAIN ops
    BY <1>1, <1>2, EditAmends
  <1>4. Len(p) = Len(ops)
    BY <1>1, <1>3
  <1> HIDE DEF p
  <1>5. ASSUME OpRefined(x)
        PROVE  /\ JournalOK(p) /\ Kept(ops, p) /\ FlightOK(p, flight, boot)
               /\ Synced => SettledOK(p)
    <2>1. Fits(ops[i], x)
      BY <1>1, <1>2, <1>5 DEF Fits, OpOK
    <2>2. JournalOK(p) /\ Kept(ops, p)
      BY <1>1, <1>3, <2>1, JournalAmended
    <2>3. FlightOK(p, flight, boot)
      <3>1. \A j \in flight : p[j].attempt \in SentAttempts /\ p[j].outcome \in Open
        BY <1>2, <1>3 DEF ManagerInv, FlightOK, Amends, Open
      <3> QED BY <2>2, <3>1, FlightKept DEF ManagerInv
    <2>4. ASSUME Synced PROVE SettledOK(p)
      <3>1. SettledOK(ops)
        BY <2>4 DEF ManagerInv
      <3>2. EndsAgree(x)
        BY <1>2, <3>1 DEF SettledOK, EndsAgree, Open
      <3> QED BY <1>1, <1>2, <1>3, <2>2, <3>1, <3>2, SettledAmended DEF Open
    <2> QED BY <2>2, <2>3, <2>4
  <1>6. x = Opened(i)
    BY DEF x
  <1> QED BY <1>2, <1>3, <1>4, <1>5, <1>6 DEF p

\* Accepting an inspect or a recovery that takes up operation i.
LEMMA TakeUpOK ==
    ASSUME ManagerInv, worker = NoWorker, NEW i \in DOMAIN ops,
           ops[i].outcome \in Open, NEW kind \in Kinds \ Mutations, NEW plan \in Plans,
           kind = "inspect" => plan = NoPlan,
           kind # "inspect" => /\ plan = ops[i].plan /\ plan # NoPlan
                               /\ ~ChainMayBeRunning(i),
           Accept([receipt EXCEPT !.state = "RECOVERY_REQUIRED",
                                  !.operations[i].outcome = "recovery-required"],
                  Intent(kind, i, plan, "RECOVERY_REQUIRED"), FALSE)
    PROVE  ManagerInv'
  <1> DEFINE x == Intent(kind, i, plan, "RECOVERY_REQUIRED")
             o == Edit(ops, i, Opened(i))
  <1>1. receipt \in Receipts /\ ops \in Seq(Intents) /\ i \in Nat /\ i # 0
    BY DEF ManagerInv, Plain, Receipts, ops
  <1>2. kind \in Kinds /\ "RECOVERY_REQUIRED" \in States /\ FALSE \in BOOLEAN
           /\ (kind \in Recoveries <=> kind # "inspect")
    BY DEF States, Kinds, Mutations, Recoveries
  <1>3. /\ x \in Intents /\ x.kind = kind /\ x.of = i /\ x.plan = plan
        /\ x.bootId = boot /\ x.phase = "accepted" /\ x.outcome = "pending"
        /\ x.attempt = "none"
    BY <1>1, <1>2, IntentIs
  <1>4. [receipt EXCEPT !.state = "RECOVERY_REQUIRED",
                        !.operations[i].outcome = "recovery-required"]
           = Receipt3("RECOVERY_REQUIRED", receipt.binding, o)
    BY <1>1, ReopenedIs DEF Opened, ops
  <1>5. Accept(Receipt3("RECOVERY_REQUIRED", receipt.binding, o), x, FALSE)
    BY <1>4
  <1> HIDE DEF x
  <1>6. OpOK(x)
    BY <1>1, <1>2, <1>3 DEF OpOK, OpRefined
  <1>7. /\ o \in Seq(Intents) /\ o[i] = Opened(i) /\ DOMAIN o = DOMAIN ops
        /\ Len(o) = Len(ops) /\ Opened(i).outcome = "recovery-required"
        /\ Opened(i).plan = ops[i].plan
    BY OpenedIs
  <1>8. OpRefined(Opened(i)) =>
           /\ JournalOK(o) /\ Kept(ops, o) /\ FlightOK(o, flight, boot)
           /\ Synced => SettledOK(o)
    BY OpenedIs
  <1> HIDE DEF o
  <1>9. Refined(Receipt3("RECOVERY_REQUIRED", receipt.binding, Append(o, x)))
           => OpRefined(Opened(i))
    <2> DEFINE p == Append(o, x)
    <2>1. p[i] = o[i] /\ i \in DOMAIN p
      BY <1>3, <1>7, Appended
    <2>2. Receipt3("RECOVERY_REQUIRED", receipt.binding, p).operations = p
      BY DEF Receipt3
    <2> HIDE DEF p
    <2> QED BY <1>7, <2>1, <2>2 DEF Refined, OpRefined, p
  <1>10. x.kind \in Recoveries => \A j \in flight : ~OneChain(o, j, i)
    <2> SUFFICES ASSUME kind # "inspect", NEW j \in flight, OneChain(o, j, i)
                 PROVE  FALSE
      BY <1>2, <1>3
    <2>1. Opened(i).plan # NoPlan
      BY <1>7
    <2>2. j \in DOMAIN ops /\ ops[j].bootId = boot /\ ops[j].attempt \in SentAttempts
      BY DEF ManagerInv, FlightOK
    <2>3. OneChain(ops, j, i)
      <3>1. Amends(ops, o, i) /\ Opened(i).of = ops[i].of
        BY <1>1, OpenedIs DEF o, Opened, ManagerInv, JournalOK, OpOK, Intents
      <3>2. \A k \in DOMAIN ops : o[k].of = ops[k].of
        BY <1>7, <3>1 DEF Amends
      <3>3. Chain(o, j) = Chain(ops, j) /\ Chain(o, i) = Chain(ops, i)
        BY <1>7, <3>2, ChainSame
      <3> QED BY <3>3 DEF OneChain
    <2> QED BY <2>2, <2>3 DEF ChainMayBeRunning, OneChain, SentAttempts
  <1>11. x.kind \in Recoveries => o[x.of].plan # NoPlan
                                     /\ o[x.of].outcome = "recovery-required"
    BY <1>2, <1>3, <1>7
  <1>12. x.kind # "deactivate" /\ x.of \in {0} \cup DOMAIN o
    BY <1>3, <1>7 DEF Mutations
  <1> QED BY <1>2, <1>3, <1>5, <1>6, <1>7, <1>8, <1>9, <1>10, <1>11, <1>12, AcceptStep

\* An accepted recovery; the gate has excluded patches of its chain.
LEMMA ReconcileOK ==
    ASSUME ManagerInv, NEW i \in DOMAIN ops, NEW action \in Recoveries,
           Reconcile(i, action)
    PROVE  ManagerInv'
  <1>1. ops[i].plan \in Plans
    BY DEF ManagerInv, JournalOK, OpOK, Intents
  <1>2. action \in Kinds \ Mutations /\ action # "inspect"
    BY DEF Kinds, Mutations, Recoveries
  <1> QED BY <1>1, <1>2, TakeUpOK DEF Reconcile, ReconcileAdmitted, Open

\* An accepted inspect, with or without a subject.
LEMMA InspectOK ==
    ASSUME ManagerInv, Inspect
    PROVE  ManagerInv'
  <1>1. receipt \in Receipts /\ receipt.state \in States /\ ops \in Seq(Intents)
           /\ worker = NoWorker
    BY DEF ManagerInv, Plain, Receipts, ops, Inspect, ReconcileAdmitted
  <1>2. "inspect" \in Kinds /\ "inspect" \in Kinds \ Mutations
           /\ "inspect" \notin Recoveries /\ FALSE \in BOOLEAN
    BY DEF Kinds, Mutations, Recoveries
  <1>3. CASE Subjects = {}
    <2> DEFINE x == Intent("inspect", 0, NoPlan, receipt.state)
    <2>1. Accept(receipt, x, FALSE)
      BY <1>3 DEF Inspect
    <2>2. receipt = Receipt3(receipt.state, receipt.binding, ops)
      BY <1>1, AmendIs
    <2>3. /\ x \in Intents /\ x.kind = "inspect" /\ x.of = 0 /\ x.plan = NoPlan
          /\ x.bootId = boot /\ x.phase = "accepted" /\ x.outcome = "pending"
          /\ x.attempt = "none"
      BY <1>1, <1>2, NoPlanIsPlan, IntentIs
    <2> HIDE DEF x
    <2>4. OpOK(x)
      BY <1>2, <2>3 DEF OpOK, OpRefined, Mutations
    <2>5. JournalOK(ops) /\ FlightOK(ops, flight, boot) /\ (Synced => SettledOK(ops))
      BY DEF ManagerInv
    <2>6. Accept(Receipt3(receipt.state, receipt.binding, ops), x, FALSE)
      BY <2>1, <2>2
    <2> QED BY <1>1, <1>2, <2>3, <2>4, <2>5, <2>6, AcceptStep
  <1>4. CASE Subjects # {}
    <2>1. PICK i \in Subjects :
             Accept([receipt EXCEPT !.state = "RECOVERY_REQUIRED",
                                    !.operations[i].outcome = "recovery-required"],
                    Intent("inspect", i, NoPlan, "RECOVERY_REQUIRED"), FALSE)
      BY <1>4 DEF Inspect
    <2>2. i \in DOMAIN ops /\ ops[i].outcome \in Open
      BY DEF Subjects, Pending, Unresolved, ops, Open
    <2> QED BY <1>1, <1>2, <2>1, <2>2, NoPlanIsPlan, TakeUpOK
  <1> QED BY <1>3, <1>4

\* A deactivate with nothing to take away is recorded as a no-op.
LEMMA DeactivateNothingOK ==
    ASSUME ManagerInv, DeactivateNothing
    PROVE  ManagerInv'
  <1> DEFINE x == [Intent("deactivate", 0, NoPlan, receipt.state)
                      EXCEPT !.phase = "terminal", !.outcome = "no-op"]
             p == Append(ops, x)
             new == Receipt3(receipt.state, receipt.binding, p)
             n == Len(ops) + 1
  <1>1. receipt \in Receipts /\ receipt.state \in States /\ ops \in Seq(Intents)
           /\ receipt.binding \in Projections /\ JournalOK(ops)
           /\ FlightOK(ops, flight, boot)
    BY DEF ManagerInv, Plain, Receipts, ops
  <1>2. "deactivate" \in Kinds /\ "deactivate" \notin Recoveries
           /\ "deactivate" # "inspect"
    BY DEF Kinds, Recoveries
  <1>3. /\ x \in Intents /\ x.kind = "deactivate" /\ x.of = 0 /\ x.plan = NoPlan
        /\ x.phase = "terminal" /\ x.outcome = "no-op" /\ x.attempt = "none"
    <2> DEFINE y == Intent("deactivate", 0, NoPlan, receipt.state)
    <2>1. /\ y \in Intents /\ y.kind = "deactivate" /\ y.of = 0 /\ y.plan = NoPlan
          /\ y.attempt = "none"
      BY <1>1, <1>2, NoPlanIsPlan, IntentIs
    <2> HIDE DEF y
    <2>2. x = [y EXCEPT !.phase = "terminal", !.outcome = "no-op"]
      BY DEF y
    <2> HIDE DEF x
    <2> QED BY <2>1, <2>2 DEF Intents, Phases, Outcomes
  <1>4. /\ \/ Written([receipt EXCEPT !.operations = Append(@, x)])
           \/ NotWritten([receipt EXCEPT !.operations = Append(@, x)])
        /\ UNCHANGED <<host, boot, dead, worker>> /\ worker = NoWorker
    BY DEF DeactivateNothing, MutationAdmitted
  <1> HIDE DEF x
  <1>5. [receipt EXCEPT !.operations = Append(@, x)] = new
    <2>1. receipt = Receipt3(receipt.state, receipt.binding, ops)
      BY <1>1, AmendIs
    <2>2. [Receipt3(receipt.state, receipt.binding, ops) EXCEPT !.operations = Append(@, x)]
             = new
      BY AppendedIs
    <2> QED BY <2>1, <2>2
  <1>6. /\ p \in Seq(Intents) /\ DOMAIN ops = 1..Len(ops) /\ DOMAIN p = 1..n
        /\ n \in Nat \ {0} /\ n \notin DOMAIN ops
        /\ (\A k \in DOMAIN ops : p[k] = ops[k]) /\ p[n] = x
    BY <1>1, <1>3, Appended
  <1> HIDE DEF p
  <1>7. Grows(ops, p, n, x) /\ x.of \in 0..(n - 1)
    BY <1>3, <1>6 DEF Grows
  <1>8. OpOK(x) /\ EndsAgree(x)
    BY <1>3 DEF OpOK, OpRefined, EndsAgree, Open, Recoveries
  <1>9. JournalOK(p)
    BY <1>1, <1>2, <1>3, <1>7, <1>8, JournalGrows
  <1>10. FlightOK(p, flight, boot)
    BY <1>1, <1>7, FlightGrows
  <1>11. Synced => SettledOK(p)
    BY <1>1, <1>2, <1>3, <1>7, <1>8, SettledGrows DEF ManagerInv
  <1>12. new \in Receipts /\ new.operations = p
    BY <1>1, <1>6 DEF Receipt3, Receipts
  <1> HIDE DEF new
  <1>13. faults \in Faults
    BY DEF ManagerInv, Plain, Faults
  <1>14. /\ faults' \in Faults /\ (Synced' => Synced)
         /\ receipt' = new \/ receipt' = receipt
    BY <1>4, <1>5, <1>13 DEF Written, NotWritten, Faults, Synced
  <1>15. boot' = boot /\ flight' = flight /\ dead' = dead /\ disk' = disk
            /\ live' = live /\ worker' = worker
    BY <1>4 DEF host
  <1>16. CASE receipt' = new
    <2>1. ops' = p
      BY <1>12, <1>16 DEF ops
    <2>2. dead \subseteq DOMAIN p
      BY <1>6 DEF ManagerInv, Plain
    <2>3. Plain'
      BY <1>12, <1>14, <1>15, <1>16, <2>1, <2>2 DEF ManagerInv, Plain, Faults
    <2>4. WorkerOK(p, receipt'.binding, flight, boot, worker') /\ WorkerSettled(p, worker')
      BY <1>4, <1>15 DEF WorkerOK, WorkerSettled
    <2> QED BY <1>9, <1>10, <1>11, <1>14, <1>15, <2>1, <2>3, <2>4 DEF ManagerInv
  <1>17. CASE receipt' = receipt
    <2>1. ops' = ops
      BY <1>17 DEF ops
    <2>2. Plain'
      BY <1>14, <1>15, <1>17, <2>1 DEF ManagerInv, Plain, Faults
    <2> QED BY <1>14, <1>15, <1>17, <2>1, <2>2 DEF ManagerInv
  <1> QED BY <1>14, <1>16, <1>17

-----------------------------------------------------------------------------
(* The host, the machine and other people *)

\* What a patch writes is a config.
LEMMA PatchWrites ==
    ASSUME ManagerInv, NEW i \in flight
    PROVE  PatchTarget(ops, i) \in Projections
  <1>1. ops[i].plan \in Plans
    BY DEF ManagerInv, FlightOK, JournalOK, OpOK, Intents
  <1> QED BY <1>1 DEF PatchTarget, Plans

\* Patches that are answered or lost.
LEMMA FlightShrinks ==
    ASSUME ManagerInv, receipt' = receipt, boot' = boot, worker' = worker,
           dead' = dead, flight' \subseteq flight,
           faults' \in Faults, Synced' => Synced,
           disk' \in Projections, live' \in Projections
    PROVE  ManagerInv'
  <1>1. ops' = ops
    BY DEF ops
  <1>2. Plain'
    BY <1>1 DEF ManagerInv, Plain, Faults
  <1>3. FlightOK(ops, flight', boot)
    BY DEF ManagerInv, FlightOK
  <1>4. WorkerOK(ops, receipt.binding, flight', boot, worker)
    BY DEF ManagerInv, WorkerOK
  <1> QED BY <1>1, <1>2, <1>3, <1>4 DEF ManagerInv

\* The host has worked off a patch, or dropped it.
LEMMA HostPatchOK ==
    ASSUME ManagerInv, NEW i \in flight, HostPatch(i)
    PROVE  ManagerInv'
  <1>1. disk' \in Projections /\ live' \in Projections
    BY PatchWrites DEF HostPatch, ManagerInv, Plain
  <1>2. faults' \in Faults /\ (Synced' <=> Synced) /\ flight' \subseteq flight
    BY DEF HostPatch, ManagerInv, Plain, Faults, Synced
  <1> QED BY <1>1, <1>2, FlightShrinks DEF HostPatch

\* An edit from outside touches nothing of the journal.
LEMMA DriftOK ==
    ASSUME ManagerInv, Drift
    PROVE  ManagerInv'
  <1>1. disk' \in Projections /\ live' \in Projections
    BY DEF Drift, ManagerInv, Plain
  <1>2. faults' \in Faults /\ (Synced' <=> Synced) /\ flight' \subseteq flight
    BY DEF Drift, ManagerInv, Plain, Faults, Synced
  <1> QED BY <1>1, <1>2, FlightShrinks DEF Drift

\* A new boot has no worker and no patch in flight.
LEMMA RestartOK ==
    ASSUME ManagerInv, Restart
    PROVE  ManagerInv'
  <1>1. ops' = ops /\ (Synced' <=> Synced)
    BY DEF Restart, ops, Synced
  <1>2. disk' \in Projections
    BY PatchWrites DEF Restart, ManagerInv, Plain
  <1>3. worker' = NoWorker /\ NoWorker \in Workers
    BY DEF Restart, NoWorker, Workers, Steps, Projections
  <1>4. boot' \in Nat \ {0} /\ dead' = {} /\ flight' = {}
           /\ live' = disk' /\ receipt' = receipt /\ faults' = faults
    BY DEF Restart, ManagerInv, Plain
  <1>5. Plain'
    BY <1>1, <1>2, <1>3, <1>4 DEF ManagerInv, Plain
  <1>6. FlightOK(ops, flight', boot') /\ WorkerOK(ops, receipt.binding, flight', boot', worker')
           /\ WorkerSettled(ops, worker')
    BY <1>3, <1>4 DEF FlightOK, WorkerOK, WorkerSettled
  <1> QED BY <1>1, <1>4, <1>5, <1>6 DEF ManagerInv

-----------------------------------------------------------------------------
(* The theorems *)

\* Every step of a worker keeps the invariant.
LEMMA WorkerStepOK ==
    ASSUME ManagerInv, WorkerStep
    PROVE  ManagerInv'
  BY CheckFailsOK, RecordFailureOK, DispatchThrewOK, PatchReturnedOK,
     PatchRejectedOK, MarkUnknownOK, SettleStepOK, PrepareOK, ReadRawOK, PlanOK,
     RecheckOK, VerifyOK, CommitOK, ReadForRecoveryOK, ClassifyOK, RedispatchOK,
     VerifyRecoveredOK, FinalizeOK, ReadForInspectOK, InspectConflictOK,
     InspectNoteOK, InspectSubjectOK, InspectCloseOK, InspectRefreshOK,
     InspectVerdictOK
  DEF WorkerStep

\* Every step keeps the invariant.
LEMMA NextOK == ManagerInv /\ [Next]_vars => ManagerInv'
  <1> SUFFICES ASSUME ManagerInv, [Next]_vars PROVE ManagerInv'
    OBVIOUS
  <1>1. CASE Request
    BY <1>1, ActivateOK, DeactivateOK, DeactivateNothingOK, InspectOK, ReconcileOK
       DEF Request
  <1>2. CASE WorkerStep
    BY <1>2, WorkerStepOK
  <1>3. ASSUME NEW i \in flight, HostPatch(i) PROVE ManagerInv'
    BY <1>3, HostPatchOK
  <1>4. CASE Restart
    BY <1>4, RestartOK
  <1>5. CASE Drift
    BY <1>5, DriftOK
  <1>6. CASE UNCHANGED vars
    BY <1>6 DEF vars, ManagerInv, Plain, ops, Synced
  <1> QED BY <1>1, <1>2, <1>3, <1>4, <1>5, <1>6 DEF Next

\* The inductive invariant: what the journal says of plans, recoveries and
\* patches, where the worker is with its operation, and, as long as no write
\* is done that its writer thinks was not, that ends and recoveries agree.
THEOREM JournalInvariant == Spec => []ManagerInv
  BY InitOK, NextOK, PTL DEF Spec

\* No worker and no request ever hands the journal a receipt that its schema
\* or assertReceiptRefinements refuses (journal.ts), whatever the host answers
\* and whatever is written or lost.
THEOREM NoReceiptRefused == Spec => []ReceiptRefined
  <1>1. ManagerInv => ReceiptRefined
    BY InvTypes, InvRefined DEF ReceiptRefined
  <1> QED BY <1>1, JournalInvariant, PTL

\* A patch that the host may still be running is always known to the journal
\* as open, and is the only one of its recovery chain (the same-boot gate of
\* reconcile, manager.ts).
THEOREM PatchesAreGuarded == Spec => []OneGuardedPatch
  BY InvGuarded, JournalInvariant, PTL

\* What recovery rests on (journal.ts, manager.ts reconcile): a journal that
\* is well formed, and open where a patch may still run.
THEOREM RecoveryMayTrustTheJournal == Spec => []JournalIsSound
  BY NoReceiptRefused, PatchesAreGuarded, PTL DEF JournalIsSound

\* A recovery that succeeded has settled everything it recovered
\* (settleChain), as long as no receipt is written that its writer thinks was
\* not.
THEOREM RecoverySettles == Spec => []ChainsSettle
  BY InvSettles, JournalInvariant, PTL

-----------------------------------------------------------------------------
(* Settled states: the invariant *)

\* What is open and has to do with the config.
Work(o) == {i \in DOMAIN o : o[i].kind # "inspect" /\ o[i].outcome \in Open}

\* What is under way is the last that was accepted.
Ordered(o) == \A i, j \in DOMAIN o : o[i].outcome = "pending" => j <= i

\* NothingLeftOpen, of a journal.
LeftNothing(o) ==
    \A i, j \in DOMAIN o :
       {o[i].kind, o[j].kind} \subseteq Recoveries /\ i < j /\ OneChain(o, i, j) =>
          \/ i \in Chain(o, j)
          \/ o[i].outcome \notin Open /\ \A k \in DOMAIN o : o[k].of # i

\* The settled state st is true of binding b, file d and daemon l.
Rests(st, b, d, l) ==
    /\ st = "ACTIVE" => b # Absent /\ d = b /\ l = b
    /\ st = "INACTIVE" => b = Absent /\ d = l

Settled == {"ACTIVE", "INACTIVE"}

\* An operation is accepted in a settled state or in recovery, and what takes
\* up another in recovery.
PriorsOK(o) ==
    \A i \in DOMAIN o :
       /\ o[i].priorState \in Settled \cup {"RECOVERY_REQUIRED"}
       /\ o[i].of # 0 => o[i].priorState = "RECOVERY_REQUIRED"

\* Before it has a plan a mutation is alone; after that all that is open is
\* one line of recoveries with one plan, at or between its endpoints.
OneLine(o, d, l) ==
    \A i \in Work(o) :
       /\ o[i].plan = NoPlan => Work(o) = {i}
       /\ o[i].plan # NoPlan =>
             /\ {d, l} \subseteq {o[i].plan.before, o[i].plan.after}
             /\ o[i].plan.previousBinding # Absent
                   => o[i].plan.before = o[i].plan.previousBinding
       /\ \A j \in Work(o) : i < j => i \in Chain(o, j) /\ o[i].plan = o[j].plan

\* What the state of the receipt says.
StateOK(o, st, b, d, l) ==
    /\ Rests(st, b, d, l)
    /\ st \in Settled => Work(o) = {}
    /\ st = "ACTIVATING" =>
          \E i \in DOMAIN o : o[i].outcome = "pending" /\ o[i].kind = "activate"
    /\ st = "DEACTIVATING" =>
          \E i \in DOMAIN o : o[i].outcome = "pending" /\ o[i].kind = "deactivate"

\* Where a worker is when its patch has not been sent.
Early == {"start", "read", "plan", "recheck", "threw"}

\* Its patch has not been sent.
Unsent(o, i, w) ==
    \/ o[i].attempt \in {"none", "threw"}
    \/ w # NoWorker /\ w.op = i /\ w.at \in Early

\* A mutation under way started from the binding, and the config is what it
\* was until the patch is sent.
MutationOK(o, b, d, l, w) ==
    \A i \in Work(o) : o[i].outcome = "pending" /\ o[i].kind \in Mutations =>
       /\ Work(o) = {i}
       /\ o[i].plan = NoPlan => (o[i].priorState = "RECOVERY_REQUIRED" => b = Absent)
       /\ o[i].plan # NoPlan =>
             /\ b = o[i].plan.previousBinding
             /\ o[i].priorState = "ACTIVE" <=> b # Absent
             /\ Unsent(o, i, w) => d = o[i].plan.before /\ l = d

\* While something is under way no patch but its own may still be running.
OwnPatch(o, f) == \A i \in Work(o) : o[i].outcome = "pending" => f \subseteq {i}

\* An open operation without a plan whose end brings a settled state back.
Returns(o) == {s \in DOMAIN o : /\ o[s].outcome \in Open
                                /\ o[s].plan = NoPlan
                                /\ o[s].priorState # "RECOVERY_REQUIRED"}

\* That state is still true, and nothing else is open but inspects, which
\* bring recovery back.
ReturnsOK(o, st, b, d, l) ==
    \A s \in Returns(o) :
       /\ Rests(o[s].priorState, b, d, l)
       /\ \A i \in DOMAIN o : i # s /\ o[i].outcome \in Open =>
             o[i].kind = "inspect" /\ o[i].priorState = "RECOVERY_REQUIRED"
       /\ o[s].outcome = "recovery-required" => st = "RECOVERY_REQUIRED"

\* What a worker has read is still so where it acts on it.
WorkerKnows(o, st, b, d, l, w) ==
    w # NoWorker =>
       /\ o[w.op].outcome = "pending" \/ o[w.op].of # 0
       /\ w.at \in {"plan", "classify"} /\ o[w.op].kind # "inspect" => w.disk = d
       /\ w.at \in {"verify", "commit"} => d = PatchTarget(o, w.op) /\ l = d
       /\ w.at \in {"start", "judge"} /\ o[w.op].kind = "inspect" /\ o[w.op].of # 0 =>
             o[o[w.op].of].outcome = "recovery-required"
       /\ w.at = "judge" /\ (\A i \in Work(o) : o[i].plan = NoPlan) => w.disk = d
       /\ w.at = "verdict" /\ Work(o) = {} => d = b /\ l = b
       /\ w.at = "close" => st = o[o[w.op].of].priorState

CalmAt(o, st, b, d, l, f, w) ==
    /\ PriorsOK(o)
    /\ OneLine(o, d, l)
    /\ StateOK(o, st, b, d, l)
    /\ MutationOK(o, b, d, l, w)
    /\ OwnPatch(o, f)
    /\ ReturnsOK(o, st, b, d, l)
    /\ WorkerKnows(o, st, b, d, l, w)

Calm == CalmAt(ops, receipt.state, receipt.binding, disk, live, flight, worker)

CalmInv ==
    /\ ManagerInv
    /\ Synced => Ordered(ops)
    /\ Undisturbed => Calm

\* What a step has to show of it.
CalmNext == (Synced' => Ordered(ops')) /\ (Undisturbed' => Calm')

\* NothingLeftOpen is about the journal only.
LEMMA LeftNothingIs == NothingLeftOpen <=> LeftNothing(ops)
  BY DEF NothingLeftOpen, LeftNothing, Open

\* What a step that no fault disturbs is a step from.
LEMMA LookBack ==
    ASSUME CalmInv, Synced' => Synced, faults'.drift = faults.drift,
           Synced' /\ Ordered(ops) => Ordered(ops'),
           Synced' /\ Ordered(ops) /\ LeftNothing(ops') => LeftNothing(ops),
           Synced' /\ Undisturbed /\ Undisturbed' /\ Ordered(ops) /\ Calm =>
              CalmAt(ops', receipt'.state, receipt'.binding, disk', live', flight', worker')
    PROVE  CalmNext
  <1>1. Undisturbed' => Undisturbed
    BY LeftNothingIs DEF Undisturbed, CalmInv, NothingLeftOpen, LeftNothing, Open
  <1> QED BY <1>1 DEF CalmNext, CalmInv, Calm, Undisturbed

\* Operations keep what they are about; what has ended stays ended.
Steady(o, p) ==
    /\ DOMAIN p = DOMAIN o
    /\ \A k \in DOMAIN o :
          /\ p[k].kind = o[k].kind /\ p[k].of = o[k].of
          /\ p[k].priorState = o[k].priorState
          /\ p[k].outcome \in Open => o[k].outcome \in Open
          /\ p[k].outcome = "pending" => o[k].outcome = "pending"

\* And they keep their plans.
Same(o, p) == Steady(o, p) /\ \A k \in DOMAIN o : p[k].plan = o[k].plan

\* Steady keeps chains and the order, and opens nothing.
LEMMA SteadyKeeps ==
    ASSUME NEW o, NEW p, Steady(o, p)
    PROVE  /\ \A i : Chain(p, i) = Chain(o, i)
           /\ Work(p) \subseteq Work(o)
           /\ PriorsOK(o) => PriorsOK(p)
           /\ Ordered(o) => Ordered(p)
  <1>1. \A i : Chain(p, i) = Chain(o, i)
    BY ChainSame DEF Steady
  <1>2. Work(p) \subseteq Work(o)
    BY DEF Work, Steady
  <1>3. PriorsOK(o) => PriorsOK(p)
    BY DEF PriorsOK, Steady
  <1>4. Ordered(o) => Ordered(p)
    BY DEF Ordered, Steady
  <1> QED BY <1>1, <1>2, <1>3, <1>4

\* With the plans, what chains drive at is the same.
LEMMA SameKeeps ==
    ASSUME NEW o, NEW p, Same(o, p)
    PROVE  /\ \A i \in DOMAIN o : PatchTarget(p, i) = PatchTarget(o, i)
           /\ Returns(p) \subseteq Returns(o)
  <1>1. ASSUME NEW i \in DOMAIN o PROVE PatchTarget(p, i) = PatchTarget(o, i)
    <2>1. Chain(p, i) = Chain(o, i) /\ \A j \in Chain(o, i) : p[j].kind = o[j].kind
      BY SteadyKeeps, ChainDomain DEF Same, Steady
    <2>2. ChainTarget(p, i) = ChainTarget(o, i)
      BY <2>1 DEF ChainTarget
    <2> QED BY <2>2 DEF PatchTarget, Same
  <1>2. Returns(p) \subseteq Returns(o)
    BY DEF Returns, Same, Steady
  <1> QED BY <1>1, <1>2

\* When only what is last ends by itself, nothing is left behind that was not.
LEMMA LeftBefore ==
    ASSUME NEW o, NEW p, Steady(o, p), LeftNothing(p),
           \A k \in DOMAIN o : /\ o[k].kind \in Recoveries /\ o[k].outcome \in Open
                               /\ p[k].outcome \notin Open
                  => \/ \A j \in DOMAIN o : ~(k < j)
                     \/ \E m \in DOMAIN o : o[m].of = k
    PROVE  LeftNothing(o)
  <1>1. \A i, j : OneChain(p, i, j) <=> OneChain(o, i, j)
    BY SteadyKeeps DEF OneChain
  <1>2. \A i : Chain(p, i) = Chain(o, i)
    BY SteadyKeeps
  <1> SUFFICES ASSUME NEW i \in DOMAIN o, NEW j \in DOMAIN o,
                      {o[i].kind, o[j].kind} \subseteq Recoveries, i < j, OneChain(o, i, j),
                      i \notin Chain(o, j)
               PROVE  o[i].outcome \notin Open /\ \A k \in DOMAIN o : o[k].of # i
    BY DEF LeftNothing
  <1>3. p[i].outcome \notin Open /\ \A k \in DOMAIN p : p[k].of # i
    BY <1>1, <1>2 DEF LeftNothing, Steady
  <1> QED BY <1>3 DEF Steady

\* The line of what is open, when some of it ends.
LEMMA LineKept ==
    ASSUME NEW o, NEW p, NEW d, NEW l, Same(o, p), OneLine(o, d, l)
    PROVE  OneLine(p, d, l)
  <1>1. \A i : Chain(p, i) = Chain(o, i)
    BY SteadyKeeps DEF Same
  <1>2. Work(p) \subseteq Work(o)
    BY SteadyKeeps DEF Same
  <1>3. \A i \in Work(p) : i \in DOMAIN o /\ p[i].plan = o[i].plan
    BY DEF Work, Same, Steady
  <1> QED BY <1>1, <1>2, <1>3 DEF OneLine

\* The journal goes into, or stays in, recovery.
LEMMA ToRecovery ==
    ASSUME NEW o, NEW p, NEW st, NEW b, NEW d, NEW l, NEW f, NEW v, NEW w,
           Same(o, p), CalmAt(o, st, b, d, l, f, v),
           \A k \in DOMAIN o : p[k].outcome = "pending" /\ Unsent(p, k, w) => Unsent(o, k, v),
           WorkerKnows(p, "RECOVERY_REQUIRED", b, d, l, w)
    PROVE  CalmAt(p, "RECOVERY_REQUIRED", b, d, l, f, w)
  <1>1. PriorsOK(p)
    BY SteadyKeeps DEF CalmAt, Same
  <1>2. OneLine(p, d, l)
    BY LineKept DEF CalmAt
  <1>3. StateOK(p, "RECOVERY_REQUIRED", b, d, l)
    BY DEF StateOK, Rests, Settled
  <1>4. \A i \in Work(p) : i \in Work(o) /\ i \in DOMAIN o
    BY DEF Work, Same, Steady
  <1>5. MutationOK(p, b, d, l, w)
    BY <1>4 DEF MutationOK, CalmAt, Same, Steady
  <1>6. OwnPatch(p, f)
    BY <1>4 DEF OwnPatch, CalmAt, Same, Steady
  <1>7. ReturnsOK(p, "RECOVERY_REQUIRED", b, d, l)
    BY SameKeeps DEF ReturnsOK, CalmAt, Same, Returns, Steady
  <1> QED BY <1>1, <1>2, <1>3, <1>5, <1>6, <1>7 DEF CalmAt

\* Nothing is open that has to do with the config, and the state is true.
LEMMA AtRest ==
    ASSUME NEW p, NEW st \in Settled, NEW b, NEW d, NEW l, NEW f, NEW w,
           PriorsOK(p), Work(p) = {}, Returns(p) = {}, Rests(st, b, d, l),
           WorkerKnows(p, st, b, d, l, w)
    PROVE  CalmAt(p, st, b, d, l, f, w)
  <1>1. st # "ACTIVATING" /\ st # "DEACTIVATING"
    BY DEF Settled
  <1> QED BY <1>1 DEF CalmAt, OneLine, StateOK, MutationOK, OwnPatch, ReturnsOK

\* What is under way goes on.
LEMMA GoesOn ==
    ASSUME NEW o, NEW p, NEW st, NEW b, NEW d, NEW l, NEW f, NEW g, NEW v, NEW w,
           NEW n \in DOMAIN o, Same(o, p), CalmAt(o, st, b, d, l, f, v),
           \A k \in DOMAIN o : p[k].outcome = o[k].outcome,
           \A k \in DOMAIN o : o[k].outcome = "pending" => k = n,
           \A k \in g : k \in f \/ k = n,
           o[n].outcome = "pending" /\ o[n].kind \in Mutations /\ o[n].plan # NoPlan
              /\ Unsent(p, n, w) => Unsent(o, n, v),
           WorkerKnows(p, st, b, d, l, w)
    PROVE  CalmAt(p, st, b, d, l, g, w)
  <1>1. PriorsOK(p)
    BY SteadyKeeps DEF CalmAt, Same
  <1>2. OneLine(p, d, l)
    BY LineKept DEF CalmAt
  <1>3. Work(p) = Work(o) /\ Work(o) \subseteq DOMAIN o
    BY DEF Work, Same, Steady
  <1>4. StateOK(p, st, b, d, l)
    BY <1>3 DEF StateOK, CalmAt, Same, Steady
  <1>5. MutationOK(p, b, d, l, w)
    BY <1>3 DEF MutationOK, CalmAt, Same, Steady
  <1>6. OwnPatch(p, g)
    BY <1>3 DEF OwnPatch, CalmAt, Same, Steady
  <1>7. ReturnsOK(p, st, b, d, l)
    <2>1. Returns(p) \subseteq Returns(o) /\ Returns(o) \subseteq DOMAIN o /\ DOMAIN p = DOMAIN o
      BY SameKeeps DEF Returns, Same, Steady
    <2>2. \A i \in DOMAIN o : /\ p[i].kind = o[i].kind /\ p[i].priorState = o[i].priorState
                               /\ p[i].outcome = o[i].outcome
      BY DEF Same, Steady
    <2> QED BY <2>1, <2>2 DEF ReturnsOK, CalmAt
  <1> QED BY <1>1, <1>2, <1>4, <1>5, <1>6, <1>7 DEF CalmAt

-----------------------------------------------------------------------------
(* Settled states: the worker's steps *)

\* The worker's operation, and that nothing else is under way.
LEMMA AtHand ==
    ASSUME CalmInv, Synced, worker # NoWorker
    PROVE  /\ worker.op \in DOMAIN ops /\ Op = ops[worker.op] /\ OpOK(Op) /\ Op \in Intents
           /\ Op.kind # "inspect" => Op.outcome = "pending" /\ worker.op \in Work(ops)
           /\ Op.outcome = "pending" =>
                 /\ \A k \in DOMAIN ops : ops[k].outcome = "pending" => k = worker.op
                 /\ \A k \in DOMAIN ops : ~(worker.op < k)
  <1>1. worker.op \in DOMAIN ops /\ Op = ops[worker.op] /\ OpOK(Op) /\ Op \in Intents
    BY FitsItself DEF CalmInv, OpOK
  <1>2. Op.kind # "inspect" => Op.outcome = "pending" /\ worker.op \in Work(ops)
    BY <1>1, FitsItself DEF CalmInv, Work, Open
  <1>3. Op.outcome = "pending" => \A k \in DOMAIN ops : ops[k].outcome = "pending" => k = worker.op
    BY <1>1 DEF CalmInv, ManagerInv, JournalOK
  <1>4. Op.outcome = "pending" => \A k \in DOMAIN ops : ~(worker.op < k)
    <2>1. \A k \in DOMAIN ops : k \in Nat
      BY DEF CalmInv, ManagerInv, JournalOK
    <2> QED BY <1>1, <2>1 DEF CalmInv, Ordered
  <1> QED BY <1>1, <1>2, <1>3, <1>4

\* A worker that stops or fails knows nothing it will use.
LEMMA Stops ==
    ASSUME NEW o, NEW st, NEW b, NEW d, NEW l, NEW f, NEW v, NEW w,
           CalmAt(o, st, b, d, l, f, v), v # NoWorker,
           w = NoWorker \/ (w.op = v.op /\ w.at \in {"fail", "note"})
    PROVE  CalmAt(o, st, b, d, l, f, w)
  <1>1. WorkerKnows(o, st, b, d, l, w)
    BY DEF WorkerKnows, CalmAt
  <1>2. MutationOK(o, b, d, l, w)
    BY DEF MutationOK, Unsent, Early, CalmAt
  <1> QED BY <1>1, <1>2 DEF CalmAt

\* The same of the step: the write was not done.
LEMMA Unwritten ==
    ASSUME CalmInv, receipt' = receipt, UNCHANGED host, faults'.drift = faults.drift,
           Synced' => Synced, worker # NoWorker,
           worker' = NoWorker \/ (worker'.op = worker.op /\ worker'.at \in {"fail", "note"})
    PROVE  CalmNext
  <1>1. ops' = ops /\ disk' = disk /\ live' = live /\ flight' = flight
    BY DEF ops, host
  <1>2. Calm => CalmAt(ops', receipt'.state, receipt'.binding, disk', live', flight', worker')
    BY <1>1, Stops DEF Calm
  <1> QED BY <1>1, <1>2, LookBack

\* A journal with the worker's operation changed to x.
Becomes(p, x) ==
    /\ Steady(ops, p) /\ Amends(ops, p, worker.op) /\ p[worker.op] = x

\* The worker's operation becomes x, with or without an end.
LEMMA Changed ==
    ASSUME CalmInv, worker # NoWorker, Synced, NEW x,
           Fits(Op, x), x.priorState = Op.priorState,
           x.outcome \in Open => Op.outcome \in Open
    PROVE  /\ Becomes(Edit(ops, worker.op, x), x)
           /\ Ordered(ops) => Ordered(Edit(ops, worker.op, x))
           /\ LeftNothing(Edit(ops, worker.op, x)) => LeftNothing(ops)
  <1> DEFINE p == Edit(ops, worker.op, x)
  <1>1. ops \in Seq(Intents) /\ x \in Intents /\ worker.op \in DOMAIN ops /\ Op = ops[worker.op]
    BY AtHand DEF CalmInv, ManagerInv, Plain, Receipts, ops, Fits, OpOK
  <1>2. Amends(ops, p, worker.op) /\ p[worker.op] = x
    BY <1>1, EditAmends
  <1> HIDE DEF p
  <1>3. Steady(ops, p)
    BY <1>1, <1>2 DEF Steady, Amends, Fits
  <1>4. Ordered(ops) => Ordered(p)
    BY <1>3, SteadyKeeps
  <1>5. LeftNothing(p) => LeftNothing(ops)
    <2>1. ASSUME NEW k \in DOMAIN ops, ops[k].kind \in Recoveries, ops[k].outcome \in Open,
                 p[k].outcome \notin Open
          PROVE  \A j \in DOMAIN ops : ~(k < j)
      <3>1. k = worker.op
        BY <1>2, <2>1 DEF Amends
      <3>2. Op.kind # "inspect"
        BY <1>1, <2>1, <3>1 DEF Recoveries
      <3> QED BY <3>1, <3>2, AtHand
    <2> QED BY <1>3, <2>1, LeftBefore
  <1> QED BY <1>2, <1>3, <1>4, <1>5 DEF Becomes, p

\* A write of the worker's, done or not.
Writes(new, next) ==
    \/ Written(new) /\ worker' = next
    \/ NotWritten(new) /\ worker' \in {NoWorker, [worker EXCEPT !.at = "fail"]}

\* What such a write leads to.
LEMMA Wrote ==
    ASSUME CalmInv, worker # NoWorker, NEW x, NEW st, NEW b, NEW next,
           Writes(Receipt3(st, b, Edit(ops, worker.op, x)), next), UNCHANGED host,
           Fits(Op, x), x.priorState = Op.priorState,
           Synced => (x.outcome \in Open => Op.outcome \in Open),
           Synced /\ Undisturbed /\ Calm =>
              \A p : Becomes(p, x) => CalmAt(p, st, b, disk, live, flight, next)
    PROVE  CalmNext
  <1> DEFINE p == Edit(ops, worker.op, x)
             new == Receipt3(st, b, p)
  <1>1. new.operations = p /\ new.state = st /\ new.binding = b
    BY DEF Receipt3
  <1>2. /\ Synced' => Synced
        /\ faults'.drift = faults.drift
        /\ \/ receipt' = new /\ worker' = next
           \/ receipt' = receipt /\ worker' \in {NoWorker, [worker EXCEPT !.at = "fail"]}
           \/ receipt' = new /\ ~Synced'
    <2>1. faults \in Faults
      BY DEF CalmInv, ManagerInv, Plain, Faults
    <2>2. Writes(new, next)
      OBVIOUS
    <2> HIDE DEF new
    <2> QED BY <2>1, <2>2 DEF Writes, Written, NotWritten, Faults, Synced
  <1>4. disk' = disk /\ live' = live /\ flight' = flight
    BY DEF host
  <1> HIDE DEF p, new
  <1>5. CASE receipt' = new /\ worker' = next /\ Synced'
    <2>1. Becomes(p, x) /\ (Ordered(ops) => Ordered(p)) /\ (LeftNothing(p) => LeftNothing(ops))
      BY <1>2, <1>5, Changed DEF p
    <2>2. ops' = p /\ receipt'.state = st /\ receipt'.binding = b
      BY <1>1, <1>5 DEF ops
    <2> QED BY <1>2, <1>4, <1>5, <2>1, <2>2, LookBack
  <1>6. CASE receipt' = receipt /\ worker' \in {NoWorker, [worker EXCEPT !.at = "fail"]}
    <2>1. worker' = NoWorker \/ (worker'.op = worker.op /\ worker'.at = "fail")
      BY <1>6 DEF CalmInv, ManagerInv, Plain, Workers
    <2> QED BY <1>2, <1>6, <2>1, Unwritten
  <1>7. CASE ~Synced'
    BY <1>7 DEF CalmNext, Undisturbed
  <1> QED BY <1>2, <1>5, <1>6, <1>7

\* A step that writes nothing.
LEMMA Moved ==
    ASSUME CalmInv, worker # NoWorker, receipt' = receipt, faults' = faults, UNCHANGED host,
           Synced /\ Undisturbed /\ Calm =>
              /\ Op.outcome = "pending"
              /\ WorkerKnows(ops, receipt.state, receipt.binding, disk, live, worker')
              /\ worker' # NoWorker /\ worker'.at \in Early
                    => worker'.op = worker.op /\ worker.at \in Early
    PROVE  CalmNext
  <1>1. ops' = ops /\ disk' = disk /\ live' = live /\ flight' = flight
           /\ (Synced' <=> Synced)
    BY DEF ops, host, Synced
  <1>2. ASSUME Synced, Undisturbed, Calm
        PROVE  CalmAt(ops, receipt.state, receipt.binding, disk, live, flight, worker')
    <2>1. Same(ops, ops)
      BY DEF Same, Steady
    <2>2. \A k \in DOMAIN ops : Unsent(ops, k, worker') => Unsent(ops, k, worker)
      BY <1>2 DEF Unsent, Early
    <2>3. \A k \in DOMAIN ops : ops[k].outcome = "pending" => k = worker.op
      BY <1>2, AtHand
    <2>4. worker.op \in DOMAIN ops
      BY <1>2, AtHand
    <2> QED BY <1>2, <2>1, <2>2, <2>3, <2>4, GoesOn DEF Calm
  <1> QED BY <1>1, <1>2, LookBack

\* What two of its actions share: a write of Amend, after which the worker
\* goes on with its operation, and how far its patch has got changed at most.
LEMMA AmendedCalm ==
    ASSUME CalmInv, worker # NoWorker, NEW x, NEW step \in Steps,
           Journal(Amend(x), [worker EXCEPT !.at = step]), UNCHANGED host,
           Fits(Op, x), x.plan = Op.plan, x.priorState = Op.priorState,
           x.outcome = "pending", Op.outcome = "pending",
           \/ step \in {"read", "mark", "settle", "fail"}
           \/ step = "commit" /\ worker.at = "verify",
           x.attempt \in {"none", "threw"} => Op.attempt \in {"none", "threw"}
                                                 \/ worker.at \in Early,
           step = "read" => worker.at \in Early
    PROVE  CalmNext
  <1> DEFINE next == [worker EXCEPT !.at = step]
  <1>1. next \in Workers /\ next.op = worker.op /\ next.at = step
    BY NextWorker DEF CalmInv
  <1>2. Amend(x) = Receipt3(receipt.state, receipt.binding, Edit(ops, worker.op, x))
    BY AmendIs DEF CalmInv, ManagerInv, Plain
  <1> HIDE DEF next
  <1>3. ASSUME Synced, Undisturbed, Calm, NEW p, Becomes(p, x)
        PROVE  CalmAt(p, receipt.state, receipt.binding, disk, live, flight, next)
    <2>1. worker.op \in DOMAIN ops /\ Op = ops[worker.op]
            /\ \A k \in DOMAIN ops : ops[k].outcome = "pending" => k = worker.op
      BY <1>3, AtHand
    <2>2. Same(ops, p) /\ \A k \in DOMAIN ops : p[k].outcome = ops[k].outcome
      BY <1>3, <2>1 DEF Becomes, Amends, Same
    <2>3. Unsent(p, worker.op, next) => Unsent(ops, worker.op, worker)
      BY <1>1, <1>3, <2>1 DEF Unsent, Early, Becomes
    <2>4. WorkerKnows(p, receipt.state, receipt.binding, disk, live, next)
      <3>1. worker.at = "verify" => disk = PatchTarget(ops, worker.op) /\ live = disk
        BY <1>3 DEF Calm, CalmAt, WorkerKnows
      <3>2. PatchTarget(p, worker.op) = PatchTarget(ops, worker.op)
        BY <2>1, <2>2, SameKeeps
      <3> QED BY <1>1, <1>3, <3>1, <3>2 DEF WorkerKnows, Becomes
    <2> QED BY <1>3, <2>1, <2>2, <2>3, <2>4, GoesOn DEF Calm
  <1>4. Journal(Receipt3(receipt.state, receipt.binding, Edit(ops, worker.op, x)), next)
    BY <1>2 DEF next
  <1>5. Writes(Receipt3(receipt.state, receipt.binding, Edit(ops, worker.op, x)), next)
    BY <1>4 DEF Journal, Writes
  <1> QED BY <1>3, <1>5, Wrote

\* A write of Conclude with which the worker's operation ends in recovery.
LEMMA RecoveryNext ==
    ASSUME CalmInv, worker # NoWorker, NEW x, NEW next,
           Writes(Conclude(x, "RECOVERY_REQUIRED"), next),
           next = NoWorker \/ (next.op = worker.op /\ next.at = "note" /\ Op.of # 0),
           UNCHANGED host, Fits(Op, x), x.plan = Op.plan, x.priorState = Op.priorState,
           Synced => (x.outcome \in Open => Op.outcome \in Open), x.outcome # "pending"
    PROVE  CalmNext
  <1>1. Conclude(x, "RECOVERY_REQUIRED")
          = Receipt3("RECOVERY_REQUIRED", receipt.binding, Edit(ops, worker.op, x))
    BY AmendIs DEF CalmInv, ManagerInv, Plain
  <1>2. ASSUME Synced, Undisturbed, Calm, NEW p, Becomes(p, x)
        PROVE  CalmAt(p, "RECOVERY_REQUIRED", receipt.binding, disk, live, flight, next)
    <2>1. worker.op \in DOMAIN ops /\ Op = ops[worker.op]
      BY <1>2, AtHand
    <2>2. Same(ops, p)
      BY <1>2, <2>1 DEF Becomes, Amends, Same
    <2>3. \A k \in DOMAIN ops : p[k].outcome = "pending" /\ Unsent(p, k, next)
                                      => Unsent(ops, k, worker)
      BY <1>2, <2>1 DEF Unsent, Early, Becomes, Amends
    <2>4. WorkerKnows(p, "RECOVERY_REQUIRED", receipt.binding, disk, live, next)
      BY <1>2, <2>1 DEF WorkerKnows, Becomes, Steady
    <2>5. CalmAt(ops, receipt.state, receipt.binding, disk, live, flight, worker)
      BY <1>2 DEF Calm
    <2> QED BY <2>2, <2>3, <2>4, <2>5, ToRecovery
  <1>3. Writes(Receipt3("RECOVERY_REQUIRED", receipt.binding, Edit(ops, worker.op, x)), next)
    BY <1>1
  <1> QED BY <1>2, <1>3, Wrote

\* The worker's own end with it.
LEMMA RecoveryLast ==
    ASSUME CalmInv, worker # NoWorker, NEW x, Writes(Conclude(x, "RECOVERY_REQUIRED"), NoWorker),
           UNCHANGED host, Fits(Op, x), x.plan = Op.plan, x.priorState = Op.priorState,
           Synced => (x.outcome \in Open => Op.outcome \in Open), x.outcome # "pending"
    PROVE  CalmNext
  BY RecoveryNext

\* A mutation that ends without its effect: the state it was accepted in is
\* as true as it was.
LEMMA MutationFailed ==
    ASSUME CalmInv, Synced, Undisturbed, Calm, worker # NoWorker, Op.kind \in Mutations,
           Op.plan # NoPlan => disk = Op.plan.before /\ live = disk,
           NEW x, NEW p, Becomes(p, x), Fits(Op, x), x.plan = Op.plan,
           x.priorState = Op.priorState, x.outcome = "failed"
    PROVE  CalmAt(p, Op.priorState, receipt.binding, disk, live, flight, NoWorker)
  <1>1. /\ worker.op \in DOMAIN ops /\ Op = ops[worker.op] /\ worker.op \in Work(ops)
        /\ Op.outcome = "pending"
    BY AtHand DEF Mutations
  <1>2. Same(ops, p)
    BY <1>1 DEF Becomes, Amends, Same
  <1>3. WorkerKnows(p, Op.priorState, receipt.binding, disk, live, NoWorker)
    BY DEF WorkerKnows
  <1>4. Op.priorState \in Settled \cup {"RECOVERY_REQUIRED"} /\ PriorsOK(p)
    BY <1>1, SteadyKeeps DEF Calm, CalmAt, PriorsOK, Becomes
  <1>5. CASE Op.priorState = "RECOVERY_REQUIRED"
    <2>1. \A k \in DOMAIN ops : p[k].outcome = "pending" /\ Unsent(p, k, NoWorker)
                                      => Unsent(ops, k, worker)
      BY <1>1 DEF Unsent, Early, Becomes, Amends
    <2> QED BY <1>2, <1>3, <1>5, <2>1, ToRecovery DEF Calm
  <1>6. CASE Op.priorState \in Settled
    <2>1. Work(ops) = {worker.op}
      BY <1>1 DEF Calm, CalmAt, MutationOK
    <2>2. Work(p) = {}
      BY <1>1, <2>1, SteadyKeeps DEF Becomes, Work, Open
    <2>3. Returns(p) = {}
      <3> SUFFICES ASSUME NEW s \in Returns(p) PROVE FALSE
        OBVIOUS
      <3>1. s \in Returns(ops) /\ s # worker.op /\ s \in DOMAIN ops
        BY <1>1, <1>2, SameKeeps DEF Returns, Becomes, Open, Steady
      <3>2. Op.kind = "inspect"
        BY <1>1, <3>1 DEF Calm, CalmAt, ReturnsOK, Open
      <3> QED BY <3>2 DEF Mutations
    <2>4. Rests(Op.priorState, receipt.binding, disk, live)
      <3>1. CASE Op.plan = NoPlan
        <4>1. worker.op \in Returns(ops)
          BY <1>1, <1>6, <3>1 DEF Returns, Settled, Open
        <4> QED BY <1>1, <4>1 DEF Calm, CalmAt, ReturnsOK
      <3>2. CASE Op.plan # NoPlan
        <4>1. receipt.binding = Op.plan.previousBinding
                /\ (Op.priorState = "ACTIVE" <=> receipt.binding # Absent)
          BY <1>1, <3>2 DEF Calm, CalmAt, MutationOK
        <4>2. Op.plan.previousBinding # Absent => Op.plan.before = Op.plan.previousBinding
          BY <1>1, <3>2 DEF Calm, CalmAt, OneLine
        <4> QED BY <3>2, <4>1, <4>2, <1>6 DEF Rests, Settled
      <3> QED BY <3>1, <3>2
    <2> QED BY <1>3, <1>4, <1>6, <2>2, <2>3, <2>4, AtRest
  <1> QED BY <1>4, <1>5, <1>6

\* An inspect under way that gives a settled state back: nothing else is open
\* that has to do with the config, and that state is true.
LEMMA InspectGivesBack ==
    ASSUME CalmInv, Synced, Undisturbed, Calm, worker # NoWorker, Op.kind = "inspect",
           Op.outcome = "pending", Op.priorState # "RECOVERY_REQUIRED"
    PROVE  /\ Work(ops) = {} /\ Returns(ops) = {worker.op} /\ Op.priorState \in Settled
           /\ Rests(Op.priorState, receipt.binding, disk, live)
  <1>1. worker.op \in DOMAIN ops /\ Op = ops[worker.op] /\ OpOK(Op)
    BY AtHand
  <1>2. worker.op \in Returns(ops)
    BY <1>1 DEF Returns, OpOK, Open
  <1>3. \A i \in DOMAIN ops : i # worker.op /\ ops[i].outcome \in Open =>
           ops[i].kind = "inspect" /\ ops[i].priorState = "RECOVERY_REQUIRED"
    BY <1>2 DEF Calm, CalmAt, ReturnsOK
  <1>4. Work(ops) = {}
    BY <1>1, <1>3 DEF Work
  <1>5. Returns(ops) = {worker.op}
    BY <1>2, <1>3 DEF Returns
  <1>6. Rests(Op.priorState, receipt.binding, disk, live)
    BY <1>1, <1>2 DEF Calm, CalmAt, ReturnsOK
  <1>7. Op.priorState \in Settled
    BY <1>1 DEF Calm, CalmAt, PriorsOK
  <1> QED BY <1>4, <1>5, <1>6, <1>7

\* An inspect that ends, in the settled state it was accepted in.
LEMMA InspectEnds ==
    ASSUME CalmInv, Synced, Undisturbed, Calm, worker # NoWorker, Op.kind = "inspect",
           Op.outcome = "pending", Op.priorState # "RECOVERY_REQUIRED",
           NEW x, NEW p, Becomes(p, x), Fits(Op, x), x.priorState = Op.priorState,
           x.outcome \notin Open
    PROVE  CalmAt(p, Op.priorState, receipt.binding, disk, live, flight, NoWorker)
  <1>1. worker.op \in DOMAIN ops /\ Op = ops[worker.op] /\ OpOK(Op)
    BY AtHand
  <1>2. Same(ops, p)
    BY <1>1 DEF Becomes, Amends, Same, Fits, OpOK
  <1>3. Work(p) = {} /\ Returns(p) = {}
    <2>1. Work(p) = {}
      BY InspectGivesBack, SteadyKeeps DEF Becomes
    <2>2. Returns(p) \subseteq {worker.op} /\ worker.op \notin Returns(p)
      BY <1>2, InspectGivesBack, SameKeeps DEF Returns, Becomes
    <2> QED BY <2>1, <2>2
  <1>4. PriorsOK(p) /\ WorkerKnows(p, Op.priorState, receipt.binding, disk, live, NoWorker)
    BY SteadyKeeps DEF Calm, CalmAt, Becomes, WorkerKnows
  <1> QED BY <1>3, <1>4, InspectGivesBack, AtRest

\* A failed check only moves the worker to recordFailure.
LEMMA CheckFailsCalm ==
    ASSUME CalmInv, CheckFails
    PROVE  CalmNext
  <1>1. /\ worker # NoWorker /\ Goto("fail") /\ UNCHANGED host /\ faults' = faults
        /\ receipt' = receipt
    BY DEF CheckFails, Goto
  <1>2. worker'.op = worker.op /\ worker'.at = "fail"
    BY <1>1 DEF Goto, CalmInv, ManagerInv, Plain, Workers
  <1> QED BY <1>1, <1>2, Unwritten DEF Synced

\* recordFailure: what was sent waits for recovery, anything else gives the
\* state back that it was accepted in.
LEMMA RecordFailureCalm ==
    ASSUME CalmInv, RecordFailure
    PROVE  CalmNext
  <1> DEFINE x == FailedOp(Op)
             st == IF x.outcome = "failed" THEN x.priorState ELSE "RECOVERY_REQUIRED"
  <1>1. /\ worker # NoWorker /\ worker.at = "fail" /\ UNCHANGED host
        /\ Writes(Conclude(x, st), NoWorker)
    <2>1. RecordFailure
      OBVIOUS
    <2>2. /\ worker # NoWorker /\ worker.at = "fail" /\ UNCHANGED host
          /\ Written(Conclude(x, st)) \/ NotWritten(Conclude(x, st))
          /\ worker' = NoWorker
      BY <2>1 DEF RecordFailure, host
    <2> QED BY <2>2 DEF Writes
  <1>2. /\ Fits(Op, x) /\ x.outcome \in {"recovery-required", "failed"} /\ Op \in Intents
        /\ x.plan = Op.plan /\ x.priorState = Op.priorState
        /\ x.outcome = "recovery-required" <=>
              Op.attempt \in {"pending", "outcome-unknown", "returned"}
    <2>1. Op \in Intents /\ Fits(Op, FailedOp(Op))
      BY <1>1, FitsItself, FailedOpFits DEF CalmInv, OpOK
    <2> QED BY <2>1 DEF FailedOp, Intents
  <1>3. Synced => (x.outcome \in Open => Op.outcome \in Open)
    <2>1. x.outcome \in Open => Op.plan # NoPlan
      BY <1>1, <1>2, FitsItself DEF Open, OpOK, CalmInv
    <2> QED BY <2>1, <1>1, AtHand DEF OpOK, Open
  <1> HIDE DEF x
  <1>4. CASE st = "RECOVERY_REQUIRED"
    <2>1. Writes(Conclude(x, "RECOVERY_REQUIRED"), NoWorker)
      BY <1>1, <1>4
    <2> QED BY <1>1, <1>2, <1>3, <2>1, RecoveryLast
  <1>5. CASE st # "RECOVERY_REQUIRED"
    <2>1. x.outcome = "failed" /\ st = Op.priorState /\ Op.priorState # "RECOVERY_REQUIRED"
      BY <1>2, <1>5
    <2>2. Conclude(x, st) = Receipt3(st, receipt.binding, Edit(ops, worker.op, x))
      BY AmendIs DEF CalmInv, ManagerInv, Plain
    <2>3. ASSUME Synced, Undisturbed, Calm, NEW p, Becomes(p, x)
          PROVE  CalmAt(p, st, receipt.binding, disk, live, flight, NoWorker)
      <3>1. worker.op \in DOMAIN ops /\ Op = ops[worker.op] /\ OpOK(Op)
        BY <1>1, <2>3, AtHand
      <3>2. Op.of = 0
        BY <2>1, <2>3, <3>1 DEF Calm, CalmAt, PriorsOK
      <3>3. CASE Op.kind = "inspect"
        <4>1. Op.outcome = "pending"
          BY <1>1, <2>3, <3>1, <3>2 DEF Calm, CalmAt, WorkerKnows
        <4> QED BY <1>1, <1>2, <2>1, <2>3, <3>3, <4>1, InspectEnds DEF Open
      <3>4. CASE Op.kind # "inspect"
        <4>1. Op.kind \in Mutations /\ Op.outcome = "pending" /\ worker.op \in Work(ops)
          BY <1>1, <2>3, <3>1, <3>2, <3>4, AtHand DEF OpOK, Intents, Kinds, Mutations, Recoveries
        <4>2. Op.plan # NoPlan => disk = Op.plan.before /\ live = disk
          <5>1. Op.attempt \in {"none", "threw"}
            BY <1>2, <2>1 DEF Intents, Attempts
          <5> QED BY <2>3, <3>1, <4>1, <5>1 DEF Calm, CalmAt, MutationOK, Unsent, Early
        <4> QED BY <1>1, <1>2, <2>1, <2>3, <4>1, <4>2, MutationFailed
      <3> QED BY <3>3, <3>4
    <2>4. Writes(Receipt3(st, receipt.binding, Edit(ops, worker.op, x)), NoWorker)
      BY <1>1, <2>2
    <2> HIDE DEF st
    <2> QED BY <1>1, <1>2, <1>3, <2>3, <2>4, Wrote
  <1> QED BY <1>4, <1>5

\* The writes of Journal and JournalLast are such writes.
LEMMA JournalWrites ==
    ASSUME NEW new, NEW next, Journal(new, next)
    PROVE  Writes(new, next)
  BY DEF Journal, Writes

\* A call that threw at once never reached the host.
LEMMA DispatchThrewCalm ==
    ASSUME CalmInv, DispatchThrew
    PROVE  CalmNext
  <1> DEFINE x == [Op EXCEPT !.attempt = "threw"]
  <1>1. /\ worker # NoWorker /\ worker.at = "threw" /\ UNCHANGED host
        /\ Journal(Amend(x), [worker EXCEPT !.at = "fail"])
    BY DEF DispatchThrew
  <1>2. /\ x \in Intents /\ x.kind = Op.kind /\ x.of = Op.of /\ x.bootId = Op.bootId
        /\ x.plan = Op.plan /\ x.outcome = "pending" /\ x.priorState = Op.priorState
        /\ Op.outcome = "pending"
    BY <1>1, AtWork DEF CalmInv, Intents, Attempts
  <1> HIDE DEF x
  <1>3. Fits(Op, x) /\ "fail" \in Steps
    BY <1>1, <1>2, AtWork, PlannedFits DEF CalmInv, Steps
  <1> QED BY <1>1, <1>2, <1>3, AmendedCalm DEF Early

\* The patch was answered.
LEMMA PatchReturnedCalm ==
    ASSUME CalmInv, PatchReturned
    PROVE  CalmNext
  <1> DEFINE x == [Op EXCEPT !.attempt = "returned"]
  <1>1. /\ worker # NoWorker /\ worker.at = "await" /\ UNCHANGED host
        /\ Journal(Amend(x), [worker EXCEPT !.at = "settle"])
    BY DEF PatchReturned
  <1>2. /\ x \in Intents /\ x.kind = Op.kind /\ x.of = Op.of /\ x.bootId = Op.bootId
        /\ x.plan = Op.plan /\ x.outcome = "pending" /\ x.priorState = Op.priorState
        /\ Op.outcome = "pending" /\ x.attempt = "returned"
    BY <1>1, AtWork DEF CalmInv, Intents, Attempts
  <1> HIDE DEF x
  <1>3. Fits(Op, x) /\ "settle" \in Steps
    BY <1>1, <1>2, AtWork, PlannedFits DEF CalmInv, Steps
  <1> QED BY <1>1, <1>2, <1>3, AmendedCalm DEF Early

\* The patch was refused, or its answer lost.
LEMMA PatchRejectedCalm ==
    ASSUME CalmInv, PatchRejected
    PROVE  CalmNext
  <1> DEFINE x == [Op EXCEPT !.attempt = "outcome-unknown"]
  <1>1. /\ worker # NoWorker /\ worker.at = "await" /\ UNCHANGED host
        /\ Journal(Amend(x), [worker EXCEPT !.at = "mark"])
    BY DEF PatchRejected
  <1>2. /\ x \in Intents /\ x.kind = Op.kind /\ x.of = Op.of /\ x.bootId = Op.bootId
        /\ x.plan = Op.plan /\ x.outcome = "pending" /\ x.priorState = Op.priorState
        /\ Op.outcome = "pending" /\ x.attempt = "outcome-unknown"
    BY <1>1, AtWork DEF CalmInv, Intents, Attempts
  <1> HIDE DEF x
  <1>3. Fits(Op, x) /\ "mark" \in Steps
    BY <1>1, <1>2, AtWork, PlannedFits DEF CalmInv, Steps
  <1> QED BY <1>1, <1>2, <1>3, AmendedCalm DEF Early

\* markRecovery and requireRecovery.
LEMMA MarkRecoveryCalm ==
    ASSUME CalmInv, worker # NoWorker, worker.at \in {"mark", "settle"},
           JournalLast(MarkRecovery), UNCHANGED host
    PROVE  CalmNext
  <1> DEFINE x == [Op EXCEPT !.outcome = "recovery-required"]
  <1>1. Writes(Conclude(x, "RECOVERY_REQUIRED"), NoWorker)
    BY JournalWrites DEF MarkRecovery, JournalLast
  <1>2. /\ x \in Intents /\ x.kind = Op.kind /\ x.of = Op.of /\ x.bootId = Op.bootId
        /\ x.plan = Op.plan /\ x.outcome = "recovery-required"
        /\ x.priorState = Op.priorState /\ Op.outcome = "pending"
    BY AtWork DEF CalmInv, Intents, Outcomes
  <1> HIDE DEF x
  <1>3. Fits(Op, x)
    BY <1>2, AtWork, PlannedFits DEF CalmInv
  <1> QED BY <1>1, <1>2, <1>3, RecoveryLast DEF Open

\* The mark after an unknown outcome.
LEMMA MarkUnknownCalm ==
    ASSUME CalmInv, MarkUnknown
    PROVE  CalmNext
  BY MarkRecoveryCalm DEF MarkUnknown, host

\* The end of an operation that was not carried out: a recovery's brings
\* recovery back, and a mutation's finds the config where it started.
LEMMA FailedLastCalm ==
    ASSUME CalmInv, worker # NoWorker, worker.at \in {"settle", "classify"},
           NEW st, st = "RECOVERY_REQUIRED" \/ st = Op.priorState,
           st # "RECOVERY_REQUIRED" =>
              disk = Op.plan.before /\ live = disk,
           JournalLast(Conclude([Op EXCEPT !.outcome = "failed", !.phase = "terminal"], st)),
           UNCHANGED host
    PROVE  CalmNext
  <1> DEFINE x == [Op EXCEPT !.outcome = "failed", !.phase = "terminal"]
  <1>1. Writes(Conclude(x, st), NoWorker)
    BY JournalWrites DEF JournalLast
  <1>2. /\ x \in Intents /\ x.kind = Op.kind /\ x.of = Op.of /\ x.bootId = Op.bootId
        /\ x.plan = Op.plan /\ x.outcome = "failed"
        /\ x.priorState = Op.priorState /\ Op.outcome = "pending" /\ OpOK(Op)
        /\ Op.kind # "inspect" /\ Op.plan # NoPlan
    BY AtWork DEF CalmInv, Intents, Outcomes, Phases
  <1> HIDE DEF x
  <1>3. Fits(Op, x)
    BY <1>2, AtWork, PlannedFits DEF CalmInv
  <1>4. CASE st = "RECOVERY_REQUIRED"
    BY <1>1, <1>2, <1>3, <1>4, RecoveryLast DEF Open
  <1>5. CASE st # "RECOVERY_REQUIRED"
    <2>1. st = Op.priorState
      BY <1>5
    <2>2. Conclude(x, st) = Receipt3(st, receipt.binding, Edit(ops, worker.op, x))
      BY AmendIs DEF CalmInv, ManagerInv, Plain
    <2>3. ASSUME Synced, Undisturbed, Calm, NEW p, Becomes(p, x)
          PROVE  CalmAt(p, st, receipt.binding, disk, live, flight, NoWorker)
      <3>1. worker.op \in DOMAIN ops /\ Op = ops[worker.op]
        BY <2>3, AtHand
      <3>2. Op.of = 0
        BY <1>5, <2>1, <2>3, <3>1 DEF Calm, CalmAt, PriorsOK
      <3>3. Op.kind \in Mutations
        BY <1>2, <3>2 DEF OpOK, Intents, Kinds, Mutations, Recoveries
      <3> QED BY <1>2, <1>3, <1>5, <2>1, <2>3, <3>3, MutationFailed
    <2> QED BY <1>1, <1>2, <1>3, <2>2, <2>3, Wrote DEF Open
  <1> QED BY <1>4, <1>5

\* settleAfterPatch goes on only where file and daemon hold the target.
LEMMA SettleCalm ==
    ASSUME CalmInv, Settle
    PROVE  CalmNext
  <1> DEFINE class == ClassifyState(disk, live, Op.plan)
             failed == Conclude([Op EXCEPT !.outcome = "failed", !.phase = "terminal"],
                                Op.priorState)
  <1>1. /\ worker # NoWorker /\ worker.at = "settle" /\ UNCHANGED host
        /\ \/ Goto("verify") /\ ChainTarget(ops, worker.op) = "before" /\ class = "before"
           \/ /\ Goto("verify") /\ class \in {"after", "equal"}
              /\ ChainTarget(ops, worker.op) # "before"
           \/ Goto("fail")
           \/ JournalLast(failed) /\ class = "before"
           \/ JournalLast(MarkRecovery)
    BY DEF Settle, host
  <1>2. class = "before" => disk = Op.plan.before /\ live = disk
    BY DEF ClassifyState
  <1>3. class \in {"after", "equal"} => disk = Op.plan.after /\ live = disk
    BY DEF ClassifyState
  <1> HIDE DEF class
  <1>4. CASE Goto("verify") /\ disk = PatchTarget(ops, worker.op) /\ live = disk
    <2>1. worker'.op = worker.op /\ worker'.at = "verify" /\ receipt' = receipt
            /\ faults' = faults
      BY <1>4 DEF Goto, CalmInv, ManagerInv, Plain, Workers
    <2>2. Op.outcome = "pending" /\ Op = ops[worker.op]
      BY <1>1, AtWork, FitsItself DEF CalmInv
    <2> QED BY <1>1, <1>4, <2>1, <2>2, Moved DEF WorkerKnows, Early
  <1>5. CASE Goto("fail")
    <2>1. worker'.op = worker.op /\ worker'.at = "fail" /\ receipt' = receipt
            /\ faults' = faults
      BY <1>5 DEF Goto, CalmInv, ManagerInv, Plain, Workers
    <2> QED BY <1>1, <2>1, Unwritten DEF Synced
  <1>6. CASE JournalLast(failed) /\ class = "before"
    BY <1>1, <1>2, <1>6, FailedLastCalm
  <1>7. CASE JournalLast(MarkRecovery)
    BY <1>1, <1>7, MarkRecoveryCalm
  <1>8. Op = ops[worker.op]
    BY <1>1, FitsItself DEF CalmInv
  <1> QED BY <1>1, <1>2, <1>3, <1>4, <1>5, <1>6, <1>7, <1>8 DEF PatchTarget

\* The attempt is journalled, and the patch sent or not.
LEMMA DispatchCalm ==
    ASSUME CalmInv, worker # NoWorker, worker.at \in {"recheck", "guard"}, Dispatch,
           Op.kind \in Mutations => worker.at = "recheck"
    PROVE  CalmNext
  <1> DEFINE x == [Op EXCEPT !.phase = "patch-dispatched", !.attempt = "pending"]
             p == Edit(ops, worker.op, x)
             new == Receipt3(receipt.state, receipt.binding, p)
  <1>1. /\ x \in Intents /\ x.kind = Op.kind /\ x.of = Op.of /\ x.bootId = Op.bootId
        /\ x.plan = Op.plan /\ x.outcome = "pending" /\ Op.outcome = "pending"
        /\ x.attempt = "pending" /\ x.priorState = Op.priorState
    BY AtWork DEF Intents, Attempts, Phases, CalmInv
  <1>2. Amend(x) = new
    BY AmendIs DEF CalmInv, ManagerInv, Plain
  <1>3. /\ disk' = disk /\ live' = live
        /\ \/ /\ Journal(new, [worker EXCEPT !.at = "await"])
              /\ flight' = IF worker'.at = "await" THEN flight \cup {worker.op} ELSE flight
           \/ /\ Journal(new, [worker EXCEPT !.at = "threw"])
              /\ flight' = flight
    <2>1. Dispatch
      OBVIOUS
    <2> QED BY <1>2, <2>1 DEF Dispatch
  <1> HIDE DEF x
  <1>4. Fits(Op, x)
    BY <1>1, AtWork, PlannedFits DEF CalmInv
  <1>5. /\ \A step \in {"await", "threw", "fail"} :
              /\ [worker EXCEPT !.at = step].op = worker.op
              /\ [worker EXCEPT !.at = step].at = step
    BY DEF CalmInv, ManagerInv, Plain, Workers
  <1>6. new.operations = p /\ new.state = receipt.state /\ new.binding = receipt.binding
    BY DEF Receipt3
  <1> HIDE DEF p, new
  <1>7. /\ Synced' => Synced
        /\ faults'.drift = faults.drift
        /\ \/ /\ receipt' = new /\ worker'.op = worker.op /\ worker'.at \in {"await", "threw"}
              /\ flight' = flight \/ flight' = flight \cup {worker.op}
           \/ receipt' = receipt /\ flight' = flight /\ worker'.op = worker.op
                 /\ worker'.at = "fail"
           \/ ~Synced'
    <2>1. faults \in Faults
      BY DEF CalmInv, ManagerInv, Plain, Faults
    <2>2. ASSUME NEW next, Journal(new, next)
          PROVE  /\ Synced' => Synced
                 /\ faults'.drift = faults.drift
                 /\ \/ receipt' = new /\ worker' = next
                    \/ receipt' = receipt /\ worker' = [worker EXCEPT !.at = "fail"]
                    \/ ~Synced'
      <3>1. Synced' => Synced
        BY <2>1, <2>2, JournalCases
      <3>2. faults'.drift = faults.drift
        BY <2>1, <2>2 DEF Journal, Written, NotWritten, Faults
      <3> QED BY <2>1, <2>2, <3>1, <3>2, JournalCases
    <2>3. \E step \in {"await", "threw"} :
             /\ Journal(new, [worker EXCEPT !.at = step])
             /\ flight' = flight \/ (flight' = flight \cup {worker.op} /\ worker'.at = "await")
      BY <1>3
    <2>4. PICK step \in {"await", "threw"} :
             /\ Journal(new, [worker EXCEPT !.at = step])
             /\ flight' = flight \/ (flight' = flight \cup {worker.op} /\ worker'.at = "await")
      BY <2>3
    <2> QED BY <1>5, <2>2, <2>4
  <1>8. CASE ~Synced'
    BY <1>8 DEF CalmNext, Undisturbed
  <1>9. CASE receipt' = receipt /\ flight' = flight /\ worker'.op = worker.op
                 /\ worker'.at = "fail"
    <2>1. UNCHANGED host
      BY <1>3, <1>9 DEF host
    <2> QED BY <1>7, <1>9, <2>1, Unwritten
  <1>10. CASE /\ Synced' /\ receipt' = new /\ worker'.op = worker.op
              /\ worker'.at \in {"await", "threw"}
              /\ flight' = flight \/ flight' = flight \cup {worker.op}
    <2>1. Becomes(p, x) /\ (Ordered(ops) => Ordered(p)) /\ (LeftNothing(p) => LeftNothing(ops))
      BY <1>1, <1>4, <1>7, <1>10, Changed DEF p
    <2>2. ops' = p /\ receipt'.state = receipt.state /\ receipt'.binding = receipt.binding
      BY <1>6, <1>10 DEF ops
    <2>3. ASSUME Synced, Undisturbed, Calm
          PROVE  CalmAt(p, receipt.state, receipt.binding, disk, live, flight', worker')
      <3>1. /\ worker.op \in DOMAIN ops /\ Op = ops[worker.op]
            /\ \A k \in DOMAIN ops : ops[k].outcome = "pending" => k = worker.op
        BY <1>1, <2>3, AtHand
      <3>2. Same(ops, p) /\ \A k \in DOMAIN ops : p[k].outcome = ops[k].outcome
        BY <1>1, <2>1, <3>1 DEF Becomes, Amends, Same
      <3>3. ops[worker.op].kind \in Mutations => Unsent(ops, worker.op, worker)
        BY <3>1 DEF Unsent, Early
      <3>4. WorkerKnows(p, receipt.state, receipt.binding, disk, live, worker')
        BY <1>1, <1>10, <2>1 DEF WorkerKnows, Becomes
      <3>5. CalmAt(ops, receipt.state, receipt.binding, disk, live, flight, worker)
        BY <2>3 DEF Calm
      <3>6. flight' = flight \/ flight' = flight \cup {worker.op}
        BY <1>10
      <3>7. ops[worker.op].outcome = "pending" /\ ops[worker.op].kind \in Mutations
               /\ ops[worker.op].plan # NoPlan /\ Unsent(p, worker.op, worker')
               => Unsent(ops, worker.op, worker)
        BY <3>3
      <3>8. /\ worker.op \in DOMAIN ops /\ Same(ops, p)
            /\ \A k \in DOMAIN ops : p[k].outcome = ops[k].outcome
            /\ \A k \in DOMAIN ops : ops[k].outcome = "pending" => k = worker.op
        BY <3>1, <3>2
      <3>9. \A k \in flight' : k \in flight \/ k = worker.op
        BY <3>6
      <3> QED BY <3>4, <3>5, <3>7, <3>8, <3>9, GoesOn
    <2> QED BY <1>3, <1>7, <1>10, <2>1, <2>2, <2>3, LookBack
  <1> QED BY <1>7, <1>8, <1>9, <1>10

\* A step of Goto that stops the worker.
LEMMA GotoFailCalm ==
    ASSUME CalmInv, worker # NoWorker, Goto("fail"), UNCHANGED host
    PROVE  CalmNext
  <1>1. /\ worker'.op = worker.op /\ worker'.at = "fail" /\ receipt' = receipt
        /\ faults' = faults
    BY DEF Goto, CalmInv, ManagerInv, Plain, Workers
  <1> QED BY <1>1, Unwritten DEF Synced

\* What a mutation has planned is its own way.
LEMMA MutationTarget ==
    ASSUME ManagerInv, worker # NoWorker, Op.kind \in Mutations
    PROVE  ChainTarget(ops, worker.op) = "after" /\ PatchTarget(ops, worker.op) = Op.plan.after
  <1>1. worker.op \in DOMAIN ops /\ Op = ops[worker.op] /\ OpOK(Op)
    BY FitsItself
  <1>2. Chain(ops, worker.op) = {worker.op}
    <2>1. Op.of = 0
      BY <1>1 DEF OpOK
    <2>2. \A k \in DOMAIN ops : ops[k].of # 0 => ops[k].of \in DOMAIN ops
      BY OfInside DEF ManagerInv
    <2> QED BY <1>1, <2>1, <2>2, ChainStep
  <1>3. ops[worker.op].kind # "restore-before"
    BY <1>1 DEF Mutations
  <1> QED BY <1>1, <1>2, <1>3 DEF ChainTarget, PatchTarget

\* assertPlanCurrent: a mutation that has nothing to send holds its target.
LEMMA RecheckCalm ==
    ASSUME CalmInv, Recheck
    PROVE  CalmNext
  <1>1. /\ worker # NoWorker /\ worker.at = "recheck" /\ Op.kind \in Mutations
        /\ \/ /\ Goto("verify") /\ UNCHANGED host
              /\ disk = Op.plan.before /\ live = worker.live /\ disk = Op.plan.after
           \/ Dispatch
           \/ Goto("fail") /\ UNCHANGED host
    BY DEF Recheck, Worker, host
  <1>2. CASE Dispatch
    BY <1>1, <1>2, DispatchCalm
  <1>3. CASE Goto("fail") /\ UNCHANGED host
    BY <1>1, <1>3, GotoFailCalm
  <1>4. CASE Goto("verify") /\ UNCHANGED host /\ disk = Op.plan.before /\ disk = Op.plan.after
    <2>1. worker'.op = worker.op /\ worker'.at = "verify" /\ receipt' = receipt
            /\ faults' = faults
      BY <1>4 DEF Goto, CalmInv, ManagerInv, Plain, Workers
    <2>2. Op.outcome = "pending" /\ Op = ops[worker.op] /\ Op.plan # NoPlan
      BY <1>1, AtWork, FitsItself DEF CalmInv
    <2>3. ASSUME Synced, Undisturbed, Calm
          PROVE  WorkerKnows(ops, receipt.state, receipt.binding, disk, live, worker')
      <3>1. worker.op \in Work(ops)
        BY <1>1, <2>3, AtHand DEF Mutations
      <3>2. live = disk
        BY <1>1, <2>2, <2>3, <3>1 DEF Calm, CalmAt, MutationOK, Unsent, Early
      <3>3. PatchTarget(ops, worker.op) = disk
        BY <1>1, <1>4, MutationTarget DEF CalmInv
      <3> QED BY <2>1, <2>2, <3>2, <3>3 DEF WorkerKnows
    <2> QED BY <1>1, <1>4, <2>1, <2>2, <2>3, Moved DEF Early
  <1> QED BY <1>1, <1>2, <1>3, <1>4

\* The patch of a recovery.
LEMMA RedispatchCalm ==
    ASSUME CalmInv, Redispatch
    PROVE  CalmNext
  BY DispatchCalm DEF Redispatch, Worker, Recoveries, Mutations

\* Assets are reused, or made and journalled.
LEMMA PrepareCalm ==
    ASSUME CalmInv, Prepare
    PROVE  CalmNext
  <1> DEFINE x == [Op EXCEPT !.phase = "materialized"]
  <1>1. /\ worker # NoWorker /\ worker.at = "start" /\ UNCHANGED host
        /\ Op.kind \in Mutations
        /\ \/ Goto("read")
           \/ Op.kind = "activate" /\ Journal(Amend(x), [worker EXCEPT !.at = "read"])
    BY DEF Prepare, Worker, host
  <1>2. Op \in Intents /\ OpOK(Op) /\ Op.outcome = "pending" /\ Op = ops[worker.op]
    BY <1>1, FitsItself DEF Stage, OpOK, CalmInv
  <1>3. CASE Goto("read")
    <2>1. worker'.op = worker.op /\ worker'.at = "read" /\ receipt' = receipt
            /\ faults' = faults
      BY <1>3 DEF Goto, CalmInv, ManagerInv, Plain, Workers
    <2> QED BY <1>1, <1>2, <2>1, Moved DEF WorkerKnows, Early
  <1>4. CASE Op.kind = "activate" /\ Journal(Amend(x), [worker EXCEPT !.at = "read"])
    <2>1. /\ x \in Intents /\ x.kind = Op.kind /\ x.of = Op.of /\ x.bootId = Op.bootId
          /\ x.plan = Op.plan /\ x.outcome = "pending" /\ x.phase = "materialized"
          /\ x.attempt = Op.attempt /\ x.priorState = Op.priorState
      BY <1>2 DEF Intents, Phases
    <2>2. Journal(Amend(x), [worker EXCEPT !.at = "read"]) /\ "read" \in Steps
      BY <1>4 DEF Steps
    <2> HIDE DEF x
    <2>3. Fits(Op, x)
      BY <1>2, <2>1 DEF Fits, OpOK, OpRefined
    <2> QED BY <1>1, <1>2, <2>1, <2>2, <2>3, AmendedCalm DEF Early
  <1> QED BY <1>1, <1>3, <1>4

\* The worker remembers what it read.
LEMMA ReadRawCalm ==
    ASSUME CalmInv, ReadRaw
    PROVE  CalmNext
  <1>1. /\ worker # NoWorker /\ worker.at = "read" /\ UNCHANGED host
        /\ receipt' = receipt /\ faults' = faults /\ Op.kind \in Mutations
        /\ worker' = [worker EXCEPT !.at = "plan", !.disk = disk]
    BY DEF ReadRaw, Worker, host
  <1>2. worker'.op = worker.op /\ worker'.at = "plan" /\ worker'.disk = disk
    BY <1>1 DEF CalmInv, ManagerInv, Plain, Workers
  <1>3. Op.outcome = "pending" /\ Op = ops[worker.op]
    BY <1>1, FitsItself DEF Stage, CalmInv
  <1> QED BY <1>1, <1>2, <1>3, Moved DEF WorkerKnows, Early

\* What is under way and has a plan, or is a mutation, goes with no operation
\* whose end would bring a settled state back.
LEMMA NoOtherReturns ==
    ASSUME NEW o, NEW st, NEW b, NEW d, NEW l, ReturnsOK(o, st, b, d, l), NEW i \in Work(o)
    PROVE  \A s \in Returns(o) : s = i
  BY DEF ReturnsOK, Returns, Work

\* A mutation that has made its plan starts where file and daemon are.
LEMMA Planned ==
    ASSUME CalmInv, Synced, Undisturbed, Calm, worker # NoWorker, worker.at = "plan",
           Op.kind \in Mutations, live = worker.disk,
           NEW x, NEW p, Becomes(p, x), Fits(Op, x), x.priorState = Op.priorState,
           x.outcome = "pending", x.plan # NoPlan, x.plan.before = worker.disk,
           x.plan.previousBinding = receipt.binding,
           NEW w, w.op = worker.op, w.at = "recheck"
    PROVE  CalmAt(p, receipt.state, receipt.binding, disk, live, flight, w)
  <1>1. /\ worker.op \in DOMAIN ops /\ Op = ops[worker.op] /\ worker.op \in Work(ops)
        /\ Op.outcome = "pending" /\ OpOK(Op) /\ ~(worker.op < worker.op)
    BY AtHand DEF Mutations
  <1>2. Work(ops) = {worker.op}
    BY <1>1 DEF Calm, CalmAt, MutationOK
  <1>3. Work(p) = {worker.op}
    <2>1. worker.op \in Work(p)
      BY <1>1 DEF Work, Becomes, Amends, Steady, Open, Mutations, Fits
    <2> QED BY <1>2, <2>1, SteadyKeeps DEF Becomes
  <1>4. p[worker.op] = x /\ DOMAIN p = DOMAIN ops /\ x.kind = Op.kind
           /\ \A k \in DOMAIN ops : p[k].outcome = ops[k].outcome /\ p[k].kind = ops[k].kind
    BY <1>1 DEF Becomes, Amends, Steady, Fits
  <1>5. disk = worker.disk
    BY <1>1 DEF Calm, CalmAt, WorkerKnows, Mutations
  <1>6. Op.priorState \in Settled \cup {"RECOVERY_REQUIRED"}
    BY <1>1 DEF Calm, CalmAt, PriorsOK
  <1>7. /\ Op.priorState = "ACTIVE" <=> receipt.binding # Absent
        /\ receipt.binding # Absent => disk = receipt.binding
    <2>1. CASE Op.plan = NoPlan /\ Op.priorState = "RECOVERY_REQUIRED"
      BY <1>1, <2>1 DEF Calm, CalmAt, MutationOK
    <2>2. CASE Op.plan = NoPlan /\ Op.priorState \in Settled
      <3>1. worker.op \in Returns(ops)
        BY <1>1, <2>2 DEF Returns, Settled, Open
      <3>2. Rests(Op.priorState, receipt.binding, disk, live)
        BY <1>1, <3>1 DEF Calm, CalmAt, ReturnsOK
      <3> QED BY <2>2, <3>2 DEF Rests, Settled
    <2>3. CASE Op.plan # NoPlan
      <3>1. Unsent(ops, worker.op, worker)
        BY DEF Unsent, Early
      <3>2. /\ receipt.binding = Op.plan.previousBinding /\ disk = Op.plan.before
            /\ Op.priorState = "ACTIVE" <=> receipt.binding # Absent
        BY <1>1, <2>3, <3>1 DEF Calm, CalmAt, MutationOK
      <3>3. Op.plan.previousBinding # Absent => Op.plan.before = Op.plan.previousBinding
        BY <1>1, <2>3 DEF Calm, CalmAt, OneLine
      <3> QED BY <3>2, <3>3
    <2> QED BY <1>6, <2>1, <2>2, <2>3
  <1>8. PriorsOK(p)
    BY SteadyKeeps DEF Becomes, Calm, CalmAt
  <1>9. OneLine(p, disk, live)
    BY <1>1, <1>3, <1>4, <1>5, <1>7 DEF OneLine
  <1>10. StateOK(p, receipt.state, receipt.binding, disk, live)
    BY <1>1, <1>4 DEF StateOK, Calm, CalmAt
  <1>11. MutationOK(p, receipt.binding, disk, live, w)
    BY <1>3, <1>4, <1>5, <1>7 DEF MutationOK
  <1>12. OwnPatch(p, flight)
    BY <1>1, <1>3 DEF OwnPatch, Calm, CalmAt
  <1>13. Returns(p) = {}
    <2> SUFFICES ASSUME NEW s \in Returns(p) PROVE FALSE
      OBVIOUS
    <2>1. s \in DOMAIN ops /\ s # worker.op /\ p[s] = ops[s]
      BY <1>1, <1>4 DEF Returns, Becomes, Amends
    <2>2. s \in Returns(ops)
      BY <2>1 DEF Returns
    <2> QED BY <1>1, <2>1, <2>2, NoOtherReturns DEF Calm, CalmAt
  <1>14. WorkerKnows(p, receipt.state, receipt.binding, disk, live, w)
    BY <1>4 DEF WorkerKnows
  <1>15. ReturnsOK(p, receipt.state, receipt.binding, disk, live)
    BY <1>13 DEF ReturnsOK
  <1> QED BY <1>8, <1>9, <1>10, <1>11, <1>12, <1>14, <1>15 DEF CalmAt

\* The live config has come back: a plan is made of what file and daemon hold.
LEMMA PlanCalm ==
    ASSUME CalmInv, Plan
    PROVE  CalmNext
  <1>1. PICK after \in IF Op.kind = "activate" THEN Shapes ELSE {Absent} :
          LET x == [Op EXCEPT !.phase = "prepared",
                              !.plan = [before |-> worker.disk, after |-> after,
                                        previousBinding |-> receipt.binding]]
          IN  \/ /\ Journal(Amend(x), [worker EXCEPT !.at = "recheck", !.live = live])
                 /\ worker.disk = live
              \/ Goto("fail")
    BY DEF Plan, MayActivate, MayDeactivate
  <1>2. /\ worker # NoWorker /\ worker.at = "plan" /\ UNCHANGED host
        /\ Op.kind \in Mutations
    BY DEF Plan, Worker, host
  <1> DEFINE plan == [before |-> worker.disk, after |-> after,
                      previousBinding |-> receipt.binding]
             x == [Op EXCEPT !.phase = "prepared", !.plan = plan]
             next == [worker EXCEPT !.at = "recheck", !.live = live]
  <1>3. /\ Op \in Intents /\ OpOK(Op) /\ Op.outcome = "pending"
        /\ Op.kind = "deactivate" => receipt.binding # Absent
    BY <1>2, FitsItself DEF Stage, OpOK, CalmInv
  <1>4. CASE Goto("fail")
    BY <1>2, <1>4, GotoFailCalm
  <1>5. CASE Journal(Amend(x), next) /\ worker.disk = live
    <2>1. after \in Projections /\ (after = Absent => Op.kind = "deactivate")
      BY <1>2, ManagerAssumption DEF Projections, Shapes, Absent, Mutations
    <2>2. worker \in Workers /\ receipt \in Receipts /\ live \in Projections
      BY DEF ManagerInv, Plain, CalmInv
    <2>3. plan \in Plans /\ plan.after = after /\ plan.previousBinding = receipt.binding
             /\ plan.before = worker.disk
      BY <2>1, <2>2 DEF Plans, Workers, Receipts
    <2>4. plan # NoPlan
      <3> HIDE DEF plan
      <3> QED BY <1>3, <2>1, <2>3 DEF NoPlan
    <2> HIDE DEF plan
    <2>5. /\ x \in Intents /\ x.kind = Op.kind /\ x.of = Op.of /\ x.bootId = Op.bootId
          /\ x.plan = plan /\ x.outcome = "pending" /\ x.phase = "prepared"
          /\ x.priorState = Op.priorState
      BY <1>3, <2>3 DEF Intents, Phases
    <2>6. next.op = worker.op /\ next.at = "recheck"
      BY <2>2 DEF Workers, Steps
    <2> HIDE DEF x, next
    <2>7. Op.kind # "inspect"
      BY <1>2 DEF Mutations
    <2>8. Fits(Op, x)
      BY <1>3, <2>4, <2>5, <2>7 DEF Fits, OpOK, OpRefined
    <2>9. Writes(Receipt3(receipt.state, receipt.binding, Edit(ops, worker.op, x)), next)
      BY <1>5, <2>2, AmendIs, JournalWrites
    <2>10. Synced /\ Undisturbed /\ Calm => \A p : Becomes(p, x) =>
              CalmAt(p, receipt.state, receipt.binding, disk, live, flight, next)
      BY <1>2, <1>5, <2>3, <2>4, <2>5, <2>6, <2>8, Planned
    <2> QED BY <1>2, <1>3, <2>5, <2>8, <2>9, <2>10, Wrote
  <1> QED BY <1>1, <1>4, <1>5

\* The verified phase.
LEMMA VerifyCalm ==
    ASSUME CalmInv, Verify
    PROVE  CalmNext
  <1> DEFINE x == [Op EXCEPT !.phase = "verified"]
  <1>1. /\ worker # NoWorker /\ worker.at = "verify" /\ UNCHANGED host
        /\ Journal(Amend(x), [worker EXCEPT !.at = "commit"])
    BY DEF Verify, Worker, host
  <1>2. /\ x \in Intents /\ x.kind = Op.kind /\ x.of = Op.of /\ x.bootId = Op.bootId
        /\ x.plan = Op.plan /\ x.outcome = "pending" /\ Op.outcome = "pending"
        /\ x.attempt = Op.attempt /\ x.priorState = Op.priorState
    BY <1>1, AtWork DEF Intents, Phases, CalmInv
  <1> HIDE DEF x
  <1>3. Fits(Op, x) /\ "commit" \in Steps
    BY <1>1, <1>2, AtWork, PlannedFits DEF CalmInv, Steps
  <1> QED BY <1>1, <1>2, <1>3, AmendedCalm

\* A mutation's end: file and daemon hold what it planned.
LEMMA Committed ==
    ASSUME CalmInv, Synced, Undisturbed, Calm, worker # NoWorker, worker.at = "commit",
           Op.kind \in Mutations, NEW x, NEW p, Becomes(p, x), Fits(Op, x),
           x.outcome \notin Open, NEW st,
           st = IF Op.plan.after # Absent THEN "ACTIVE" ELSE "INACTIVE"
    PROVE  CalmAt(p, st, Op.plan.after, disk, live, flight, NoWorker)
  <1>1. /\ worker.op \in DOMAIN ops /\ Op = ops[worker.op] /\ worker.op \in Work(ops)
        /\ Op.outcome = "pending" /\ OpOK(Op)
    BY AtHand DEF Mutations
  <1>2. Work(ops) = {worker.op}
    BY <1>1 DEF Calm, CalmAt, MutationOK
  <1>3. disk = Op.plan.after /\ live = disk
    BY MutationTarget DEF Calm, CalmAt, WorkerKnows, CalmInv
  <1>4. Work(p) = {}
    <2>1. worker.op \notin Work(p)
      BY DEF Work, Becomes
    <2> QED BY <1>2, <2>1, SteadyKeeps DEF Becomes
  <1>5. Returns(p) = {}
    <2> SUFFICES ASSUME NEW s \in Returns(p) PROVE FALSE
      OBVIOUS
    <2>1. s \in DOMAIN ops /\ s # worker.op /\ p[s] = ops[s]
      BY <1>1 DEF Returns, Becomes, Amends
    <2>2. s \in Returns(ops)
      BY <2>1 DEF Returns
    <2> QED BY <1>1, <2>1, <2>2, NoOtherReturns DEF Calm, CalmAt
  <1>6. PriorsOK(p) /\ WorkerKnows(p, st, Op.plan.after, disk, live, NoWorker)
    BY SteadyKeeps DEF Becomes, Calm, CalmAt, WorkerKnows
  <1>7. st \in Settled /\ Rests(st, Op.plan.after, disk, live)
    BY <1>3 DEF Settled, Rests
  <1> QED BY <1>4, <1>5, <1>6, <1>7, AtRest

\* The binding, the state and the outcome in one write.
LEMMA CommitCalm ==
    ASSUME CalmInv, Commit
    PROVE  CalmNext
  <1> DEFINE target == Op.plan.after
             noop   == Op.attempt = "none" /\ (Op.kind = "activate" => receipt.binding = target)
             end    == IF noop THEN "no-op" ELSE "succeeded"
             x      == [Op EXCEPT !.phase = "terminal", !.outcome = end]
             st     == IF target # Absent THEN "ACTIVE" ELSE "INACTIVE"
  <1>1. /\ worker # NoWorker /\ worker.at = "commit" /\ UNCHANGED host
        /\ Op.kind \in Mutations
        /\ JournalLast([Conclude(x, st) EXCEPT !.binding = target])
    BY DEF Commit, Worker, host
  <1>2. end \in {"no-op", "succeeded"}
    OBVIOUS
  <1>3. st = IF Op.plan.after # Absent THEN "ACTIVE" ELSE "INACTIVE"
    OBVIOUS
  <1>4. target = Op.plan.after
    OBVIOUS
  <1> HIDE DEF end, st, target
  <1>5. /\ x \in Intents /\ x.kind = Op.kind /\ x.of = Op.of /\ x.bootId = Op.bootId
        /\ x.plan = Op.plan /\ x.outcome = end /\ x.priorState = Op.priorState
        /\ Op.outcome = "pending"
    BY <1>1, <1>2, AtWork DEF Intents, Phases, Outcomes, CalmInv
  <1> HIDE DEF x
  <1>6. Fits(Op, x) /\ x.outcome \notin Open
    BY <1>1, <1>2, <1>5, AtWork, PlannedFits DEF CalmInv, Open
  <1>7. [Conclude(x, st) EXCEPT !.binding = target]
           = Receipt3(st, target, Edit(ops, worker.op, x))
    <2>1. Conclude(x, st) = Receipt3(st, receipt.binding, Edit(ops, worker.op, x))
      BY AmendIs DEF CalmInv, ManagerInv, Plain
    <2> QED BY <2>1 DEF Receipt3
  <1>8. Writes(Receipt3(st, target, Edit(ops, worker.op, x)), NoWorker)
    BY <1>1, <1>7, JournalWrites DEF JournalLast
  <1>9. Synced /\ Undisturbed /\ Calm => \A p : Becomes(p, x) =>
           CalmAt(p, st, target, disk, live, flight, NoWorker)
    BY <1>1, <1>3, <1>4, <1>6, Committed
  <1> QED BY <1>1, <1>5, <1>6, <1>8, <1>9, Wrote

-----------------------------------------------------------------------------
(* Settled states: recovery *)

\* A recovery remembers what it read.
LEMMA ReadForRecoveryCalm ==
    ASSUME CalmInv, ReadForRecovery
    PROVE  CalmNext
  <1>1. /\ worker # NoWorker /\ worker.at = "start" /\ UNCHANGED host
        /\ receipt' = receipt /\ faults' = faults
        /\ worker' = [worker EXCEPT !.at = "classify", !.disk = disk]
    BY DEF ReadForRecovery, Worker, host
  <1>2. worker'.op = worker.op /\ worker'.at = "classify" /\ worker'.disk = disk
    BY <1>1 DEF CalmInv, ManagerInv, Plain, Workers
  <1>3. Op.outcome = "pending" /\ Op = ops[worker.op]
    BY <1>1, FitsItself DEF Stage, CalmInv
  <1> QED BY <1>1, <1>2, <1>3, Moved DEF WorkerKnows, Early

\* A recovery goes on where file and daemon hold the target.
LEMMA ClassifyCalm ==
    ASSUME CalmInv, Classify
    PROVE  CalmNext
  <1> DEFINE failed == Conclude([Op EXCEPT !.outcome = "failed", !.phase = "terminal"],
                                "RECOVERY_REQUIRED")
             class == ClassifyState(worker.disk, live, Op.plan)
  <1>1. /\ worker # NoWorker /\ worker.at = "classify" /\ UNCHANGED host
        /\ \/ JournalLast(failed)
           \/ Goto("verify") /\ class \in {"equal", ChainTarget(ops, worker.op)}
           \/ Goto("guard")
    BY DEF Classify, Worker, host
  <1>2. Op.outcome = "pending" /\ Op = ops[worker.op] /\ Op.kind # "inspect"
    BY <1>1, AtWork, FitsItself DEF CalmInv
  <1>3. CASE Goto("verify") /\ class \in {"equal", ChainTarget(ops, worker.op)}
    <2>1. worker'.op = worker.op /\ worker'.at = "verify" /\ receipt' = receipt
            /\ faults' = faults
      BY <1>3 DEF Goto, CalmInv, ManagerInv, Plain, Workers
    <2>2. ChainTarget(ops, worker.op) \in {"before", "after"}
      BY DEF ChainTarget
    <2>3. worker.disk = PatchTarget(ops, worker.op) /\ live = worker.disk
      BY <1>2, <1>3, <2>2 DEF ClassifyState, PatchTarget
    <2>4. Calm => worker.disk = disk
      BY <1>1, <1>2 DEF Calm, CalmAt, WorkerKnows
    <2> QED BY <1>1, <1>2, <2>1, <2>3, <2>4, Moved DEF WorkerKnows, Early
  <1>4. CASE Goto("guard")
    <2>1. worker'.op = worker.op /\ worker'.at = "guard" /\ receipt' = receipt
            /\ faults' = faults
      BY <1>4 DEF Goto, CalmInv, ManagerInv, Plain, Workers
    <2> QED BY <1>1, <1>2, <2>1, Moved DEF WorkerKnows, Early
  <1>5. CASE JournalLast(failed)
    BY <1>1, <1>5, FailedLastCalm
  <1> QED BY <1>1, <1>3, <1>4, <1>5

\* A recovery that was verified only moves on.
LEMMA VerifyRecoveredCalm ==
    ASSUME CalmInv, VerifyRecovered
    PROVE  CalmNext
  <1>1. /\ worker # NoWorker /\ worker.at = "verify" /\ UNCHANGED host /\ Goto("commit")
    BY DEF VerifyRecovered, Worker, host
  <1>2. Op.outcome = "pending" /\ Op = ops[worker.op]
    BY <1>1, AtWork, FitsItself DEF CalmInv
  <1>3. worker'.op = worker.op /\ worker'.at = "commit" /\ receipt' = receipt
          /\ faults' = faults
    BY <1>1 DEF Goto, CalmInv, ManagerInv, Plain, Workers
  <1>4. Calm => disk = PatchTarget(ops, worker.op) /\ live = disk
    BY <1>1 DEF Calm, CalmAt, WorkerKnows
  <1> QED BY <1>1, <1>2, <1>3, <1>4, Moved DEF WorkerKnows, Early

\* What a worker's write of a whole journal leads to.
LEMMA WroteJournal ==
    ASSUME CalmInv, worker # NoWorker, NEW p, NEW st, NEW b, NEW next,
           Writes(Receipt3(st, b, p), next), UNCHANGED host,
           Synced => Steady(ops, p),
           Synced /\ LeftNothing(p) => LeftNothing(ops),
           Synced /\ Undisturbed /\ Calm => CalmAt(p, st, b, disk, live, flight, next)
    PROVE  CalmNext
  <1> DEFINE new == Receipt3(st, b, p)
  <1>1. new.operations = p /\ new.state = st /\ new.binding = b
    BY DEF Receipt3
  <1>2. /\ Synced' => Synced
        /\ faults'.drift = faults.drift
        /\ \/ receipt' = new /\ worker' = next
           \/ receipt' = receipt /\ worker' \in {NoWorker, [worker EXCEPT !.at = "fail"]}
           \/ receipt' = new /\ ~Synced'
    <2>1. faults \in Faults
      BY DEF CalmInv, ManagerInv, Plain, Faults
    <2>2. Writes(new, next)
      OBVIOUS
    <2> HIDE DEF new
    <2> QED BY <2>1, <2>2 DEF Writes, Written, NotWritten, Faults, Synced
  <1>4. disk' = disk /\ live' = live /\ flight' = flight
    BY DEF host
  <1> HIDE DEF new
  <1>5. CASE receipt' = new /\ worker' = next /\ Synced'
    <2>1. ops' = p /\ receipt'.state = st /\ receipt'.binding = b
      BY <1>1, <1>5 DEF ops
    <2>2. Ordered(ops) => Ordered(p)
      BY <1>2, <1>5, SteadyKeeps
    <2> QED BY <1>2, <1>4, <1>5, <2>1, <2>2, LookBack
  <1>6. CASE receipt' = receipt /\ worker' \in {NoWorker, [worker EXCEPT !.at = "fail"]}
    <2>1. worker' = NoWorker \/ (worker'.op = worker.op /\ worker'.at = "fail")
      BY <1>6 DEF CalmInv, ManagerInv, Plain, Workers
    <2> QED BY <1>2, <1>4, <1>6, <2>1, Unwritten DEF host
  <1>7. CASE ~Synced'
    BY <1>7 DEF CalmNext, Undisturbed
  <1> QED BY <1>2, <1>5, <1>6, <1>7

\* What is in a chain but not its end is recovered by something.
LEMMA ChainFollowed ==
    ASSUME NEW o, NEW w \in DOMAIN o, NEW k \in Chain(o, w), k # w,
           \A i \in DOMAIN o : o[i].of # 0 => o[i].of \in DOMAIN o
    PROVE  \E m \in DOMAIN o : o[m].of = k
  <1> SUFFICES ASSUME \A m \in DOMAIN o : o[m].of # k PROVE FALSE
    OBVIOUS
  <1> DEFINE S == Chain(o, w) \ {k}
  <1>1. S \in SUBSET DOMAIN o /\ w \in S
    BY ChainDomain, ChainSelf
  <1>2. ClosedUnder(o, S)
    BY ChainClosed, ChainDomain DEF ClosedUnder
  <1> HIDE DEF S
  <1>3. Chain(o, w) \subseteq S
    BY <1>1, <1>2, ChainWithin
  <1> QED BY <1>3 DEF S

\* What settleChain makes of the journal is steady, and leaves nothing behind.
LEMMA FinalizedSteady ==
    ASSUME CalmInv, Synced, worker # NoWorker, Op.kind \in Recoveries,
           NEW p, Finalized(ops, p, worker.op)
    PROVE  Steady(ops, p) /\ (LeftNothing(p) => LeftNothing(ops))
  <1>1. /\ worker.op \in DOMAIN ops /\ Op = ops[worker.op] /\ Op.outcome = "pending"
        /\ \A k \in DOMAIN ops : ~(worker.op < k)
    BY AtHand DEF Recoveries
  <1>2. /\ Op.of # 0 /\ Op.of \in DOMAIN ops
        /\ \A k \in DOMAIN ops : ops[k].of # 0 => ops[k].of \in DOMAIN ops
    BY <1>1, AtHand, OfInside DEF CalmInv, ManagerInv, OpOK
  <1>3. Steady(ops, p)
    BY <1>1 DEF Finalized, Steady, Open
  <1>4. ASSUME NEW k \in DOMAIN ops, ops[k].outcome \in Open, p[k].outcome \notin Open
        PROVE  (\A j \in DOMAIN ops : ~(k < j)) \/ (\E m \in DOMAIN ops : ops[m].of = k)
    <2>1. CASE k = worker.op
      BY <1>1, <2>1
    <2>2. CASE k # worker.op
      <3>1. k \in Chain(ops, Op.of)
        BY <1>1, <1>4, <2>2 DEF Finalized
      <3>2. k = Op.of => \E m \in DOMAIN ops : ops[m].of = k
        BY <1>1
      <3> QED BY <1>2, <3>1, <3>2, ChainFollowed
    <2> QED BY <2>1, <2>2
  <1> QED BY <1>3, <1>4, LeftBefore

\* A recovery that finds file and daemon at its target settles all that is
\* open.
LEMMA FinalizedCalm ==
    ASSUME CalmInv, Synced, Undisturbed, Calm, worker # NoWorker, worker.at = "commit",
           Op.kind \in Recoveries, NEW p, Finalized(ops, p, worker.op),
           NEW b, b = BindingReached(ops, worker.op),
           NEW st, st = IF b # Absent THEN "ACTIVE" ELSE "INACTIVE"
    PROVE  CalmAt(p, st, b, disk, live, flight, NoWorker)
  <1>1. /\ worker.op \in DOMAIN ops /\ Op = ops[worker.op] /\ Op.outcome = "pending"
        /\ worker.op \in Work(ops) /\ OpOK(Op)
        /\ \A k \in DOMAIN ops : ~(worker.op < k)
    BY AtHand DEF Recoveries
  <1>2. /\ Op.of # 0 /\ Op.plan # NoPlan
        /\ \A k \in DOMAIN ops : ops[k].of # 0 => ops[k].of \in DOMAIN ops
        /\ \A k \in DOMAIN ops : k \in Nat /\ EndsAgree(ops[k])
    BY <1>1, OfInside DEF CalmInv, ManagerInv, OpOK, JournalOK, SettledOK
  <1>3. Steady(ops, p)
    BY FinalizedSteady
  <1>4. Work(p) = {}
    <2> SUFFICES ASSUME NEW i \in Work(p) PROVE FALSE
      OBVIOUS
    <2>1. i \in Work(ops) /\ i \in DOMAIN ops
      BY <1>3, SteadyKeeps DEF Work
    <2>2. i # worker.op /\ p[i].outcome \in Open
      BY DEF Work, Finalized, Open
    <2>3. p[i] = ops[i] /\ (i \in Chain(ops, Op.of) => ops[i].phase = "terminal")
      BY <1>1, <2>1, <2>2 DEF Finalized, Open
    <2>4. i < worker.op
      BY <1>1, <1>2, <2>1, <2>2
    <2>5. i \in Chain(ops, worker.op)
      BY <1>1, <2>1, <2>4 DEF Calm, CalmAt, OneLine
    <2>6. i \in Chain(ops, Op.of)
      BY <1>1, <1>2, <2>2, <2>5, ChainStep
    <2> QED BY <1>2, <2>1, <2>2, <2>3, <2>6 DEF EndsAgree
  <1>5. Returns(p) = {}
    <2> SUFFICES ASSUME NEW s \in Returns(p) PROVE FALSE
      OBVIOUS
    <2>1. s \in DOMAIN ops /\ p[s].plan = NoPlan /\ p[s].outcome \in Open
             /\ p[s].priorState # "RECOVERY_REQUIRED"
      BY <1>3 DEF Returns, Steady
    <2>2. ops[s].plan = NoPlan /\ ops[s].priorState = p[s].priorState /\ s # worker.op
      BY <1>1, <1>2, <2>1 DEF Finalized
    <2>3. s \in Returns(ops)
      BY <1>3, <2>1, <2>2 DEF Returns, Steady
    <2> QED BY <1>1, <2>2, <2>3, NoOtherReturns DEF Calm, CalmAt
  <1>6. Rests(st, b, disk, live) /\ st \in Settled
    <2>1. disk = PatchTarget(ops, worker.op) /\ live = disk
      BY DEF Calm, CalmAt, WorkerKnows
    <2>2. Op.plan.previousBinding # Absent => Op.plan.before = Op.plan.previousBinding
      BY <1>1, <1>2 DEF Calm, CalmAt, OneLine
    <2> QED BY <1>1, <2>1, <2>2 DEF Rests, Settled, PatchTarget, BindingReached
  <1>7. PriorsOK(p) /\ WorkerKnows(p, st, b, disk, live, NoWorker)
    BY <1>3, SteadyKeeps DEF Calm, CalmAt, WorkerKnows
  <1> QED BY <1>4, <1>5, <1>6, <1>7, AtRest

\* finalizeIntended and finalizePrevious.
LEMMA FinalizeCalm ==
    ASSUME CalmInv, Finalize
    PROVE  CalmNext
  <1> DEFINE target  == ChainTarget(ops, worker.op)
             binding == BindingReached(ops, worker.op)
             done    == [Op EXCEPT !.phase = "terminal", !.outcome = "succeeded"]
             p       == [SettleChain(ops, Op.of, target) EXCEPT ![worker.op] = done]
             st      == IF binding # Absent THEN "ACTIVE" ELSE "INACTIVE"
  <1>1. /\ worker # NoWorker /\ worker.at = "commit" /\ Op.kind \in Recoveries
        /\ UNCHANGED host /\ JournalLast(Receipt3(st, binding, p))
    BY DEF Finalize, Worker, Receipt3, host
  <1>2. Finalized(ops, p, worker.op)
    <2>1. worker.op \in DOMAIN ops /\ Op = ops[worker.op]
      BY <1>1, FitsItself DEF CalmInv
    <2>2. ops \in Seq(Intents) /\ JournalOK(ops)
      BY DEF CalmInv, ManagerInv, Plain, Receipts, ops
    <2> QED BY <1>1, <2>1, <2>2, SettleChainFinalizes
  <1>3. st = IF binding # Absent THEN "ACTIVE" ELSE "INACTIVE"
    OBVIOUS
  <1> HIDE DEF p, st
  <1>4. Synced => Steady(ops, p) /\ (LeftNothing(p) => LeftNothing(ops))
    BY <1>1, <1>2, FinalizedSteady
  <1>5. Synced /\ Undisturbed /\ Calm
           => CalmAt(p, st, binding, disk, live, flight, NoWorker)
    BY <1>1, <1>2, <1>3, FinalizedCalm
  <1>6. Writes(Receipt3(st, binding, p), NoWorker)
    BY <1>1, JournalWrites DEF JournalLast
  <1> HIDE DEF binding
  <1> QED BY <1>1, <1>4, <1>5, <1>6, WroteJournal

-----------------------------------------------------------------------------
(* Settled states: inspection *)

\* An inspect remembers what it read.
LEMMA ReadForInspectCalm ==
    ASSUME CalmInv, ReadForInspect
    PROVE  CalmNext
  <1>1. /\ worker # NoWorker /\ worker.at = "start" /\ UNCHANGED host
        /\ receipt' = receipt /\ faults' = faults /\ Op.kind = "inspect"
        /\ worker' = [worker EXCEPT !.at = "judge", !.disk = disk]
    BY DEF ReadForInspect, Worker, host
  <1>2. worker'.op = worker.op /\ worker'.at = "judge" /\ worker'.disk = disk
    BY <1>1 DEF CalmInv, ManagerInv, Plain, Workers
  <1>3. Op.outcome = "pending" /\ Op = ops[worker.op]
    BY <1>1, FitsItself DEF Stage, CalmInv
  <1>4. Calm => WorkerKnows(ops, receipt.state, receipt.binding, disk, live, worker')
    BY <1>1, <1>2, <1>3 DEF WorkerKnows, Calm, CalmAt
  <1> QED BY <1>1, <1>2, <1>3, <1>4, Moved DEF Early

\* What an inspect's own end makes of it.
LEMMA InspectDoneIs ==
    ASSUME ManagerInv, worker # NoWorker, Op.kind = "inspect",
           NEW x, x = [Op EXCEPT !.outcome = "succeeded", !.phase = "terminal"]
    PROVE  /\ Fits(Op, x) /\ x.plan = Op.plan /\ x.priorState = Op.priorState
           /\ x.outcome = "succeeded" /\ x.outcome \notin Open
           /\ \A st : InspectDone(st) = Conclude(x, st)
           /\ \A st : InspectDone(st) = Receipt3(st, receipt.binding, Edit(ops, worker.op, x))
  <1>1. Op \in Intents /\ OpOK(Op)
    BY FitsItself DEF OpOK
  <1>2. /\ x \in Intents /\ x.kind = "inspect" /\ x.of = Op.of /\ x.bootId = Op.bootId
        /\ x.plan = Op.plan /\ x.outcome = "succeeded" /\ x.phase = "terminal"
        /\ x.attempt = Op.attempt /\ x.priorState = Op.priorState
    BY <1>1 DEF Intents, Phases, Outcomes
  <1>3. \A st : InspectDone(st) = Conclude(x, st)
    BY DEF InspectDone
  <1>4. Fits(Op, x)
    BY <1>1, <1>2 DEF Fits, OpOK, OpRefined, Recoveries, Mutations
  <1>5. \A st : Conclude(x, st) = Receipt3(st, receipt.binding, Edit(ops, worker.op, x))
    BY AmendIs DEF ManagerInv, Plain
  <1> QED BY <1>2, <1>3, <1>4, <1>5 DEF Open

\* An inspect ends in a conflict.
LEMMA InspectConflictCalm ==
    ASSUME CalmInv, InspectConflict
    PROVE  CalmNext
  <1> DEFINE x == [Op EXCEPT !.outcome = "succeeded", !.phase = "terminal"]
  <1>1. /\ worker # NoWorker /\ Op.kind = "inspect" /\ UNCHANGED host
        /\ \/ JournalLast(InspectDone("RECOVERY_REQUIRED"))
           \/ /\ Op.of # 0
              /\ Journal(InspectDone("RECOVERY_REQUIRED"), [worker EXCEPT !.at = "note"])
    BY DEF InspectConflict, Worker, PlanlessSubject, host
  <1>2. /\ Fits(Op, x) /\ x.plan = Op.plan /\ x.priorState = Op.priorState
        /\ x.outcome = "succeeded" /\ x.outcome \notin Open
        /\ InspectDone("RECOVERY_REQUIRED") = Conclude(x, "RECOVERY_REQUIRED")
    BY <1>1, InspectDoneIs DEF CalmInv
  <1> HIDE DEF x
  <1>3. CASE JournalLast(InspectDone("RECOVERY_REQUIRED"))
    <2>1. Writes(Conclude(x, "RECOVERY_REQUIRED"), NoWorker)
      BY <1>2, <1>3, JournalWrites DEF JournalLast
    <2> QED BY <1>1, <1>2, <2>1, RecoveryLast
  <1>4. CASE Op.of # 0 /\ Journal(InspectDone("RECOVERY_REQUIRED"), [worker EXCEPT !.at = "note"])
    <2> DEFINE next == [worker EXCEPT !.at = "note"]
    <2>1. next.op = worker.op /\ next.at = "note"
      BY NextWorker DEF Steps, CalmInv
    <2>2. Journal(Conclude(x, "RECOVERY_REQUIRED"), next)
      BY <1>2, <1>4
    <2> HIDE DEF next
    <2>3. Writes(Conclude(x, "RECOVERY_REQUIRED"), next)
      BY <2>2, JournalWrites
    <2> QED BY <1>1, <1>2, <1>4, <2>1, <2>3, RecoveryNext
  <1> QED BY <1>1, <1>3, <1>4

\* The second write of a conflict changes no operation.
LEMMA InspectNoteCalm ==
    ASSUME CalmInv, InspectNote
    PROVE  CalmNext
  <1>1. worker # NoWorker /\ UNCHANGED host /\ JournalLast(receipt)
    BY DEF InspectNote, Worker, host
  <1>2. faults \in Faults /\ worker \in Workers
    BY DEF CalmInv, ManagerInv, Plain, Faults
  <1>3. /\ receipt' = receipt /\ faults'.drift = faults.drift /\ (Synced' => Synced)
        /\ worker' = NoWorker \/ (worker'.op = worker.op /\ worker'.at = "fail")
    BY <1>1, <1>2 DEF JournalLast, Journal, Written, NotWritten, Faults, Synced, Workers
  <1> QED BY <1>1, <1>3, Unwritten

\* The subject of an inspect ends without its effect.
LEMMA SubjectEnds ==
    ASSUME CalmInv, Synced, Undisturbed, Calm, worker # NoWorker, worker.at = "judge",
           Op.kind = "inspect", Op.of # 0, Op.outcome = "pending", Op.of \in DOMAIN ops,
           Op.of # worker.op, ops[Op.of].plan = NoPlan,
           NEW x, NEW p, Same(ops, p), Amends(ops, p, Op.of), p[Op.of] = x,
           x.outcome = "failed", NEW w, w.op = worker.op, w.at = "close",
           NEW st, st = ops[Op.of].priorState
    PROVE  CalmAt(p, st, receipt.binding, disk, live, flight, w)
  <1>1. worker.op \in DOMAIN ops /\ Op = ops[worker.op]
    BY AtHand
  <1>2. ops[Op.of].outcome = "recovery-required"
    BY <1>1 DEF Calm, CalmAt, WorkerKnows
  <1>3. p[worker.op] = Op
    BY <1>1 DEF Amends
  <1>4. WorkerKnows(p, st, receipt.binding, disk, live, w)
    BY <1>3 DEF WorkerKnows, Same, Steady
  <1>5. st \in Settled \cup {"RECOVERY_REQUIRED"}
    BY DEF Calm, CalmAt, PriorsOK
  <1>6. CASE st = "RECOVERY_REQUIRED"
    <2>1. \A k \in DOMAIN ops : p[k].outcome = "pending" /\ Unsent(p, k, w)
                                      => Unsent(ops, k, worker)
      BY DEF Unsent, Early, Amends
    <2>2. CalmAt(ops, receipt.state, receipt.binding, disk, live, flight, worker)
      BY DEF Calm
    <2> QED BY <1>4, <1>6, <2>1, <2>2, ToRecovery
  <1>7. CASE st \in Settled
    <2>1. Op.of \in Returns(ops)
      BY <1>2, <1>7 DEF Returns, Settled, Open
    <2>2. /\ Rests(st, receipt.binding, disk, live)
          /\ \A i \in DOMAIN ops : i # Op.of /\ ops[i].outcome \in Open =>
                ops[i].kind = "inspect" /\ ops[i].priorState = "RECOVERY_REQUIRED"
      BY <2>1 DEF Calm, CalmAt, ReturnsOK
    <2>3. Work(p) = {}
      <3>1. \A i \in Work(p) : i \in Work(ops) /\ i # Op.of
        BY SteadyKeeps DEF Work, Open, Same
      <3> QED BY <2>2, <3>1 DEF Work
    <2>4. Returns(p) = {}
      <3>1. \A i \in Returns(p) : i \in Returns(ops) /\ i # Op.of
        BY SameKeeps DEF Returns, Open
      <3> QED BY <2>2, <3>1 DEF Returns
    <2>5. PriorsOK(p)
      BY SteadyKeeps DEF Same, Calm, CalmAt
    <2> QED BY <1>4, <1>7, <2>2, <2>3, <2>4, <2>5, AtRest
  <1> QED BY <1>5, <1>6, <1>7

\* inspectInterrupted: the subject ends, and its inspect goes on.
LEMMA InspectSubjectCalm ==
    ASSUME CalmInv, InspectSubject
    PROVE  CalmNext
  <1> DEFINE s    == Op.of
             x    == [ops[s] EXCEPT !.outcome = "failed", !.phase = "terminal"]
             st   == ops[s].priorState
             p    == Edit(ops, s, x)
             next == [worker EXCEPT !.at = "close"]
  <1>1. /\ worker # NoWorker /\ worker.at = "judge" /\ Op.kind = "inspect"
        /\ UNCHANGED host
        /\ s # 0 /\ ops[s].plan = NoPlan
        /\ Journal([receipt EXCEPT !.state = st, !.operations[s].outcome = "failed",
                                   !.operations[s].phase = "terminal"], next)
    BY DEF InspectSubject, Worker, PlanlessSubject, host
  <1>2. /\ receipt \in Receipts /\ ops \in Seq(Intents) /\ JournalOK(ops)
    BY DEF CalmInv, ManagerInv, Plain, Receipts, ops
  <1>3. worker.op \in DOMAIN ops /\ Op = ops[worker.op] /\ Op.outcome = "pending"
    BY <1>1, FitsItself DEF CalmInv, Stage
  <1>4. s \in DOMAIN ops /\ s # worker.op
    BY <1>1, <1>2, <1>3, OfInside DEF JournalOK, Backward
  <1>5. ops[s] \in Intents /\ OpOK(ops[s])
    BY <1>2, <1>4 DEF JournalOK, OpOK
  <1>6. [receipt EXCEPT !.state = st, !.operations[s].outcome = "failed",
                        !.operations[s].phase = "terminal"] = Receipt3(st, receipt.binding, p)
    BY <1>2, <1>4, EndedIs DEF ops
  <1>7. /\ x \in Intents /\ x.kind = ops[s].kind /\ x.of = ops[s].of
        /\ x.plan = NoPlan /\ x.outcome = "failed" /\ x.priorState = ops[s].priorState
    BY <1>1, <1>5 DEF Intents, Phases, Outcomes
  <1>8. st = ops[s].priorState
    OBVIOUS
  <1>9. next.op = worker.op /\ next.at = "close"
    BY NextWorker DEF Steps, CalmInv
  <1>10. Writes(Receipt3(st, receipt.binding, p), next)
    BY <1>1, <1>6, JournalWrites
  <1> HIDE DEF x, st, next
  <1>11. Amends(ops, p, s) /\ p[s] = x
    <2> HIDE DEF s
    <2> QED BY <1>2, <1>4, <1>7, EditAmends
  <1> HIDE DEF p
  <1>12. Same(ops, p)
    BY <1>1, <1>7, <1>11 DEF Same, Steady, Amends, Open
  <1>13. LeftNothing(p) => LeftNothing(ops)
    <2>1. ASSUME NEW k \in DOMAIN ops, ops[k].kind \in Recoveries, ops[k].outcome \in Open,
                 p[k].outcome \notin Open
          PROVE  FALSE
      <3>1. k = s
        BY <1>11, <2>1 DEF Amends
      <3> QED BY <1>1, <1>5, <2>1, <3>1 DEF OpOK
    <2> QED BY <1>12, <2>1, LeftBefore DEF Same
  <1>14. Synced /\ Undisturbed /\ Calm
            => CalmAt(p, st, receipt.binding, disk, live, flight, next)
    BY <1>1, <1>3, <1>4, <1>7, <1>8, <1>9, <1>11, <1>12, SubjectEnds
  <1> QED BY <1>1, <1>10, <1>12, <1>13, <1>14, WroteJournal DEF Same

\* An inspect that ends in a settled state, with nothing else open.
LEMMA EndsSettled ==
    ASSUME CalmInv, Synced, Undisturbed, Calm, worker # NoWorker, Op.kind = "inspect",
           NEW x, NEW p, Becomes(p, x), Fits(Op, x), x.priorState = Op.priorState,
           x.outcome \notin Open, Work(ops) = {}, Returns(ops) \subseteq {worker.op},
           NEW st \in Settled, Rests(st, receipt.binding, disk, live)
    PROVE  CalmAt(p, st, receipt.binding, disk, live, flight, NoWorker)
  <1>1. worker.op \in DOMAIN ops /\ Op = ops[worker.op] /\ OpOK(Op)
    BY AtHand
  <1>2. Same(ops, p)
    BY <1>1 DEF Becomes, Amends, Same, Fits, OpOK
  <1>3. Work(p) = {} /\ Returns(p) = {}
    <2>1. Work(p) = {}
      BY SteadyKeeps DEF Becomes
    <2>2. Returns(p) \subseteq {worker.op} /\ worker.op \notin Returns(p)
      BY <1>2, SameKeeps DEF Returns, Becomes
    <2> QED BY <2>1, <2>2
  <1>4. PriorsOK(p) /\ WorkerKnows(p, st, receipt.binding, disk, live, NoWorker)
    BY SteadyKeeps DEF Calm, CalmAt, Becomes, WorkerKnows
  <1> QED BY <1>3, <1>4, AtRest

\* The second write after inspectInterrupted.
LEMMA InspectCloseCalm ==
    ASSUME CalmInv, InspectClose
    PROVE  CalmNext
  <1> DEFINE x  == [Op EXCEPT !.outcome = "succeeded", !.phase = "terminal"]
             st == ops[Op.of].priorState
  <1>1. /\ worker # NoWorker /\ worker.at = "close" /\ Op.kind = "inspect"
        /\ UNCHANGED host /\ JournalLast(InspectDone(st))
    BY DEF InspectClose, Worker, host
  <1>2. /\ Fits(Op, x) /\ x.plan = Op.plan /\ x.priorState = Op.priorState
        /\ x.outcome = "succeeded" /\ x.outcome \notin Open
        /\ InspectDone(st) = Conclude(x, st)
        /\ InspectDone(st) = Receipt3(st, receipt.binding, Edit(ops, worker.op, x))
    BY <1>1, InspectDoneIs DEF CalmInv
  <1>3. Writes(InspectDone(st), NoWorker)
    BY <1>1, JournalWrites DEF JournalLast
  <1>4. Op.of # 0 /\ Op.of \in DOMAIN ops
    BY <1>1, FitsItself, OfInside DEF Stage, CalmInv, ManagerInv
  <1>5. st = ops[Op.of].priorState
    OBVIOUS
  <1> HIDE DEF x, st
  <1>6. CASE st = "RECOVERY_REQUIRED"
    <2>1. Writes(Conclude(x, "RECOVERY_REQUIRED"), NoWorker)
      BY <1>2, <1>3, <1>6
    <2> QED BY <1>1, <1>2, <2>1, RecoveryLast
  <1>7. CASE st # "RECOVERY_REQUIRED"
    <2>1. ASSUME Synced, Undisturbed, Calm, NEW p, Becomes(p, x)
          PROVE  CalmAt(p, st, receipt.binding, disk, live, flight, NoWorker)
      <3>1. worker.op \in DOMAIN ops /\ Op = ops[worker.op]
        BY <1>1, <2>1, AtHand
      <3>2. receipt.state = st
        BY <1>1, <1>5, <2>1, <3>1 DEF Calm, CalmAt, WorkerKnows
      <3>3. st \in Settled
        BY <1>4, <1>5, <1>7, <2>1 DEF Calm, CalmAt, PriorsOK
      <3>4. Work(ops) = {} /\ Rests(st, receipt.binding, disk, live)
        BY <2>1, <3>2, <3>3 DEF Calm, CalmAt, StateOK
      <3>5. Op.priorState = "RECOVERY_REQUIRED"
        BY <1>4, <2>1, <3>1 DEF Calm, CalmAt, PriorsOK
      <3>6. Op.outcome = "pending"
        BY <1>1, FitsItself DEF Stage, CalmInv
      <3>7. Returns(ops) = {}
        <4> SUFFICES ASSUME NEW t \in Returns(ops) PROVE FALSE
          OBVIOUS
        <4>1. ops[t].outcome # "recovery-required"
          BY <1>7, <2>1, <3>2 DEF Calm, CalmAt, ReturnsOK
        <4>2. t = worker.op
          BY <1>1, <2>1, <3>6, <4>1, AtHand DEF Returns, Open
        <4> QED BY <3>1, <3>5, <4>2 DEF Returns
      <3>8. Returns(ops) \subseteq {worker.op}
        BY <3>7
      <3> QED BY <1>1, <1>2, <2>1, <3>3, <3>4, <3>8, EndsSettled
    <2>2. Synced => (x.outcome \in Open => Op.outcome \in Open)
      BY <1>2
    <2> QED BY <1>1, <1>2, <1>3, <2>1, <2>2, Wrote
  <1> QED BY <1>6, <1>7

\* A verdict: with nothing else open, what the binding says is so.
LEMMA InspectVerdictCalm ==
    ASSUME CalmInv, InspectVerdict
    PROVE  CalmNext
  <1> DEFINE x  == [Op EXCEPT !.outcome = "succeeded", !.phase = "terminal"]
             others == (Pending(receipt) \cup Unresolved(receipt)) \ {worker.op}
             st == IF others # {} THEN "RECOVERY_REQUIRED"
                   ELSE IF receipt.binding # Absent THEN "ACTIVE" ELSE "INACTIVE"
  <1>1. /\ worker # NoWorker /\ worker.at = "verdict" /\ Op.kind = "inspect"
        /\ UNCHANGED host /\ JournalLast(InspectDone(st))
    BY DEF InspectVerdict, Worker, host
  <1>2. /\ Fits(Op, x) /\ x.plan = Op.plan /\ x.priorState = Op.priorState
        /\ x.outcome = "succeeded" /\ x.outcome \notin Open
        /\ InspectDone(st) = Conclude(x, st)
        /\ InspectDone(st) = Receipt3(st, receipt.binding, Edit(ops, worker.op, x))
    BY <1>1, InspectDoneIs DEF CalmInv
  <1>3. Writes(InspectDone(st), NoWorker)
    BY <1>1, JournalWrites DEF JournalLast
  <1> HIDE DEF x
  <1>4. CASE others # {}
    <2>1. Writes(Conclude(x, "RECOVERY_REQUIRED"), NoWorker)
      BY <1>2, <1>3, <1>4
    <2> QED BY <1>1, <1>2, <2>1, RecoveryLast
  <1>5. CASE others = {}
    <2>1. \A i \in DOMAIN ops : ops[i].outcome \in Open => i = worker.op
      BY <1>5 DEF Pending, Unresolved, Open, ops
    <2>2. st = IF receipt.binding # Absent THEN "ACTIVE" ELSE "INACTIVE"
      BY <1>5
    <2> HIDE DEF st, others
    <2>3. ASSUME Synced, Undisturbed, Calm, NEW p, Becomes(p, x)
          PROVE  CalmAt(p, st, receipt.binding, disk, live, flight, NoWorker)
      <3>1. worker.op \in DOMAIN ops /\ Op = ops[worker.op]
        BY <1>1, <2>3, AtHand
      <3>2. Work(ops) = {} /\ Returns(ops) \subseteq {worker.op}
        BY <1>1, <2>1, <3>1 DEF Work, Returns
      <3>3. disk = receipt.binding /\ live = receipt.binding
        BY <1>1, <2>3, <3>2 DEF Calm, CalmAt, WorkerKnows
      <3>4. st \in Settled /\ Rests(st, receipt.binding, disk, live)
        BY <2>2, <3>3 DEF Settled, Rests
      <3> QED BY <1>1, <1>2, <2>3, <3>2, <3>4, EndsSettled
    <2>4. Synced => (x.outcome \in Open => Op.outcome \in Open)
      BY <1>2
    <2> QED BY <1>1, <1>2, <1>3, <2>3, <2>4, Wrote
  <1> QED BY <1>4, <1>5

\* A clean inspect takes the config over as its binding: that of a receipt in
\* recovery, with nothing under way but itself.
LEMMA Refreshed ==
    ASSUME CalmInv, Synced, Undisturbed, Calm, worker # NoWorker, worker.at = "judge",
           Op.kind = "inspect", Op.of = 0, Op.outcome = "pending", InspectClean,
           live # receipt.binding, NEW p, Becomes(p, Op),
           NEW w, w.op = worker.op, w.at = "verdict"
    PROVE  CalmAt(p, receipt.state, live, disk, live, flight, w)
  <1>1. /\ worker.op \in DOMAIN ops /\ Op = ops[worker.op]
        /\ \A k \in DOMAIN ops : ops[k].outcome = "pending" => k = worker.op
    BY AtHand
  <1>2. receipt.binding # Absent /\ worker.disk = live
    BY DEF InspectClean
  <1>3. Same(ops, p) /\ \A k \in DOMAIN ops : p[k] = ops[k]
    BY <1>1 DEF Becomes, Amends, Same
  <1>4. receipt.state \notin Settled
    BY <1>2 DEF Calm, CalmAt, StateOK, Rests, Settled
  <1>5. receipt.state # "ACTIVATING" /\ receipt.state # "DEACTIVATING"
    BY <1>1 DEF Calm, CalmAt, StateOK
  <1>6. \A i \in Work(p) : p[i].outcome # "pending"
    BY <1>1, <1>3 DEF Work, Same, Steady
  <1>7. Work(ops) = Work(p)
    BY <1>3 DEF Work, Same, Steady
  <1>8. Returns(p) = {}
    <2> SUFFICES ASSUME NEW s \in Returns(ops) PROVE FALSE
      BY <1>3, SameKeeps
    <2>1. Rests(ops[s].priorState, receipt.binding, disk, live)
      BY DEF Calm, CalmAt, ReturnsOK
    <2>2. ops[s].priorState \in Settled
      BY DEF Calm, CalmAt, PriorsOK, Returns
    <2> QED BY <1>2, <2>1, <2>2 DEF Rests, Settled
  <1>9. PriorsOK(p) /\ OneLine(p, disk, live)
    BY <1>3, SteadyKeeps, LineKept DEF Calm, CalmAt, Same
  <1>10. StateOK(p, receipt.state, live, disk, live)
    BY <1>4, <1>5 DEF StateOK, Rests, Settled
  <1>11. MutationOK(p, live, disk, live, w) /\ OwnPatch(p, flight)
    BY <1>6 DEF MutationOK, OwnPatch
  <1>12. ReturnsOK(p, receipt.state, live, disk, live)
    BY <1>8 DEF ReturnsOK
  <1>13. WorkerKnows(p, receipt.state, live, disk, live, w)
    <2>1. Work(p) = {} => disk = live
      BY <1>2, <1>7 DEF Calm, CalmAt, WorkerKnows
    <2> QED BY <1>1, <1>3, <2>1 DEF WorkerKnows
  <1> QED BY <1>9, <1>10, <1>11, <1>12, <1>13 DEF CalmAt

\* A clean healthy inspect takes over the user's profile edits.
LEMMA InspectRefreshCalm ==
    ASSUME CalmInv, InspectRefresh
    PROVE  CalmNext
  <1> DEFINE next == [worker EXCEPT !.at = "verdict"]
  <1>1. /\ worker # NoWorker /\ worker.at = "judge" /\ Op.kind = "inspect"
        /\ UNCHANGED host /\ Op.of = 0 /\ InspectClean
        /\ \/ Journal([receipt EXCEPT !.binding = live], next) /\ live # receipt.binding
           \/ Goto("verdict") /\ live = receipt.binding
    BY DEF InspectRefresh, Worker, host
  <1>2. Op.outcome = "pending" /\ Op = ops[worker.op]
    BY <1>1, FitsItself DEF Stage, CalmInv
  <1>3. CASE Goto("verdict") /\ live = receipt.binding
    <2>1. worker'.op = worker.op /\ worker'.at = "verdict" /\ receipt' = receipt
            /\ faults' = faults
      BY <1>3 DEF Goto, CalmInv, ManagerInv, Plain, Workers
    <2>2. Calm => WorkerKnows(ops, receipt.state, receipt.binding, disk, live, worker')
      <3>1. worker.disk = live
        BY <1>1 DEF InspectClean
      <3>2. Calm /\ Work(ops) = {} => worker.disk = disk
        BY <1>1 DEF Calm, CalmAt, WorkerKnows
      <3> QED BY <1>2, <1>3, <2>1, <3>1, <3>2 DEF WorkerKnows
    <2> QED BY <1>1, <1>2, <2>1, <2>2, Moved DEF Early
  <1>4. CASE Journal([receipt EXCEPT !.binding = live], next) /\ live # receipt.binding
    <2>1. receipt = Receipt3(receipt.state, receipt.binding, ops)
      BY AmendIs DEF CalmInv, ManagerInv, Plain
    <2>2. [receipt EXCEPT !.binding = live] = Receipt3(receipt.state, live, ops)
      BY <2>1 DEF Receipt3
    <2>3. Edit(ops, worker.op, Op) = ops
      BY <1>1, SameOp DEF CalmInv
    <2>4. next.op = worker.op /\ next.at = "verdict"
      BY NextWorker DEF Steps, CalmInv
    <2> HIDE DEF next
    <2>5. Writes(Receipt3(receipt.state, live, Edit(ops, worker.op, Op)), next)
      BY <1>4, <2>2, <2>3, JournalWrites
    <2>6. Fits(Op, Op)
      BY <1>1, FitsItself DEF CalmInv
    <2>7. Synced /\ Undisturbed /\ Calm =>
             \A p : Becomes(p, Op) => CalmAt(p, receipt.state, live, disk, live, flight, next)
      BY <1>1, <1>2, <1>4, <2>4, Refreshed
    <2> QED BY <1>1, <2>5, <2>6, <2>7, Wrote
  <1> QED BY <1>1, <1>3, <1>4

-----------------------------------------------------------------------------
(* Settled states: the host, the machine and other people *)

\* A patch that may still be running has a plan, and is of what is open.
LEMMA FlightWorks ==
    ASSUME ManagerInv, NEW i \in flight
    PROVE  /\ i \in DOMAIN ops /\ i \in Work(ops) /\ ops[i].plan # NoPlan
           /\ ops[i].attempt \notin {"none", "threw"}
  <1>1. i \in DOMAIN ops /\ ops[i].attempt \in SentAttempts /\ ops[i].outcome \in Open
    BY DEF ManagerInv, FlightOK
  <1>2. ops[i].plan # NoPlan /\ ops[i].kind # "inspect"
    BY <1>1 DEF ManagerInv, JournalOK, OpOK, SentAttempts
  <1> QED BY <1>1, <1>2 DEF Work, SentAttempts

\* A patch lands, in whole or in part: file and daemon stay at the endpoints
\* of what is open, and no worker is past looking.
LEMMA Lands ==
    ASSUME CalmInv, Synced, Undisturbed, Calm, NEW i \in flight,
           NEW d \in {disk, live, PatchTarget(ops, i)},
           NEW l \in {disk, live, PatchTarget(ops, i)},
           NEW g, g \subseteq flight, NEW w, w \in {worker, NoWorker}
    PROVE  CalmAt(ops, receipt.state, receipt.binding, d, l, g, w)
  <1>1. /\ i \in DOMAIN ops /\ i \in Work(ops) /\ ops[i].plan # NoPlan
        /\ ops[i].attempt \notin {"none", "threw"}
    BY FlightWorks DEF CalmInv
  <1>2. \A k \in DOMAIN ops : k \in Nat
    BY DEF CalmInv, ManagerInv, JournalOK
  <1>3. {d, l} \subseteq {ops[i].plan.before, ops[i].plan.after}
    BY <1>1 DEF Calm, CalmAt, OneLine, PatchTarget
  <1>4. \A k \in Work(ops) : ops[k].plan = ops[i].plan
    <2> SUFFICES ASSUME NEW k \in Work(ops) PROVE ops[k].plan = ops[i].plan
      OBVIOUS
    <2>1. k \in Nat /\ i \in Nat
      BY <1>1, <1>2 DEF Work
    <2>2. k < i \/ k = i \/ i < k
      BY <2>1
    <2> QED BY <1>1, <2>2 DEF Calm, CalmAt, OneLine
  <1>5. PriorsOK(ops)
    BY DEF Calm, CalmAt
  <1>6. OneLine(ops, d, l)
    BY <1>1, <1>3, <1>4 DEF Calm, CalmAt, OneLine
  <1>7. receipt.state \notin Settled
    BY <1>1 DEF Calm, CalmAt, StateOK
  <1>8. StateOK(ops, receipt.state, receipt.binding, d, l)
    BY <1>7 DEF Calm, CalmAt, StateOK, Rests, Settled
  <1>9. worker # NoWorker /\ worker.op = i => worker.at \in {"await", "mark", "fail"}
    BY FitsItself DEF CalmInv
  <1>10. ~Unsent(ops, i, w)
    BY <1>1, <1>9 DEF Unsent, Early
  <1>11. MutationOK(ops, receipt.binding, d, l, w)
    BY <1>1, <1>10 DEF Calm, CalmAt, MutationOK
  <1>12. OwnPatch(ops, g)
    BY DEF Calm, CalmAt, OwnPatch
  <1>13. ReturnsOK(ops, receipt.state, receipt.binding, d, l)
    <2>1. Returns(ops) = {}
      BY <1>1, NoOtherReturns DEF Calm, CalmAt, Returns
    <2> QED BY <2>1 DEF ReturnsOK
  <1>14. WorkerKnows(ops, receipt.state, receipt.binding, d, l, w)
    <2> SUFFICES ASSUME worker # NoWorker, w = worker
                 PROVE  WorkerKnows(ops, receipt.state, receipt.binding, d, l, worker)
      BY DEF WorkerKnows
    <2>1. worker.op \in DOMAIN ops /\ Op = ops[worker.op] /\ OpOK(Op)
             /\ Stage(Op, receipt.binding, worker.at)
      BY FitsItself DEF CalmInv
    <2>2. ASSUME Op.kind # "inspect" PROVE worker.at \in {"await", "mark", "fail"}
      <3>1. worker.op \in Work(ops) /\ Op.outcome = "pending"
        BY <2>2, AtHand
      <3>2. i = worker.op
        BY <2>1, <3>1 DEF Calm, CalmAt, OwnPatch
      <3> QED BY <1>9, <3>2
    <2>3. worker.at \in {"verify", "commit"} => Op.kind # "inspect"
      BY <2>1 DEF Stage, OpOK
    <2>4. ~(\A k \in Work(ops) : ops[k].plan = NoPlan) /\ Work(ops) # {}
      BY <1>1
    <2>5. WorkerKnows(ops, receipt.state, receipt.binding, disk, live, worker)
      BY DEF Calm, CalmAt
    <2> QED BY <2>1, <2>2, <2>3, <2>4, <2>5 DEF WorkerKnows
  <1> QED BY <1>5, <1>6, <1>8, <1>11, <1>12, <1>13, <1>14 DEF CalmAt

\* The host has worked off a patch, or dropped it.
LEMMA HostPatchCalm ==
    ASSUME CalmInv, NEW i \in flight, HostPatch(i)
    PROVE  CalmNext
  <1>1. /\ ops' = ops /\ receipt' = receipt /\ worker' = worker /\ faults' = faults
        /\ (Synced' <=> Synced) /\ flight' \subseteq flight
        /\ disk' \in {disk, live, PatchTarget(ops, i)}
        /\ live' \in {disk, live, PatchTarget(ops, i)}
    BY DEF HostPatch, ops, Synced
  <1>2. Synced /\ Undisturbed /\ Calm =>
           CalmAt(ops', receipt'.state, receipt'.binding, disk', live', flight', worker')
    BY <1>1, Lands
  <1> QED BY <1>1, <1>2, LookBack

\* The daemon takes up what the file holds.
LEMMA TakesUp ==
    ASSUME NEW o, NEW st, NEW b, NEW d, NEW l, NEW f, NEW v,
           CalmAt(o, st, b, d, l, f, v)
    PROVE  CalmAt(o, st, b, d, d, {}, NoWorker)
  <1>1. \A s : Rests(s, b, d, l) => Rests(s, b, d, d)
    BY DEF Rests
  <1>2. OneLine(o, d, d) /\ StateOK(o, st, b, d, d) /\ ReturnsOK(o, st, b, d, d)
    BY <1>1 DEF CalmAt, OneLine, StateOK, ReturnsOK
  <1>3. MutationOK(o, b, d, d, NoWorker)
    BY DEF CalmAt, MutationOK, Unsent
  <1>4. OwnPatch(o, {}) /\ WorkerKnows(o, st, b, d, d, NoWorker) /\ PriorsOK(o)
    BY DEF CalmAt, OwnPatch, WorkerKnows
  <1> QED BY <1>2, <1>3, <1>4 DEF CalmAt

\* A new boot: a patch is in the file or is not, and the daemon runs with it.
LEMMA RestartCalm ==
    ASSUME CalmInv, Restart
    PROVE  CalmNext
  <1>1. /\ ops' = ops /\ receipt' = receipt /\ worker' = NoWorker /\ faults' = faults
        /\ (Synced' <=> Synced) /\ flight' = {} /\ live' = disk'
        /\ disk' = disk \/ \E i \in flight : disk' = PatchTarget(ops, i)
    BY DEF Restart, ops, Synced
  <1>2. ASSUME Synced, Undisturbed, Calm
        PROVE  CalmAt(ops, receipt.state, receipt.binding, disk', disk', {}, NoWorker)
    <2>1. CASE disk' = disk
      <3>1. CalmAt(ops, receipt.state, receipt.binding, disk, live, flight, worker)
        BY <1>2 DEF Calm
      <3> QED BY <2>1, <3>1, TakesUp
    <2>2. CASE \E i \in flight : disk' = PatchTarget(ops, i)
      <3>1. PICK i \in flight : disk' = PatchTarget(ops, i)
        BY <2>2
      <3>2. disk' \in {disk, live, PatchTarget(ops, i)} /\ {} \subseteq flight
               /\ NoWorker \in {worker, NoWorker}
        BY <3>1
      <3> HIDE DEF NoWorker
      <3> QED BY <1>2, <3>2, Lands
    <2> QED BY <1>1, <2>1, <2>2
  <1> QED BY <1>1, <1>2, LookBack

\* An edit from outside is a disturbance.
LEMMA DriftCalm ==
    ASSUME CalmInv, Drift
    PROVE  CalmNext
  <1>1. ops' = ops /\ (Synced' <=> Synced) /\ faults' = [faults EXCEPT !.drift = @ + 1]
    BY DEF Drift, ops, Synced
  <1>2. faults.drift \in Nat /\ faults'.drift = faults.drift + 1
    BY <1>1 DEF CalmInv, ManagerInv, Plain
  <1>3. ~Undisturbed'
    BY <1>2 DEF Undisturbed
  <1> QED BY <1>1, <1>3 DEF CalmNext, CalmInv

-----------------------------------------------------------------------------
(* Settled states: admission *)

\* An open operation may have been opened for recovery; nothing has ended.
Reopens(o, p) ==
    /\ Same(o, p)
    /\ \A k \in DOMAIN o : o[k].outcome \in Open => p[k].outcome \in Open

\* p is o, perhaps with something opened for recovery, and x.
Admits(o, p, n, x) ==
    /\ n \notin DOMAIN o /\ n \in Nat /\ DOMAIN p = DOMAIN o \cup {n}
    /\ \A k \in DOMAIN o : k \in Nat /\ k < n
    /\ p[n] = x
    /\ \A k \in DOMAIN o :
          /\ p[k].kind = o[k].kind /\ p[k].of = o[k].of /\ p[k].plan = o[k].plan
          /\ p[k].priorState = o[k].priorState
          /\ p[k].outcome \in Open <=> o[k].outcome \in Open

\* An accepted journal is such a one.
LEMMA AdmitsGrown ==
    ASSUME JournalOK(ops), NEW o, NEW p, NEW n, NEW x, Reopens(ops, o), Grows(o, p, n, x)
    PROVE  Admits(ops, p, n, x)
  <1>1. DOMAIN o = DOMAIN ops /\ \A k \in DOMAIN ops : p[k] = o[k]
    BY DEF Reopens, Same, Steady, Grows
  <1>2. /\ n \notin DOMAIN ops /\ n \in Nat /\ DOMAIN p = DOMAIN ops \cup {n}
        /\ \A k \in DOMAIN ops : k \in Nat /\ k < n
    BY <1>1 DEF Grows
  <1> QED BY <1>1, <1>2 DEF Admits, Reopens, Same, Steady, Grows

\* Its chains.
LEMMA AdmitsChains ==
    ASSUME JournalOK(ops), NEW p, NEW n, NEW x, Admits(ops, p, n, x),
           x.of \in {0} \cup DOMAIN ops
    PROVE  /\ \A k \in DOMAIN ops : Chain(p, k) = Chain(ops, k)
           /\ \A k, j \in DOMAIN ops : OneChain(p, k, j) <=> OneChain(ops, k, j)
           /\ Chain(p, n) = {n} \cup (IF x.of = 0 THEN {} ELSE Chain(ops, x.of))
  <1>1. \A k \in DOMAIN ops : ops[k].of # 0 => ops[k].of \in DOMAIN ops
    BY OfInside
  <1>2. \A k \in DOMAIN ops : Chain(p, k) = Chain(ops, k)
    <2>1. DOMAIN ops \subseteq DOMAIN p /\ \A k \in DOMAIN ops : p[k].of = ops[k].of
      BY DEF Admits
    <2> QED BY <1>1, <2>1, ChainOld
  <1>3. \A k \in DOMAIN p : p[k].of # 0 => p[k].of \in DOMAIN p
    BY <1>1 DEF Admits
  <1>4. Chain(p, n) = {n} \cup (IF p[n].of = 0 THEN {} ELSE Chain(p, p[n].of))
    <2>1. n \in DOMAIN p
      BY DEF Admits
    <2> QED BY <1>3, <2>1, ChainStep
  <1>5. p[n] = x
    BY DEF Admits
  <1> QED BY <1>2, <1>4, <1>5 DEF OneChain

\* If nothing is left behind now, nothing was.
LEMMA AdmitsLeft ==
    ASSUME JournalOK(ops), NEW p, NEW n, NEW x, Admits(ops, p, n, x),
           x.of \in {0} \cup DOMAIN ops, LeftNothing(p)
    PROVE  LeftNothing(ops)
  <1> SUFFICES ASSUME NEW i \in DOMAIN ops, NEW j \in DOMAIN ops,
                      {ops[i].kind, ops[j].kind} \subseteq Recoveries, i < j,
                      OneChain(ops, i, j), i \notin Chain(ops, j)
               PROVE  ops[i].outcome \notin Open /\ \A k \in DOMAIN ops : ops[k].of # i
    BY DEF LeftNothing
  <1>1. OneChain(p, i, j) /\ i \notin Chain(p, j)
    BY AdmitsChains
  <1>2. i \in DOMAIN p /\ j \in DOMAIN p /\ {p[i].kind, p[j].kind} \subseteq Recoveries
    BY DEF Admits
  <1>3. p[i].outcome \notin Open /\ \A k \in DOMAIN p : p[k].of # i
    BY <1>1, <1>2 DEF LeftNothing
  <1> QED BY <1>3 DEF Admits

\* What an accepting write leads to: the request is refused by the disk, or
\* it is in the journal and its worker starts.
LEMMA Entered ==
    ASSUME CalmInv, worker = NoWorker, NEW st, NEW o \in Seq(Intents), NEW x \in Intents,
           NEW adopt, Accept(Receipt3(st, receipt.binding, o), x, adopt),
           Reopens(ops, o), x.of \in {0} \cup DOMAIN ops, x.outcome = "pending",
           \A p, n, w : /\ Synced /\ Undisturbed /\ Calm
                        /\ Admits(ops, p, n, x) /\ LeftNothing(p)
                        /\ \A k \in DOMAIN ops : p[k].outcome # "pending"
                        /\ \A k \in DOMAIN ops : p[k] = o[k]
                        /\ w # NoWorker /\ w.op = n /\ w.at = "start"
                  => CalmAt(p, st, receipt.binding, disk, live, flight, w)
    PROVE  CalmNext
  <1> DEFINE n == Len(o) + 1
             p == Append(o, x)
             new == Receipt3(st, receipt.binding, p)
             next == [NoWorker EXCEPT !.op = Len(ops) + 1, !.adopt = adopt]
  <1>1. JournalOK(ops) /\ ops \in Seq(Intents) /\ faults \in Faults
    BY DEF CalmInv, ManagerInv, Plain, Receipts, ops, Faults
  <1>2. Len(o) = Len(ops)
    BY <1>1 DEF Reopens, Same, Steady
  <1>3. /\ DOMAIN o = 1..Len(o) /\ DOMAIN p = 1..n
        /\ n \in Nat \ {0} /\ n \notin DOMAIN o
        /\ (\A k \in DOMAIN o : p[k] = o[k]) /\ p[n] = x
    BY Appended
  <1>4. [Receipt3(st, receipt.binding, o) EXCEPT !.operations = Append(@, x)] = new
    BY AppendedIs
  <1>5. next # NoWorker /\ next.op = n /\ next.at = "start"
    BY <1>2, <1>3 DEF NoWorker
  <1> HIDE DEF p, n
  <1>6. Grows(o, p, n, x)
    BY <1>3 DEF Grows, n
  <1>7. new.operations = p /\ new.state = st /\ new.binding = receipt.binding
    BY DEF Receipt3
  <1>8. /\ Refined(new)
        /\ \/ Written(new) /\ worker' = next
           \/ NotWritten(new) /\ UNCHANGED worker
        /\ UNCHANGED host
    BY <1>4 DEF Accept, host
  <1> HIDE DEF new, next
  <1>9. /\ Synced' => Synced
        /\ faults'.drift = faults.drift
        /\ \/ receipt' = new /\ worker' = next
           \/ receipt' = receipt /\ worker' = worker
           \/ ~Synced'
    BY <1>1, <1>8 DEF Written, NotWritten, Faults, Synced
  <1>10. disk' = disk /\ live' = live /\ flight' = flight
    BY <1>8 DEF host
  <1>11. CASE ~Synced'
    BY <1>11 DEF CalmNext, Undisturbed
  <1>12. CASE receipt' = receipt /\ worker' = worker
    <2>1. ops' = ops
      BY <1>12 DEF ops
    <2>2. Calm => CalmAt(ops', receipt'.state, receipt'.binding, disk', live', flight', worker')
      BY <1>10, <1>12, <2>1 DEF Calm
    <2> QED BY <1>9, <2>1, <2>2, LookBack
  <1>13. CASE receipt' = new /\ worker' = next
    <2>1. ops' = p /\ receipt'.state = st /\ receipt'.binding = receipt.binding
      BY <1>7, <1>13 DEF ops
    <2>2. Admits(ops, p, n, x)
      BY <1>1, <1>6, AdmitsGrown
    <2>3. \A k \in DOMAIN p : p[k].outcome = "pending" => k = n
      <3>1. \A i, j \in DOMAIN p : p[i].outcome = "pending" /\ p[j].outcome = "pending"
                                      => i = j
        BY <1>7, <1>8 DEF Refined, Pending
      <3> QED BY <1>3, <3>1
    <2>4. Ordered(p)
      <3>1. \A j \in DOMAIN p : j <= n
        BY <1>3
      <3> QED BY <2>3, <3>1 DEF Ordered
    <2>5. LeftNothing(p) => LeftNothing(ops)
      BY <1>1, <2>2, AdmitsLeft
    <2>6. ASSUME Synced, Undisturbed, Undisturbed', Calm
          PROVE  CalmAt(p, st, receipt.binding, disk, live, flight, next)
      <3>1. LeftNothing(p)
        BY <2>1, <2>6 DEF Undisturbed, NothingLeftOpen, LeftNothing, Open
      <3>2. \A k \in DOMAIN ops : p[k].outcome # "pending"
        BY <2>2, <2>3 DEF Admits
      <3>3. \A k \in DOMAIN ops : p[k] = o[k]
        BY <1>3 DEF Reopens, Same, Steady
      <3> QED BY <1>5, <2>2, <2>6, <3>1, <3>2, <3>3
    <2> QED BY <1>9, <1>10, <1>13, <2>1, <2>4, <2>5, <2>6, LookBack
  <1> QED BY <1>9, <1>11, <1>12, <1>13

\* With nothing under way, a receipt is settled or in recovery.
LEMMA IdleState ==
    ASSUME CalmInv, Calm, \A k \in DOMAIN ops : ops[k].outcome # "pending"
    PROVE  receipt.state \in Settled \cup {"RECOVERY_REQUIRED"}
  <1>1. receipt.state \in States
    BY DEF CalmInv, ManagerInv, Plain, Receipts
  <1>2. receipt.state # "ACTIVATING" /\ receipt.state # "DEACTIVATING"
    BY DEF Calm, CalmAt, StateOK
  <1> QED BY <1>1, <1>2 DEF States, Settled

\* The operations of an admitted journal that matter to the config.
LEMMA AdmitsWork ==
    ASSUME NEW o, NEW p, NEW n, NEW x, Admits(o, p, n, x)
    PROVE  /\ \A k \in DOMAIN o : k \in Work(p) <=> k \in Work(o)
           /\ \A k \in Work(p) : k = n \/ k \in Work(o)
           /\ n \in Work(p) <=> x.kind # "inspect" /\ x.outcome \in Open
           /\ \A k \in Returns(p) : k = n \/ k \in Returns(o)
           /\ n \in Returns(p) <=> x.outcome \in Open /\ x.plan = NoPlan
                                       /\ x.priorState # "RECOVERY_REQUIRED"
  BY DEF Admits, Work, Returns

\* With nothing under way, and at an end to what is open, a mutation is
\* admitted to a settled receipt or to recovery without a binding.
LEMMA MutationEnters ==
    ASSUME CalmInv, Undisturbed, Calm, MutationAdmitted(TRUE),
           NEW x, NEW p, NEW n, Admits(ops, p, n, x), JournalOK(ops),
           x.of = 0, x.plan = NoPlan, x.outcome = "pending", x.priorState = receipt.state,
           NEW st, \/ st = "ACTIVATING" /\ x.kind = "activate"
                   \/ st = "DEACTIVATING" /\ x.kind = "deactivate",
           \A k \in DOMAIN ops : p[k].outcome # "pending",
           NEW w, w.op = n, w.at = "start"
    PROVE  CalmAt(p, st, receipt.binding, disk, live, flight, w)
  <1>1. /\ \A k \in DOMAIN ops : ops[k].outcome # "pending"
        /\ receipt.state = "RECOVERY_REQUIRED" =>
              /\ receipt.binding = Absent
              /\ \A k \in DOMAIN ops : ops[k].outcome # "recovery-required"
    BY DEF MutationAdmitted, Pending, Unresolved, ops
  <1>2. receipt.state \in Settled \cup {"RECOVERY_REQUIRED"}
    BY <1>1, IdleState
  <1>3. Work(ops) = {}
    BY <1>1, <1>2 DEF Calm, CalmAt, StateOK, Work, Open
  <1>4. Work(p) = {n} /\ n \notin DOMAIN ops /\ DOMAIN p = DOMAIN ops \cup {n} /\ p[n] = x
           /\ n \in Nat
    BY <1>3, AdmitsWork DEF Admits, Open
  <1>5. flight = {}
    BY <1>3, FlightWorks DEF CalmInv
  <1>6. PriorsOK(p)
    BY <1>2, <1>4 DEF PriorsOK, Calm, CalmAt, Admits
  <1>7. OneLine(p, disk, live)
    BY <1>4 DEF OneLine
  <1>8. StateOK(p, st, receipt.binding, disk, live)
    BY <1>4 DEF StateOK, Rests, Settled
  <1>9. MutationOK(p, receipt.binding, disk, live, w) /\ OwnPatch(p, flight)
    BY <1>1, <1>4, <1>5 DEF MutationOK, OwnPatch
  <1>10. ReturnsOK(p, st, receipt.binding, disk, live)
    <2> SUFFICES ASSUME NEW s \in Returns(p)
                 PROVE  /\ Rests(p[s].priorState, receipt.binding, disk, live)
                        /\ \A i \in DOMAIN p : i # s /\ p[i].outcome \in Open =>
                              p[i].kind = "inspect" /\ p[i].priorState = "RECOVERY_REQUIRED"
                        /\ p[s].outcome # "recovery-required"
      BY DEF ReturnsOK
    <2>1. s = n
      <3> SUFFICES ASSUME s \in Returns(ops) PROVE FALSE
        BY AdmitsWork
      <3>1. ops[s].outcome = "recovery-required" /\ s \in DOMAIN ops
        BY <1>1 DEF Returns, Open
      <3> QED BY <1>1, <3>1 DEF Calm, CalmAt, ReturnsOK
    <2>2. receipt.state \in Settled
      BY <1>2, <1>4, <2>1 DEF Returns
    <2>3. Rests(receipt.state, receipt.binding, disk, live)
      BY DEF Calm, CalmAt, StateOK
    <2>4. ASSUME NEW i \in DOMAIN p, i # s, p[i].outcome \in Open
          PROVE  p[i].kind = "inspect" /\ p[i].priorState = "RECOVERY_REQUIRED"
      <3>1. i \in DOMAIN ops /\ ops[i].outcome \in Open
        BY <1>4, <2>1, <2>4 DEF Admits
      <3>2. ops[i].outcome = "recovery-required" /\ ops[i].kind = "inspect"
        BY <1>1, <1>3, <3>1 DEF Open, Work
      <3>3. ops[i].plan = NoPlan
        BY <3>1, <3>2 DEF JournalOK, OpOK
      <3>4. ops[i].priorState = "RECOVERY_REQUIRED"
        <4> SUFFICES ASSUME ops[i].priorState # "RECOVERY_REQUIRED" PROVE FALSE
          OBVIOUS
        <4>1. i \in Returns(ops)
          BY <3>1, <3>3 DEF Returns
        <4> QED BY <2>2, <3>2, <4>1 DEF Calm, CalmAt, ReturnsOK, Settled
      <3> QED BY <3>1, <3>2, <3>4 DEF Admits
    <2> QED BY <1>4, <2>1, <2>3, <2>4
  <1>11. WorkerKnows(p, st, receipt.binding, disk, live, w)
    BY <1>4 DEF WorkerKnows
  <1> QED BY <1>6, <1>7, <1>8, <1>9, <1>10, <1>11 DEF CalmAt

\* An accepted activate or deactivate.
LEMMA MutateCalm ==
    ASSUME CalmInv, NEW adopt \in BOOLEAN, MutationAdmitted(adopt), NEW st, NEW kind,
           \/ st = "ACTIVATING" /\ kind = "activate"
           \/ st = "DEACTIVATING" /\ kind = "deactivate",
           Accept([receipt EXCEPT !.state = st],
                  Intent(kind, 0, NoPlan, receipt.state), adopt)
    PROVE  CalmNext
  <1> DEFINE x == Intent(kind, 0, NoPlan, receipt.state)
  <1>1. receipt \in Receipts /\ receipt.state \in States /\ ops \in Seq(Intents)
           /\ JournalOK(ops) /\ ManagerInv /\ worker = NoWorker
    BY DEF CalmInv, ManagerInv, Plain, Receipts, ops, MutationAdmitted
  <1>2. kind \in Kinds
    BY DEF Kinds
  <1>3. /\ x \in Intents /\ x.kind = kind /\ x.of = 0 /\ x.plan = NoPlan
        /\ x.outcome = "pending" /\ x.priorState = receipt.state
    <2>1. 0 \in Nat /\ NoPlan \in Plans /\ kind \in Kinds /\ receipt.state \in States
      BY <1>1, <1>2, NoPlanIsPlan
    <2> QED BY <1>1, <2>1, IntentIs DEF Intent
  <1>4. [receipt EXCEPT !.state = st] = Receipt3(st, receipt.binding, ops)
    BY <1>1 DEF Receipt3, Receipts, ops
  <1> HIDE DEF x
  <1>5. Accept(Receipt3(st, receipt.binding, ops), x, adopt)
    BY <1>4 DEF x
  <1>6. MutationAdmitted(TRUE)
    BY DEF MutationAdmitted
  <1>7. Reopens(ops, ops)
    BY DEF Reopens, Same, Steady
  <1>8. \A p, n, w : /\ Synced /\ Undisturbed /\ Calm
                     /\ Admits(ops, p, n, x) /\ LeftNothing(p)
                     /\ \A k \in DOMAIN ops : p[k].outcome # "pending"
                     /\ \A k \in DOMAIN ops : p[k] = ops[k]
                     /\ w # NoWorker /\ w.op = n /\ w.at = "start"
               => CalmAt(p, st, receipt.binding, disk, live, flight, w)
    BY <1>1, <1>3, <1>6, MutationEnters
  <1> QED BY <1>1, <1>3, <1>5, <1>7, <1>8, Entered

\* An accepted activate.
LEMMA ActivateCalm ==
    ASSUME CalmInv, NEW adopt \in BOOLEAN, Activate(adopt)
    PROVE  CalmNext
  BY MutateCalm DEF Activate

\* An accepted deactivate.
LEMMA DeactivateCalm ==
    ASSUME CalmInv, Deactivate
    PROVE  CalmNext
  <1>1. FALSE \in BOOLEAN
    OBVIOUS
  <1> QED BY <1>1, MutateCalm DEF Deactivate

\* The line of what is open is what it was when the new operation is not of it.
LEMMA LineAdmits ==
    ASSUME CalmInv, Calm, NEW x, NEW p, NEW n, Admits(ops, p, n, x), JournalOK(ops),
           x.of \in {0} \cup DOMAIN ops, x.kind = "inspect" \/ x.outcome \notin Open
    PROVE  Work(p) = Work(ops) /\ OneLine(p, disk, live)
  <1>1. Work(p) = Work(ops)
    <2>1. n \notin Work(p) /\ n \notin Work(ops)
      BY AdmitsWork DEF Admits, Work
    <2>2. \A k \in Work(ops) : k \in DOMAIN ops
      BY DEF Work
    <2> QED BY <2>1, <2>2, AdmitsWork
  <1>2. \A k \in Work(ops) : Chain(p, k) = Chain(ops, k) /\ p[k].plan = ops[k].plan
    BY AdmitsChains DEF Admits, Work
  <1>3. OneLine(ops, disk, live)
    BY DEF Calm, CalmAt
  <1> QED BY <1>1, <1>2, <1>3 DEF OneLine

\* A deactivate with nothing to take away is in the journal, and that is all.
LEMMA NothingEnters ==
    ASSUME CalmInv, Calm, NEW x, NEW p, NEW n, Admits(ops, p, n, x), JournalOK(ops),
           x.of = 0, x.outcome = "no-op", x.priorState = receipt.state,
           \A k \in DOMAIN ops : ops[k].outcome # "pending" /\ p[k] = ops[k]
    PROVE  CalmAt(p, receipt.state, receipt.binding, disk, live, flight, NoWorker)
  <1>1. receipt.state \in Settled \cup {"RECOVERY_REQUIRED"}
    BY IdleState
  <1>2. Work(p) = Work(ops) /\ OneLine(p, disk, live)
    BY LineAdmits DEF Open
  <1>3. /\ DOMAIN p = DOMAIN ops \cup {n} /\ p[n] = x /\ \A k \in DOMAIN p : p[k].outcome # "pending"
    BY DEF Admits
  <1>4. PriorsOK(p)
    BY <1>1, <1>3 DEF PriorsOK, Calm, CalmAt
  <1>5. receipt.state # "ACTIVATING" /\ receipt.state # "DEACTIVATING"
    BY <1>1 DEF Settled
  <1>6. StateOK(p, receipt.state, receipt.binding, disk, live)
    BY <1>2, <1>5 DEF StateOK, Calm, CalmAt
  <1>7. MutationOK(p, receipt.binding, disk, live, NoWorker) /\ OwnPatch(p, flight)
    BY <1>3 DEF MutationOK, OwnPatch, Work
  <1>8. \A s \in Returns(p) : s \in Returns(ops) /\ s \in DOMAIN ops
    BY AdmitsWork DEF Open, Returns
  <1>9. ReturnsOK(p, receipt.state, receipt.binding, disk, live)
    BY <1>3, <1>8 DEF ReturnsOK, Calm, CalmAt, Open
  <1> QED BY <1>2, <1>4, <1>6, <1>7, <1>9 DEF CalmAt, WorkerKnows

\* Its one write.
LEMMA DeactivateNothingCalm ==
    ASSUME CalmInv, DeactivateNothing
    PROVE  CalmNext
  <1> DEFINE x == [Intent("deactivate", 0, NoPlan, receipt.state)
                      EXCEPT !.phase = "terminal", !.outcome = "no-op"]
             p == Append(ops, x)
             new == Receipt3(receipt.state, receipt.binding, p)
             n == Len(ops) + 1
  <1>1. receipt \in Receipts /\ receipt.state \in States /\ ops \in Seq(Intents)
           /\ JournalOK(ops) /\ faults \in Faults /\ ManagerInv
    BY DEF CalmInv, ManagerInv, Plain, Receipts, ops, Faults
  <1>2. "deactivate" \in Kinds
    BY DEF Kinds
  <1>3. /\ x \in Intents /\ x.of = 0 /\ x.outcome = "no-op" /\ x.priorState = receipt.state
    <2> DEFINE y == Intent("deactivate", 0, NoPlan, receipt.state)
    <2>1. y \in Intents /\ y.of = 0 /\ y.priorState = receipt.state
      BY <1>1, <1>2, NoPlanIsPlan, IntentIs DEF Intent
    <2> HIDE DEF y
    <2>2. x = [y EXCEPT !.phase = "terminal", !.outcome = "no-op"]
      BY DEF y
    <2> HIDE DEF x
    <2> QED BY <2>1, <2>2 DEF Intents, Phases, Outcomes
  <1>4. /\ \/ Written([receipt EXCEPT !.operations = Append(@, x)])
           \/ NotWritten([receipt EXCEPT !.operations = Append(@, x)])
        /\ UNCHANGED <<host, boot, dead, worker>> /\ worker = NoWorker
        /\ Pending(receipt) = {}
    BY DEF DeactivateNothing, MutationAdmitted
  <1> HIDE DEF x
  <1>5. [receipt EXCEPT !.operations = Append(@, x)] = new
    <2>1. receipt = Receipt3(receipt.state, receipt.binding, ops)
      BY <1>1, AmendIs
    <2>2. [Receipt3(receipt.state, receipt.binding, ops) EXCEPT !.operations = Append(@, x)]
             = new
      BY AppendedIs
    <2> QED BY <2>1, <2>2
  <1>6. /\ DOMAIN ops = 1..Len(ops) /\ DOMAIN p = 1..n
        /\ n \in Nat \ {0} /\ n \notin DOMAIN ops
        /\ (\A k \in DOMAIN ops : p[k] = ops[k]) /\ p[n] = x
    BY <1>1, <1>3, Appended
  <1> HIDE DEF p
  <1>7. Grows(ops, p, n, x) /\ Reopens(ops, ops)
    BY <1>6 DEF Grows, Reopens, Same, Steady
  <1>8. Admits(ops, p, n, x)
    BY <1>1, <1>7, AdmitsGrown
  <1>9. new.operations = p /\ new.state = receipt.state /\ new.binding = receipt.binding
    BY DEF Receipt3
  <1> HIDE DEF new, n
  <1>10. /\ Synced' => Synced
         /\ faults'.drift = faults.drift
         /\ receipt' = new \/ receipt' = receipt
    <2>1. Written(new) \/ NotWritten(new)
      BY <1>4, <1>5
    <2> QED BY <1>1, <2>1 DEF Written, NotWritten, Faults, Synced
  <1>11. disk' = disk /\ live' = live /\ flight' = flight /\ worker' = worker
    BY <1>4 DEF host
  <1>12. \A k \in DOMAIN ops : ops[k].outcome # "pending" /\ p[k] = ops[k]
    BY <1>4, <1>6 DEF Pending, ops
  <1>13. CASE receipt' = new
    <2>1. ops' = p /\ receipt'.state = receipt.state /\ receipt'.binding = receipt.binding
      BY <1>9, <1>13 DEF ops
    <2>2. Ordered(p)
      BY <1>3, <1>8, <1>12 DEF Ordered, Admits
    <2>3. LeftNothing(p) => LeftNothing(ops)
      BY <1>1, <1>3, <1>8, AdmitsLeft
    <2>4. Calm => CalmAt(p, receipt.state, receipt.binding, disk, live, flight, NoWorker)
      BY <1>1, <1>3, <1>8, <1>12, NothingEnters
    <2> QED BY <1>4, <1>10, <1>11, <2>1, <2>2, <2>3, <2>4, LookBack
  <1>14. CASE receipt' = receipt
    <2>1. ops' = ops
      BY <1>14 DEF ops
    <2>2. Calm => CalmAt(ops', receipt'.state, receipt'.binding, disk', live', flight', worker')
      BY <1>11, <1>14, <2>1 DEF Calm
    <2> QED BY <1>10, <2>1, <2>2, LookBack
  <1> QED BY <1>10, <1>13, <1>14

\* An inspect with nothing to take up finds nothing open that has no plan.
LEMMA LookEnters ==
    ASSUME CalmInv, Undisturbed, Calm, Subjects = {},
           NEW x, NEW p, NEW n, Admits(ops, p, n, x), JournalOK(ops),
           x.of = 0, x.plan = NoPlan, x.outcome = "pending", x.kind = "inspect",
           x.priorState = receipt.state,
           \A k \in DOMAIN ops : p[k].outcome # "pending" /\ p[k] = ops[k],
           NEW w, w.op = n, w.at = "start"
    PROVE  CalmAt(p, receipt.state, receipt.binding, disk, live, flight, w)
  <1>1. /\ \A k \in DOMAIN ops : ops[k].outcome # "pending"
        /\ \A k \in DOMAIN ops : ops[k].outcome = "recovery-required" => ops[k].plan # NoPlan
    BY DEF Subjects, Pending, Unresolved, ops
  <1>2. receipt.state \in Settled \cup {"RECOVERY_REQUIRED"}
    BY <1>1, IdleState
  <1>3. Work(p) = Work(ops) /\ OneLine(p, disk, live)
    BY LineAdmits
  <1>4. DOMAIN p = DOMAIN ops \cup {n} /\ p[n] = x /\ n \notin DOMAIN ops
    BY DEF Admits
  <1>5. PriorsOK(p)
    BY <1>2, <1>4 DEF PriorsOK, Calm, CalmAt
  <1>6. receipt.state # "ACTIVATING" /\ receipt.state # "DEACTIVATING"
    BY <1>2 DEF Settled
  <1>7. StateOK(p, receipt.state, receipt.binding, disk, live)
    BY <1>3, <1>6 DEF StateOK, Calm, CalmAt
  <1>8. \A k \in Work(p) : p[k].outcome # "pending"
    BY <1>1, <1>3 DEF Work
  <1>9. MutationOK(p, receipt.binding, disk, live, w) /\ OwnPatch(p, flight)
    BY <1>8 DEF MutationOK, OwnPatch
  <1>10. \A s \in Returns(p) : s = n
    <2>1. Returns(ops) = {}
      BY <1>1 DEF Returns, Open
    <2> QED BY <2>1, AdmitsWork
  <1>11. ReturnsOK(p, receipt.state, receipt.binding, disk, live)
    <2> SUFFICES ASSUME n \in Returns(p)
                 PROVE  /\ Rests(receipt.state, receipt.binding, disk, live)
                        /\ \A i \in DOMAIN ops : p[i].outcome \notin Open
      BY <1>4, <1>10 DEF ReturnsOK
    <2>1. receipt.state \in Settled
      BY <1>2, <1>4 DEF Returns
    <2>2. Rests(receipt.state, receipt.binding, disk, live) /\ Work(ops) = {}
      BY <2>1 DEF Calm, CalmAt, StateOK
    <2>3. ASSUME NEW i \in DOMAIN ops, ops[i].outcome \in Open PROVE FALSE
      <3>1. ops[i].plan # NoPlan
        BY <1>1, <2>3 DEF Open
      <3>2. ops[i].kind # "inspect"
        BY <3>1 DEF JournalOK, OpOK
      <3> QED BY <2>2, <2>3, <3>2 DEF Work
    <2> QED BY <2>2, <2>3
  <1>12. WorkerKnows(p, receipt.state, receipt.binding, disk, live, w)
    BY <1>4 DEF WorkerKnows
  <1> QED BY <1>3, <1>5, <1>7, <1>9, <1>11, <1>12 DEF CalmAt

\* An inspect that takes up operation i, which waits for it.
LEMMA TakenUp ==
    ASSUME CalmInv, Calm, NEW x, NEW p, NEW n, Admits(ops, p, n, x), JournalOK(ops),
           NEW i \in DOMAIN ops, x.of = i, x.outcome = "pending", x.kind = "inspect",
           x.priorState = "RECOVERY_REQUIRED", p[i].outcome = "recovery-required",
           \A k \in DOMAIN ops : p[k].outcome # "pending",
           NEW w, w.op = n, w.at = "start"
    PROVE  CalmAt(p, "RECOVERY_REQUIRED", receipt.binding, disk, live, flight, w)
  <1>1. Work(p) = Work(ops) /\ OneLine(p, disk, live)
    BY LineAdmits
  <1>2. DOMAIN p = DOMAIN ops \cup {n} /\ p[n] = x /\ n \notin DOMAIN ops
    BY DEF Admits
  <1>3. PriorsOK(p)
    BY <1>2 DEF PriorsOK, Calm, CalmAt, Admits
  <1>4. StateOK(p, "RECOVERY_REQUIRED", receipt.binding, disk, live)
    BY DEF StateOK, Rests, Settled
  <1>5. \A k \in Work(p) : p[k].outcome # "pending"
    BY <1>1 DEF Work
  <1>6. MutationOK(p, receipt.binding, disk, live, w) /\ OwnPatch(p, flight)
    BY <1>5 DEF MutationOK, OwnPatch
  <1>7. ReturnsOK(p, "RECOVERY_REQUIRED", receipt.binding, disk, live)
    <2> SUFFICES ASSUME NEW s \in Returns(p)
                 PROVE  /\ Rests(p[s].priorState, receipt.binding, disk, live)
                        /\ \A k \in DOMAIN p : k # s /\ p[k].outcome \in Open =>
                              p[k].kind = "inspect" /\ p[k].priorState = "RECOVERY_REQUIRED"
      BY DEF ReturnsOK
    <2>1. s \in Returns(ops) /\ s \in DOMAIN ops
      BY AdmitsWork DEF Returns
    <2>2. /\ Rests(ops[s].priorState, receipt.binding, disk, live)
          /\ \A k \in DOMAIN ops : k # s /\ ops[k].outcome \in Open =>
                ops[k].kind = "inspect" /\ ops[k].priorState = "RECOVERY_REQUIRED"
      BY <2>1 DEF Calm, CalmAt, ReturnsOK
    <2> QED BY <1>2, <2>1, <2>2 DEF Admits
  <1>8. WorkerKnows(p, "RECOVERY_REQUIRED", receipt.binding, disk, live, w)
    BY <1>2 DEF WorkerKnows
  <1> QED BY <1>1, <1>3, <1>4, <1>6, <1>7, <1>8 DEF CalmAt

\* A recovery takes up the last of what is open: nothing was left behind, and
\* no patch may still be running.
LEMMA Recovers ==
    ASSUME CalmInv, Undisturbed, Calm, NEW x, NEW p, NEW n, Admits(ops, p, n, x),
           JournalOK(ops), LeftNothing(p),
           NEW i \in DOMAIN ops, ops[i].outcome \in Open, ops[i].plan # NoPlan,
           ~ChainMayBeRunning(i),
           x.of = i, x.outcome = "pending", x.kind \in Recoveries,
           x.plan = ops[i].plan, x.priorState = "RECOVERY_REQUIRED",
           \A k \in DOMAIN ops : p[k].outcome # "pending",
           NEW w, w.op = n, w.at = "start"
    PROVE  CalmAt(p, "RECOVERY_REQUIRED", receipt.binding, disk, live, flight, w)
  <1>1. /\ DOMAIN p = DOMAIN ops \cup {n} /\ p[n] = x /\ n \notin DOMAIN ops /\ n \in Nat
        /\ \A k \in DOMAIN ops : k \in Nat /\ k < n
    BY DEF Admits
  <1>2. i \in Work(ops) /\ i \in Nat /\ i # 0
    BY DEF JournalOK, OpOK, Work
  <1>3. /\ \A k \in DOMAIN ops : Chain(p, k) = Chain(ops, k)
        /\ Chain(p, n) = {n} \cup Chain(ops, i)
    BY <1>2, AdmitsChains
  <1>4. n \in Work(p) /\ \A k \in Work(p) : k = n \/ (k \in Work(ops) /\ k \in DOMAIN ops)
    BY AdmitsWork DEF Recoveries, Open, Work
  <1>5. \A k \in Work(ops) : ops[k].plan = ops[i].plan
    <2> SUFFICES ASSUME NEW k \in Work(ops) PROVE ops[k].plan = ops[i].plan
      OBVIOUS
    <2>1. k \in Nat
      BY <1>1 DEF Work
    <2>2. k < i \/ k = i \/ i < k
      BY <1>2, <2>1
    <2> QED BY <1>2, <2>2 DEF Calm, CalmAt, OneLine
  <1>6. \A k \in Work(ops) : k \in Chain(p, n)
    <2> SUFFICES ASSUME NEW k \in Work(ops), k # i PROVE k \in Chain(p, n)
      BY <1>3, ChainSelf
    <2>1. k \in DOMAIN ops /\ k \in Nat /\ ops[k].outcome \in Open /\ ops[k].kind # "inspect"
      BY <1>1 DEF Work
    <2>2. CASE k < i
      BY <1>2, <1>3, <2>2 DEF Calm, CalmAt, OneLine
    <2>3. CASE i < k
      <3>1. i \in Chain(ops, k)
        BY <1>2, <2>3 DEF Calm, CalmAt, OneLine
      <3>2. ops[k].of # 0
        <4> SUFFICES ASSUME ops[k].of = 0 PROVE FALSE
          OBVIOUS
        <4>1. Chain(ops, k) = {k}
          BY <2>1, ChainStep, OfInside
        <4> QED BY <3>1, <4>1
      <3>3. ops[k].kind \in Recoveries
        BY <2>1, <3>2 DEF JournalOK, OpOK, Intents, Kinds, Mutations, Recoveries
      <3>4. OneChain(p, k, n)
        BY <1>3, <2>1, <3>1, ChainSelf DEF OneChain
      <3>5. p[k].kind \in Recoveries /\ p[k].outcome \in Open /\ p[n].kind \in Recoveries
        BY <1>1, <2>1, <3>3 DEF Admits
      <3> QED BY <1>1, <2>1, <3>4, <3>5 DEF LeftNothing
    <2> QED BY <1>2, <2>1, <2>2, <2>3
  <1>7. PriorsOK(p)
    BY <1>1 DEF PriorsOK, Calm, CalmAt, Admits
  <1>8. OneLine(p, disk, live)
    <2> SUFFICES ASSUME NEW k \in Work(p)
                 PROVE  /\ p[k].plan = ops[i].plan
                        /\ \A j \in Work(p) : k < j => k \in Chain(p, j)
      BY <1>2 DEF Calm, CalmAt, OneLine
    <2>1. p[k].plan = ops[i].plan
      BY <1>1, <1>4, <1>5 DEF Admits
    <2>2. ASSUME NEW j \in Work(p), k < j PROVE k \in Chain(p, j)
      <3>1. k # n
        <4> SUFFICES ASSUME k = n PROVE FALSE
          OBVIOUS
        <4>1. j \in Nat /\ (j = n \/ j < n)
          BY <1>1, <1>4
        <4> QED BY <1>1, <2>2, <4>1
      <3>2. k \in Work(ops)
        BY <1>4, <3>1
      <3>3. CASE j = n
        BY <1>6, <3>2, <3>3
      <3>4. CASE j # n
        <4>1. j \in Work(ops) /\ j \in DOMAIN ops
          BY <1>4, <3>4
        <4>2. k \in Chain(ops, j)
          BY <2>2, <3>2, <4>1 DEF Calm, CalmAt, OneLine
        <4> QED BY <1>3, <4>1, <4>2
      <3> QED BY <3>3, <3>4
    <2> QED BY <2>1, <2>2
  <1>9. StateOK(p, "RECOVERY_REQUIRED", receipt.binding, disk, live)
    BY DEF StateOK, Rests, Settled
  <1>10. \A k \in Work(p) : p[k].outcome = "pending" => k = n
    BY <1>4
  <1>11. flight = {}
    <2> SUFFICES ASSUME NEW f \in flight PROVE FALSE
      OBVIOUS
    <2>1. f \in Work(ops) /\ f \in DOMAIN ops /\ f # n
      BY <1>1, FlightWorks DEF CalmInv
    <2>2. f \in Chain(ops, i)
      BY <1>3, <1>6, <2>1
    <2>3. OneChain(ops, i, f)
      BY <2>1, <2>2, ChainSelf DEF OneChain
    <2>4. ops[f].bootId = boot /\ ops[f].attempt \in SentAttempts
      BY DEF CalmInv, ManagerInv, FlightOK
    <2> QED BY <2>1, <2>3, <2>4 DEF ChainMayBeRunning, SentAttempts
  <1>12. MutationOK(p, receipt.binding, disk, live, w) /\ OwnPatch(p, flight)
    BY <1>1, <1>10, <1>11 DEF MutationOK, OwnPatch, Mutations, Recoveries
  <1>13. ReturnsOK(p, "RECOVERY_REQUIRED", receipt.binding, disk, live)
    <2>1. \A s \in Returns(p) : s \in Returns(ops)
      BY AdmitsWork
    <2>2. \A s \in Returns(ops) : s = i
      BY <1>2, NoOtherReturns DEF Calm, CalmAt
    <2>3. Returns(p) = {}
      BY <2>1, <2>2 DEF Returns
    <2> QED BY <2>3 DEF ReturnsOK
  <1>14. WorkerKnows(p, "RECOVERY_REQUIRED", receipt.binding, disk, live, w)
    BY <1>1 DEF WorkerKnows, Recoveries
  <1> QED BY <1>7, <1>8, <1>9, <1>12, <1>13, <1>14 DEF CalmAt

\* An accepted inspect or recovery of operation i.
LEMMA TakeUpCalm ==
    ASSUME CalmInv, worker = NoWorker, NEW i \in DOMAIN ops,
           ops[i].outcome \in Open, NEW kind \in Kinds, NEW plan \in Plans,
           \/ kind = "inspect" /\ plan = NoPlan
           \/ /\ kind \in Recoveries /\ plan = ops[i].plan /\ plan # NoPlan
              /\ ~ChainMayBeRunning(i),
           Accept([receipt EXCEPT !.state = "RECOVERY_REQUIRED",
                                  !.operations[i].outcome = "recovery-required"],
                  Intent(kind, i, plan, "RECOVERY_REQUIRED"), FALSE)
    PROVE  CalmNext
  <1> DEFINE x == Intent(kind, i, plan, "RECOVERY_REQUIRED")
             o == Edit(ops, i, Opened(i))
  <1>1. receipt \in Receipts /\ ops \in Seq(Intents) /\ i \in Nat /\ JournalOK(ops)
           /\ ManagerInv
    BY DEF CalmInv, ManagerInv, Plain, Receipts, ops
  <1>2. /\ x \in Intents /\ x.kind = kind /\ x.of = i /\ x.plan = plan
        /\ x.outcome = "pending" /\ x.priorState = "RECOVERY_REQUIRED"
    <2>1. "RECOVERY_REQUIRED" \in States
      BY DEF States
    <2> QED BY <1>1, <2>1, IntentIs DEF Intent
  <1>3. [receipt EXCEPT !.state = "RECOVERY_REQUIRED",
                        !.operations[i].outcome = "recovery-required"]
           = Receipt3("RECOVERY_REQUIRED", receipt.binding, o)
    BY <1>1, ReopenedIs DEF Opened, ops
  <1>4. Accept(Receipt3("RECOVERY_REQUIRED", receipt.binding, o), x, FALSE)
    BY <1>3
  <1> HIDE DEF x
  <1>5. /\ o \in Seq(Intents) /\ Amends(ops, o, i) /\ o[i] = Opened(i)
        /\ Opened(i).outcome = "recovery-required" /\ DOMAIN o = DOMAIN ops
    BY <1>1, OpenedIs
  <1>6. /\ Opened(i).kind = ops[i].kind /\ Opened(i).of = ops[i].of
        /\ Opened(i).plan = ops[i].plan /\ Opened(i).priorState = ops[i].priorState
    BY <1>1 DEF Opened, JournalOK, OpOK, Intents
  <1> HIDE DEF o
  <1>7. Reopens(ops, o)
    BY <1>5, <1>6 DEF Reopens, Same, Steady, Amends, Open
  <1>8. ASSUME NEW p, NEW n, NEW w, Synced, Undisturbed, Calm,
               Admits(ops, p, n, x), LeftNothing(p),
               \A k \in DOMAIN ops : p[k].outcome # "pending",
               \A k \in DOMAIN ops : p[k] = o[k],
               w # NoWorker, w.op = n, w.at = "start"
        PROVE  CalmAt(p, "RECOVERY_REQUIRED", receipt.binding, disk, live, flight, w)
    <2>1. p[i].outcome = "recovery-required"
      BY <1>5, <1>8
    <2>2. CASE kind = "inspect"
      BY <1>1, <1>2, <1>8, <2>1, <2>2, TakenUp
    <2>3. CASE kind \in Recoveries /\ plan = ops[i].plan /\ plan # NoPlan
                  /\ ~ChainMayBeRunning(i)
      BY <1>1, <1>2, <1>8, <2>3, Recovers
    <2> QED BY <2>2, <2>3
  <1> QED BY <1>1, <1>2, <1>4, <1>5, <1>7, <1>8, Entered

\* An accepted recovery.
LEMMA ReconcileCalm ==
    ASSUME CalmInv, NEW i \in DOMAIN ops, NEW action \in Recoveries,
           Reconcile(i, action)
    PROVE  CalmNext
  <1>1. ops[i].plan \in Plans
    BY DEF CalmInv, ManagerInv, JournalOK, OpOK, Intents
  <1>2. action \in Kinds
    BY DEF Kinds, Recoveries
  <1> QED BY <1>1, <1>2, TakeUpCalm DEF Reconcile, ReconcileAdmitted, Open

\* An accepted inspect, with or without a subject.
LEMMA InspectCalm ==
    ASSUME CalmInv, Inspect
    PROVE  CalmNext
  <1>1. receipt \in Receipts /\ receipt.state \in States /\ ops \in Seq(Intents)
           /\ worker = NoWorker /\ JournalOK(ops) /\ ManagerInv
    BY DEF CalmInv, ManagerInv, Plain, Receipts, ops, Inspect, ReconcileAdmitted
  <1>2. "inspect" \in Kinds
    BY DEF Kinds
  <1>3. CASE Subjects = {}
    <2> DEFINE x == Intent("inspect", 0, NoPlan, receipt.state)
    <2>1. Accept(receipt, x, FALSE)
      BY <1>3 DEF Inspect
    <2>2. receipt = Receipt3(receipt.state, receipt.binding, ops)
      BY <1>1, AmendIs
    <2>3. /\ x \in Intents /\ x.kind = "inspect" /\ x.of = 0 /\ x.plan = NoPlan
          /\ x.outcome = "pending" /\ x.priorState = receipt.state
      BY <1>1, <1>2, NoPlanIsPlan, IntentIs DEF Intent
    <2> HIDE DEF x
    <2>4. Accept(Receipt3(receipt.state, receipt.binding, ops), x, FALSE)
      BY <2>1, <2>2
    <2>5. Reopens(ops, ops)
      BY DEF Reopens, Same, Steady
    <2>6. \A p, n, w : /\ Synced /\ Undisturbed /\ Calm
                       /\ Admits(ops, p, n, x) /\ LeftNothing(p)
                       /\ \A k \in DOMAIN ops : p[k].outcome # "pending"
                       /\ \A k \in DOMAIN ops : p[k] = ops[k]
                       /\ w # NoWorker /\ w.op = n /\ w.at = "start"
                 => CalmAt(p, receipt.state, receipt.binding, disk, live, flight, w)
      BY <1>1, <1>3, <2>3, LookEnters
    <2> QED BY <1>1, <2>3, <2>4, <2>5, <2>6, Entered
  <1>4. CASE Subjects # {}
    <2>1. PICK i \in Subjects :
             Accept([receipt EXCEPT !.state = "RECOVERY_REQUIRED",
                                    !.operations[i].outcome = "recovery-required"],
                    Intent("inspect", i, NoPlan, "RECOVERY_REQUIRED"), FALSE)
      BY <1>4 DEF Inspect
    <2>2. i \in DOMAIN ops /\ ops[i].outcome \in Open
      BY DEF Subjects, Pending, Unresolved, ops, Open
    <2> QED BY <1>1, <1>2, <2>1, <2>2, NoPlanIsPlan, TakeUpCalm
  <1> QED BY <1>3, <1>4

-----------------------------------------------------------------------------
(* Settled states: the theorems *)

\* An empty receipt is settled.
LEMMA InitCalm == Init => CalmInv
  <1> SUFFICES ASSUME Init PROVE CalmInv
    OBVIOUS
  <1>1. /\ receipt = EmptyReceipt /\ ops = <<>> /\ DOMAIN ops = {}
        /\ receipt.state = "INACTIVE" /\ receipt.binding = Absent
        /\ live = disk /\ flight = {} /\ worker = NoWorker
    BY DEF Init, EmptyReceipt, ops
  <1>2. Ordered(ops) /\ Work(ops) = {} /\ Returns(ops) = {} /\ PriorsOK(ops)
    BY <1>1 DEF Ordered, Work, Returns, PriorsOK
  <1>3. receipt.state \in Settled /\ Rests(receipt.state, receipt.binding, disk, live)
    BY <1>1 DEF Settled, Rests
  <1>4. WorkerKnows(ops, receipt.state, receipt.binding, disk, live, worker)
    BY <1>1 DEF WorkerKnows
  <1>5. Calm
    BY <1>2, <1>3, <1>4, AtRest DEF Calm
  <1> QED BY <1>2, <1>5, InitOK DEF CalmInv

\* Every step of a worker.
LEMMA WorkerStepCalm ==
    ASSUME CalmInv, WorkerStep
    PROVE  CalmNext
  BY CheckFailsCalm, RecordFailureCalm, DispatchThrewCalm, PatchReturnedCalm,
     PatchRejectedCalm, MarkUnknownCalm, SettleCalm, PrepareCalm, ReadRawCalm, PlanCalm,
     RecheckCalm, VerifyCalm, CommitCalm, ReadForRecoveryCalm, ClassifyCalm,
     RedispatchCalm, VerifyRecoveredCalm, FinalizeCalm, ReadForInspectCalm,
     InspectConflictCalm, InspectNoteCalm, InspectSubjectCalm, InspectCloseCalm,
     InspectRefreshCalm, InspectVerdictCalm
  DEF WorkerStep

\* Every step.
LEMMA NextCalm == CalmInv /\ [Next]_vars => CalmInv'
  <1> SUFFICES ASSUME CalmInv, [Next]_vars PROVE CalmInv'
    OBVIOUS
  <1>1. ManagerInv'
    BY NextOK DEF CalmInv
  <1>2. CASE Request
    BY <1>1, <1>2, ActivateCalm, DeactivateCalm, DeactivateNothingCalm, InspectCalm,
       ReconcileCalm DEF Request, CalmInv, CalmNext
  <1>3. CASE WorkerStep
    BY <1>1, <1>3, WorkerStepCalm DEF CalmInv, CalmNext
  <1>4. ASSUME NEW i \in flight, HostPatch(i) PROVE CalmInv'
    BY <1>1, <1>4, HostPatchCalm DEF CalmInv, CalmNext
  <1>5. CASE Restart
    BY <1>1, <1>5, RestartCalm DEF CalmInv, CalmNext
  <1>6. CASE Drift
    BY <1>1, <1>6, DriftCalm DEF CalmInv, CalmNext
  <1>7. CASE UNCHANGED vars
    <2>1. ops' = ops /\ (Synced' <=> Synced) /\ faults' = faults /\ receipt' = receipt
             /\ disk' = disk /\ live' = live /\ flight' = flight /\ worker' = worker
      BY <1>7 DEF vars, ops, Synced
    <2>2. Calm => CalmAt(ops', receipt'.state, receipt'.binding, disk', live', flight', worker')
      BY <2>1 DEF Calm
    <2>3. CalmNext
      BY <2>1, <2>2, LookBack
    <2> QED BY <1>1, <2>3 DEF CalmInv, CalmNext
  <1> QED BY <1>2, <1>3, <1>4, <1>5, <1>6, <1>7 DEF Next

\* The inductive invariant of an undisturbed manager: all that is open is one
\* line of recoveries at or between the endpoints of one plan, what is under
\* way started from the binding, and what its worker read is still so.
THEOREM CalmInvariant == Spec => []CalmInv
  BY InitCalm, NextCalm, PTL DEF Spec

\* Nothing that matters to the config is open in a settled state.
LEMMA SettledSays == CalmInv => SettledMatchesConfig
  <1> SUFFICES ASSUME CalmInv, Undisturbed PROVE SettledMatchesConfig
    BY DEF SettledMatchesConfig
  <1>1. StateOK(ops, receipt.state, receipt.binding, disk, live)
    BY DEF CalmInv, Calm, CalmAt
  <1>2. receipt.state \in Settled => flight = {}
    BY <1>1, FlightWorks DEF CalmInv, StateOK
  <1>3. StatusState \in {"ACTIVE", "INACTIVE"} => receipt.state \in Settled
    BY DEF StatusState, Settled
  <1> QED BY <1>1, <1>2, <1>3 DEF SettledMatchesConfig, StateOK, Rests

\* A binding handed out is what the daemon runs with, or what a pending
\* activation started from.
LEMMA InjectionSays == CalmInv => InjectionIsCurrent
  <1> SUFFICES ASSUME CalmInv, Undisturbed, InjectionBinding # Absent
               PROVE  \/ live = InjectionBinding
                      \/ \E i \in Pending(receipt) :
                            /\ ops[i].kind = "activate"
                            /\ ops[i].plan.previousBinding = InjectionBinding
                            /\ live \in {ops[i].plan.before, ops[i].plan.after}
    BY DEF InjectionIsCurrent
  <1>1. CalmAt(ops, receipt.state, receipt.binding, disk, live, flight, worker)
    BY DEF CalmInv, Calm
  <1>2. InjectionBinding = receipt.binding /\ receipt.state \in {"ACTIVE", "ACTIVATING"}
    BY DEF InjectionBinding
  <1>3. CASE receipt.state = "ACTIVE"
    BY <1>1, <1>2, <1>3 DEF CalmAt, StateOK, Rests
  <1>4. CASE receipt.state = "ACTIVATING"
    <2>1. PICK i \in DOMAIN ops : ops[i].outcome = "pending" /\ ops[i].kind = "activate"
      BY <1>1, <1>4 DEF CalmAt, StateOK
    <2>2. i \in Work(ops) /\ i \in Pending(receipt) /\ ops[i].kind \in Mutations
      BY <2>1 DEF Work, Open, Pending, ops, Mutations
    <2>3. CASE ops[i].plan = NoPlan
      <3>1. ops[i].priorState = "RECOVERY_REQUIRED" => receipt.binding = Absent
        BY <1>1, <2>1, <2>2, <2>3 DEF CalmAt, MutationOK
      <3>2. i \in Returns(ops)
        BY <1>2, <2>1, <2>3, <3>1 DEF Returns, Open
      <3>3. Rests(ops[i].priorState, receipt.binding, disk, live)
              /\ ops[i].priorState \in Settled
        BY <1>1, <1>2, <2>1, <3>1, <3>2 DEF CalmAt, ReturnsOK, PriorsOK
      <3> QED BY <1>2, <3>3 DEF Rests, Settled
    <2>4. CASE ops[i].plan # NoPlan
      <3>1. receipt.binding = ops[i].plan.previousBinding
        BY <1>1, <2>1, <2>2, <2>4 DEF CalmAt, MutationOK
      <3>2. live \in {ops[i].plan.before, ops[i].plan.after}
        BY <1>1, <2>2, <2>4 DEF CalmAt, OneLine
      <3> QED BY <1>2, <2>1, <2>2, <3>1, <3>2
    <2> QED BY <2>3, <2>4
  <1> QED BY <1>2, <1>3, <1>4

\* As long as the manager has the config to itself, a settled receipt tells
\* the truth about file and daemon, and no patch is still to land (manager.ts,
\* journal.ts): whatever is crashed, lost, refused or recovered before.
THEOREM SettledIsTrue == Spec => []SettledMatchesConfig
  BY SettledSays, CalmInvariant, PTL

\* As long as it has, a new managed seat is given the binding the daemon runs
\* with, or the one a pending activation replaces (readInjectionBinding).
THEOREM InjectionStaysCurrent == Spec => []InjectionIsCurrent
  BY InjectionSays, CalmInvariant, PTL

-----------------------------------------------------------------------------
(* The screen *)

ScreenOp == Operations \cup {Unset}
View == [busy : BOOLEAN,
         pending : [op : Operations, uncertain : BOOLEAN, retry : BOOLEAN] \cup {Unset},
         status : [pending : BOOLEAN, visit : BOOLEAN]]
Read == [at : Targets, op : ScreenOp, kind : {"user", "poll", "apply"}, live : BOOLEAN,
         last : BOOLEAN, answer : {"absent", "pending", "done", Unset}]
Run == [op : Operations, live : BOOLEAN, reply : Reply \cup {Unset}]

\* The part of the state that the argument is about, and its types.
ScreenTypeOK ==
    /\ shown \in Targets
    /\ store \in [Targets -> View]
    /\ view \in View
    /\ requests \in [Targets -> ScreenOp]
    /\ homeOf \in [Operations -> Targets \cup {Unset}]
    /\ journal \in [Operations -> {"absent", "pending", "done"}]
    /\ runs \subseteq Run
    /\ reads \subseteq Read
    /\ fresh \in BOOLEAN
    /\ applying \in {Unset, "saving", "reading"}
    /\ visits \in Nat
    /\ late \subseteq Operations
    /\ deadBoot \subseteq Operations
    /\ answered \subseteq Operations

\* An unresolved start is of an operation made for that target.
RequestsAtHome == \A t \in Targets : requests[t] # Unset => homeOf[requests[t]] = t

\* What the screen was not told the fate of is what its target waits for.
UntoldIsRequested ==
    \A o \in Operations : homeOf[o] # Unset /\ o \notin answered => requests[homeOf[o]] = o

\* Only invocations and reads of the visit in progress are live.
LiveIsShown ==
    /\ \A i \in runs : homeOf[i.op] # Unset /\ (i.live => homeOf[i.op] = shown)
    /\ \A r \in reads : r.live => r.at = shown

FreshIsOfVisit == fresh => store[shown].status.visit

ScreenInv == /\ ScreenTypeOK /\ RequestsAtHome /\ UntoldIsRequested
             /\ LiveIsShown /\ FreshIsOfVisit

-----------------------------------------------------------------------------
(* The operators *)

\* Marking a read as superseded, of an earlier visit, or answered.
LEMMA ReadEdits ==
    ASSUME NEW r \in Read
    PROVE  /\ [r EXCEPT !.last = FALSE] \in Read
           /\ [r EXCEPT !.last = FALSE].at = r.at /\ [r EXCEPT !.last = FALSE].live = r.live
           /\ [r EXCEPT !.live = FALSE] \in Read /\ ~[r EXCEPT !.live = FALSE].live
           /\ \A x \in {"absent", "pending", "done"} :
                 /\ [r EXCEPT !.answer = x] \in Read
                 /\ [r EXCEPT !.answer = x].at = r.at /\ [r EXCEPT !.answer = x].live = r.live
  BY DEF Read

(***************************************************************************)
(* refresh: when the live ones of some reads are of the target t, so they  *)
(* are after a read of t was issued.                                       *)
(***************************************************************************)
LEMMA IssuedReads ==
    ASSUME NEW R \in SUBSET Read, NEW t \in Targets, NEW o \in ScreenOp,
           NEW kind \in {"user", "poll", "apply"},
           \A q \in R : q.live => q.at = t
    PROVE  /\ Issued(R, t, o, kind) \subseteq Read
           /\ \A r \in Issued(R, t, o, kind) : r.live => r.at = t
  <1> DEFINE new == [at |-> t, op |-> o, kind |-> kind, live |-> TRUE,
                     last |-> TRUE, answer |-> Unset]
  <1>1. new \in Read /\ new.at = t
        BY DEF Read
  <1>2. ASSUME NEW r \in Issued(R, t, o, kind)
        PROVE  r = new \/ \E q \in R : r = [q EXCEPT !.last = FALSE]
        BY DEF Issued
  <1>3. ASSUME NEW r \in Issued(R, t, o, kind)
        PROVE  r \in Read /\ (r.live => r.at = t)
    <2>1. CASE r = new
          BY <2>1, <1>1
    <2>2. ASSUME NEW q \in R, r = [q EXCEPT !.last = FALSE]
          PROVE  r \in Read /\ (r.live => r.at = t)
          BY <2>2, ReadEdits
    <2> QED BY <1>2, <2>1, <2>2
  <1> QED BY <1>3

\* The views that the screen computes are views.
LEMMA ViewsTyped ==
    ASSUME NEW v \in View, NEW o \in Operations
    PROVE  /\ Starting(v, o) \in View /\ Starting(v, o).status = v.status
           /\ PendingOp(v) \in ScreenOp
  BY DEF Starting, Tracked, View, PendingOp, ScreenOp

LEMMA ObservedTyped ==
    ASSUME NEW v \in View, NEW r \in Read
    PROVE  Observed(v, r) \in View /\ Observed(v, r).status.visit = r.live
  <1> DEFINE status == [pending |-> r.answer = "pending", visit |-> r.live]
             exact == r.op # Unset /\ v.pending # Unset /\ v.pending.op = r.op
  <1>1. CASE exact /\ r.answer = "done"
        BY <1>1 DEF Observed, View, Read
  <1>2. CASE exact /\ r.answer # "done" /\ v.pending.uncertain
        BY <1>2 DEF Observed, View, Read
  <1>3. CASE ~(exact /\ r.answer = "done") /\ ~(exact /\ r.answer # "done" /\ v.pending.uncertain)
        BY <1>3 DEF Observed, View, Read
  <1> QED BY <1>1, <1>2, <1>3

LEMMA RepliesTyped ==
    ASSUME NEW v \in View, NEW i \in Run
    PROVE  /\ Replied(v, i) \in View /\ Replied(v, i).status = v.status
           /\ Unconfirmed(v, i) \in View /\ Unconfirmed(v, i).status = v.status
  BY DEF Replied, Unconfirmed, Tracked, View, Run

-----------------------------------------------------------------------------
(* The initial state *)

LEMMA InitInv == ScreenInit => ScreenInv
  <1> SUFFICES ASSUME ScreenInit PROVE ScreenInv
      OBVIOUS
  <1> DEFINE first == [at |-> First, op |-> Unset, kind |-> "user", live |-> TRUE,
                       last |-> TRUE, answer |-> Unset]
  <1>0. first \in Read
        BY ScreenAssumption DEF Read, ScreenOp
  <1>1. reads = {first}
        BY DEF Issued, ScreenInit
  <1>2. EmptyView \in View
        BY DEF EmptyView, NoStatus, View
  <1> USE ScreenAssumption DEF ScreenInit
  <1>3. ScreenTypeOK
        BY <1>0, <1>1, <1>2 DEF ScreenTypeOK, ScreenOp
  <1>4. RequestsAtHome /\ UntoldIsRequested /\ LiveIsShown /\ FreshIsOfVisit
        BY <1>1 DEF RequestsAtHome, UntoldIsRequested, LiveIsShown, FreshIsOfVisit
  <1> QED BY <1>3, <1>4 DEF ScreenInv
-----------------------------------------------------------------------------
(* Steps *)

(***************************************************************************)
(* Reads are issued for the target on screen, so what is live stays of the *)
(* visit; a read that is dropped takes nothing with it.                    *)
(***************************************************************************)
LEMMA ReadSteps ==
    ASSUME ScreenInv,
           Reload \/ PollTick \/ SaveAndApply \/ \E r \in reads : StatusRead(r) \/ StatusDropped(r)
    PROVE  ScreenInv'
  <1> USE DEF ScreenInv, ScreenTypeOK, RequestsAtHome, UntoldIsRequested, LiveIsShown,
              FreshIsOfVisit, managerVars, wireVars, clientVars, Update, Patched
  <1>0. PendingOp(view) \in ScreenOp
        BY ViewsTyped DEF PendingOp, View, ScreenOp
  <1>1. CASE Reload
    <2>1. reads' = Issued(reads, shown, PendingOp(view), "user")
          BY <1>1 DEF Reload
    <2>2. reads' \subseteq Read /\ \A r \in reads' : r.live => r.at = shown
          BY <1>0, <2>1, IssuedReads
    <2> QED BY <1>1, <2>2 DEF Reload
  <1>2. CASE PollTick
    <2>1. view.pending.op \in ScreenOp /\ reads' = Issued(reads, shown, view.pending.op, "poll")
          BY <1>2 DEF PollTick, View, ScreenOp
    <2>2. reads' \subseteq Read /\ \A r \in reads' : r.live => r.at = shown
          BY <2>1, IssuedReads
    <2> QED BY <2>2, <1>2 DEF PollTick
  <1>3. CASE SaveAndApply
        BY <1>3 DEF SaveAndApply
  <1>4. ASSUME NEW r \in reads, StatusRead(r) PROVE ScreenInv'
    <2>1. StatusOf(r) \in {"absent", "pending", "done"}
          BY DEF StatusOf, Read, ScreenOp
    <2>2. /\ [r EXCEPT !.answer = StatusOf(r)] \in Read
          /\ [r EXCEPT !.answer = StatusOf(r)].at = r.at
          /\ [r EXCEPT !.answer = StatusOf(r)].live = r.live
          BY <2>1, ReadEdits
    <2>3. reads' \subseteq Read /\ \A q \in reads' : q.live => q.at = shown
          BY <1>4, <2>2 DEF StatusRead
    <2> QED BY <1>4, <2>3 DEF StatusRead
  <1>5. ASSUME NEW r \in reads, StatusDropped(r) PROVE ScreenInv'
        BY <1>5 DEF StatusDropped
  <1> QED BY <1>1, <1>2, <1>3, <1>4, <1>5

(***************************************************************************)
(* Switch: a new visit makes every invocation and read of the old one      *)
(* stale, and nothing on screen is fresh.                                  *)
(***************************************************************************)
LEMMA SwitchStep ==
    ASSUME ScreenInv, NEW t \in Targets, Switch(t)
    PROVE  ScreenInv'
  <1> USE DEF ScreenInv, ScreenTypeOK, RequestsAtHome, UntoldIsRequested, LiveIsShown,
              FreshIsOfVisit, managerVars, Switch
  <1> DEFINE old == {[r EXCEPT !.live = FALSE] : r \in reads}
  <1>1. old \subseteq Read /\ \A r \in old : ~r.live
    <2>1. ASSUME NEW x \in old PROVE x \in Read /\ ~x.live
      <3>1. PICK r \in reads : x = [r EXCEPT !.live = FALSE]
            OBVIOUS
      <3> QED BY <3>1, ReadEdits
    <2> QED BY <2>1
  <1>2. reads' \subseteq Read /\ \A r \in reads' : r.live => r.at = shown'
    <2>1. PendingOp(store[t]) \in ScreenOp
          BY DEF PendingOp, View, ScreenOp
    <2>2. reads' = Issued(old, t, PendingOp(store[t]), "user") /\ shown' = t
          OBVIOUS
    <2> HIDE DEF old
    <2> QED BY <1>1, <2>1, <2>2, IssuedReads
  <1>3. runs' \subseteq Run /\ \A i \in runs' : ~i.live /\ \E j \in runs : i.op = j.op
    <2>1. ASSUME NEW i \in runs' PROVE i \in Run /\ ~i.live /\ \E j \in runs : i.op = j.op
      <3>1. PICK j \in runs : i = [j EXCEPT !.live = FALSE]
            OBVIOUS
      <3> QED BY <3>1 DEF Run
    <2> QED BY <2>1
  <1>4. store' \in [Targets -> View]
    <2>1. \A v \in View : [v EXCEPT !.status.visit = FALSE] \in View
          BY DEF View
    <2> QED BY <2>1
  <1>5. UNCHANGED <<requests, answered, late, homeOf, journal, deadBoot>>
        /\ shown' = t /\ fresh' = FALSE /\ view' = store[t]
        OBVIOUS
  <1>6. visits' \in Nat /\ applying' = Unset
        OBVIOUS
  <1> HIDE DEF Switch, managerVars
  <1>7. ScreenTypeOK'
        BY <1>2, <1>3, <1>4, <1>5, <1>6
  <1>8. LiveIsShown'
        BY <1>2, <1>3, <1>5
  <1> QED BY <1>5, <1>7, <1>8

(***************************************************************************)
(* runOperation: the id that is made is the one its target waits for, and  *)
(* the target was waiting for none.                                        *)
(***************************************************************************)
LEMMA StartSteps ==
    ASSUME ScreenInv, RetryOriginal \/ \E o \in Operations : StartOperation(o)
    PROVE  ScreenInv'
  <1> USE ScreenAssumption DEF ScreenInv, ScreenTypeOK, RequestsAtHome, UntoldIsRequested,
          LiveIsShown, FreshIsOfVisit, managerVars, Update, Patched, ScreenOp
  <1>1. ASSUME NEW o \in Operations, StartOperation(o) PROVE ScreenInv'
    <2>1. Sent(o) \in Run /\ Sent(o).op = o
          BY DEF Sent, Run
    <2>2. Starting(store[shown], o) \in View /\ Starting(store[shown], o).status = store[shown].status
          BY ViewsTyped
    <2>3. homeOf[o] = Unset /\ requests[shown] = Unset
          BY <1>1 DEF StartOperation, NewOperation, Startable
    <2> QED BY <1>1, <2>1, <2>2, <2>3 DEF StartOperation
  <1>2. CASE RetryOriginal
    <2> DEFINE o == view.pending.op
    <2>1. o \in Operations /\ requests[shown] = o
          BY <1>2 DEF RetryOriginal, View
    <2>2. Sent(o) \in Run /\ Sent(o).op = o
          BY <2>1 DEF Sent, Run
    <2>3. Starting(store[shown], o) \in View /\ Starting(store[shown], o).status = store[shown].status
          BY <2>1, ViewsTyped
    <2> HIDE DEF o
    <2>4. /\ runs' = runs \cup {Sent(o)}
          /\ store' = [store EXCEPT ![shown] = Starting(store[shown], o)]
          /\ view' = Starting(store[shown], o)
          /\ UNCHANGED <<shown, visits, fresh, requests, applying, answered, late, reads, managerVars>>
          BY <1>2 DEF RetryOriginal, o
    <2> QED BY <2>1, <2>2, <2>3, <2>4
  <1> QED BY <1>1, <1>2

(***************************************************************************)
(* saveAndApplyProfiles: the status that a save waits for is read for the  *)
(* target on screen.                                                       *)
(***************************************************************************)
LEMMA SavedStep ==
    ASSUME ScreenInv, NEW ok \in BOOLEAN, ProfilesSaved(ok)
    PROVE  ScreenInv'
  <1> USE DEF ScreenInv, ScreenTypeOK, RequestsAtHome, UntoldIsRequested, LiveIsShown,
              FreshIsOfVisit, managerVars, Update, Patched, ScreenOp
  <1>1. CASE ok
    <2>1. reads' = Issued(reads, shown, Unset, "apply")
          BY <1>1 DEF ProfilesSaved
    <2>2. reads' \subseteq Read /\ \A r \in reads' : r.live => r.at = shown
          BY <2>1, IssuedReads
    <2>3. /\ store' = [store EXCEPT ![shown] = store[shown]] /\ view' = store[shown]
          /\ applying' = "reading" /\ fresh' = FALSE
          /\ UNCHANGED <<shown, visits, requests, answered, runs, late, homeOf, journal, deadBoot>>
          BY <1>1 DEF ProfilesSaved
    <2> QED BY <2>2, <2>3
  <1>2. CASE ~ok
        BY <1>2 DEF ProfilesSaved
  <1> QED BY <1>1, <1>2

(***************************************************************************)
(* A status that is painted: it retires only a request whose fate it       *)
(* tells, and an operation it starts is the only one its target waits for. *)
(***************************************************************************)
LEMMA ArrivesStep ==
    ASSUME ScreenInv, NEW r \in reads, StatusArrives(r)
    PROVE  ScreenInv'
  <1> USE ScreenAssumption DEF ScreenInv, ScreenTypeOK
  <1> DEFINE t == r.at
             v == Observed(store[t], r)
  <1>1. r \in Read /\ t = shown /\ t \in Targets /\ r.live /\ r.op \in ScreenOp
        BY DEF StatusArrives, Current, LiveIsShown, Read
  <1>2. v \in View /\ v.status.visit
        BY <1>1, ObservedTyped
  <1> HIDE DEF v
  <1>3. /\ reads' = reads \ {r} /\ applying' \in {Unset, applying} /\ fresh' = TRUE
        /\ answered' = IF r.op # Unset /\ r.answer = "done" THEN answered \cup {r.op} ELSE answered
        /\ UNCHANGED <<shown, visits, late, journal, deadBoot>>
        BY DEF StatusArrives
  <1>4. answered' \subseteq Operations /\ answered \subseteq answered'
        BY <1>1, <1>3 DEF ScreenOp
  <1>5. CASE /\ Update(t, v)
             /\ requests' = IF Retires(r) THEN [requests EXCEPT ![t] = Unset] ELSE requests
             /\ UNCHANGED <<runs, homeOf>>
    <2>1. store' = [store EXCEPT ![t] = v] /\ view' = v
          BY <1>1, <1>5 DEF Update, Patched
    <2>2. requests' \in [Targets -> ScreenOp]
          BY <1>1, <1>5 DEF ScreenOp
    <2>3. ScreenTypeOK'
          BY <1>1, <1>2, <1>3, <1>4, <1>5, <2>1, <2>2
    <2>4. RequestsAtHome'
          BY <1>1, <1>5 DEF RequestsAtHome, ScreenOp
    <2>5. UntoldIsRequested'
          BY <1>1, <1>3, <1>4, <1>5 DEF UntoldIsRequested, Retires, ScreenOp
    <2>6. LiveIsShown' /\ FreshIsOfVisit'
          BY <1>1, <1>2, <1>3, <1>5, <2>1 DEF LiveIsShown, FreshIsOfVisit
    <2> QED BY <2>3, <2>4, <2>5, <2>6
  <1>6. ASSUME NEW o \in Operations, NewOperation(o), Startable(t, store[t]),
               requests' = [requests EXCEPT ![t] = o], Update(t, Starting(v, o)),
               homeOf' = [homeOf EXCEPT ![o] = t], runs' = runs \cup {Sent(o)}
        PROVE  ScreenInv'
    <2>0. Starting(v, o) \in View /\ Starting(v, o).status = v.status
          BY <1>2, ViewsTyped
    <2>1. store' = [store EXCEPT ![t] = Starting(v, o)] /\ view' = Starting(v, o)
          BY <1>1, <1>6 DEF Update, Patched
    <2>2. Sent(o) \in Run /\ Sent(o).op = o
          BY DEF Sent, Run
    <2>3. homeOf[o] = Unset /\ requests[t] = Unset
          BY <1>6 DEF NewOperation, Startable
    <2>4. ScreenTypeOK'
          BY <1>1, <1>3, <1>4, <1>6, <2>0, <2>1, <2>2 DEF ScreenOp
    <2>5. RequestsAtHome'
          BY <1>1, <1>6, <2>3 DEF RequestsAtHome, ScreenOp
    <2>6. UntoldIsRequested'
          BY <1>1, <1>3, <1>4, <1>6, <2>3 DEF UntoldIsRequested, ScreenOp
    <2>7. LiveIsShown'
          BY <1>1, <1>3, <1>6, <2>2, <2>3 DEF LiveIsShown, Run
    <2>8. FreshIsOfVisit'
          BY <1>1, <1>2, <1>3, <2>0, <2>1 DEF FreshIsOfVisit
    <2> QED BY <2>4, <2>5, <2>6, <2>7, <2>8
  <1> QED BY <1>5, <1>6 DEF StatusArrives, v

(***************************************************************************)
(* The reply of a start tells the fate of its operation; without one the   *)
(* operation stays requested.                                              *)
(***************************************************************************)
LEMMA RunSteps ==
    ASSUME ScreenInv, NEW i \in runs, StartReplies(i) \/ StartFails(i)
    PROVE  ScreenInv'
  <1> USE ScreenAssumption DEF ScreenInv, ScreenTypeOK
  <1> DEFINE t == homeOf[i.op]
  <1>1. i \in Run /\ i.op \in Operations /\ t \in Targets /\ (i.live => t = shown)
        BY DEF LiveIsShown, Run
  <1>2. runs' = runs \ {i} /\ UNCHANGED <<shown, visits, applying, homeOf, journal, deadBoot>>
        BY DEF StartReplies, StartFails, managerVars
  <1>3. late' \subseteq Operations
        BY <1>1 DEF StartReplies, StartFails, Abandoned
  <1>4. CASE ~StillAsked(i)
    <2>1. UNCHANGED <<store, view, fresh, requests, answered, reads>>
          BY <1>4 DEF StartReplies, StartFails
    <2> QED BY <1>2, <1>3, <2>1 DEF RequestsAtHome, UntoldIsRequested, LiveIsShown, FreshIsOfVisit
  <1>5. CASE StillAsked(i) /\ StartReplies(i)
    <2> DEFINE v == Replied(store[t], i)
    <2>1. v \in View /\ v.status = store[t].status
          BY <1>1, RepliesTyped
    <2> HIDE DEF v
    <2>2. /\ requests' = [requests EXCEPT ![t] = Unset] /\ answered' = answered \cup {i.op}
          /\ store' = [store EXCEPT ![t] = v] /\ view' \in {view, v}
          /\ fresh' \in {FALSE, fresh} /\ (i.live => fresh' = FALSE)
          BY <1>5 DEF StartReplies, Update, Patched, v
    <2>3. reads' \subseteq Read /\ \A r \in reads' : r.live => r.at = shown
      <3>1. CASE i.live
        <4>1. reads' = Issued(reads, t, IF i.reply = "rejected" THEN Unset ELSE i.op, "user")
              BY <1>5, <3>1 DEF StartReplies
        <4> QED BY <1>1, <3>1, <4>1, IssuedReads DEF LiveIsShown, ScreenOp
      <3>2. CASE ~i.live
            BY <1>5, <3>2 DEF StartReplies, LiveIsShown
      <3> QED BY <3>1, <3>2
    <2>4. store' \in [Targets -> View] /\ store'[shown].status = store[shown].status
          BY <1>1, <2>1, <2>2
    <2>5. ScreenTypeOK'
          BY <1>1, <1>2, <1>3, <2>1, <2>2, <2>3, <2>4 DEF ScreenOp
    <2>6. RequestsAtHome' /\ UntoldIsRequested'
          BY <1>1, <1>2, <1>5, <2>2 DEF RequestsAtHome, UntoldIsRequested, StillAsked
    <2>7. LiveIsShown'
          BY <1>1, <1>2, <2>3 DEF LiveIsShown
    <2>8. FreshIsOfVisit'
          BY <1>2, <2>2, <2>4 DEF FreshIsOfVisit
    <2> QED BY <2>5, <2>6, <2>7, <2>8
  <1>6. CASE StillAsked(i) /\ StartFails(i)
    <2> DEFINE v == Unconfirmed(store[t], i)
    <2>1. v \in View /\ v.status = store[t].status
          BY <1>1, RepliesTyped
    <2> HIDE DEF v
    <2>2. /\ requests' = requests /\ answered' = answered
          /\ store' \in {store, [store EXCEPT ![t] = v]} /\ view' \in {view, v}
          /\ fresh' \in {FALSE, fresh}
          BY <1>1, <1>6 DEF StartFails, Update, Patched, v
    <2>3. reads' \subseteq Read /\ \A r \in reads' : r.live => r.at = shown
      <3>1. CASE i.live
        <4>1. reads' = Issued(reads, t, i.op, "user")
              BY <1>6, <3>1 DEF StartFails
        <4> QED BY <1>1, <3>1, <4>1, IssuedReads DEF LiveIsShown, ScreenOp
      <3>2. CASE ~i.live
            BY <1>6, <3>2 DEF StartFails, LiveIsShown
      <3> QED BY <3>1, <3>2
    <2>4. store' \in [Targets -> View] /\ store'[shown].status = store[shown].status
          BY <1>1, <2>1, <2>2
    <2>5. ScreenTypeOK'
          BY <1>1, <1>2, <1>3, <2>1, <2>2, <2>3, <2>4
    <2>6. RequestsAtHome' /\ UntoldIsRequested'
          BY <1>2, <2>2 DEF RequestsAtHome, UntoldIsRequested
    <2>7. LiveIsShown'
          BY <1>1, <1>2, <2>3 DEF LiveIsShown
    <2>8. FreshIsOfVisit'
          BY <1>2, <2>2, <2>4 DEF FreshIsOfVisit
    <2> QED BY <2>5, <2>6, <2>7, <2>8
  <1> QED BY <1>4, <1>5, <1>6

\* What the manager does changes nothing the screen holds.
LEMMA ManagerSteps ==
    ASSUME ScreenInv,
           \/ ManagerRestarts
           \/ \E o \in Operations : OperationEnds(o)
           \/ \E o \in late : LateArrives(o)
           \/ \E ok \in BOOLEAN : \E i \in runs : StartArrives(i, ok)
    PROVE  ScreenInv'
  <1> USE DEF ScreenInv, ScreenTypeOK, RequestsAtHome, UntoldIsRequested, LiveIsShown,
              FreshIsOfVisit, managerVars, wireVars, clientVars
  <1>0. \A o \in Operations, ok \in BOOLEAN :
           Admission(o, ok) \in Reply /\ (Journaled(o, Admission(o, ok)) =>
              journal' \in [Operations -> {"absent", "pending", "done"}])
        BY DEF Admission, Journaled, Reply
  <1>1. CASE ManagerRestarts
        BY <1>1 DEF ManagerRestarts
  <1>2. CASE \E o \in Operations : OperationEnds(o)
        BY <1>2 DEF OperationEnds
  <1>3. ASSUME NEW o \in late, LateArrives(o) PROVE ScreenInv'
    <2>1. journal' \in [Operations -> {"absent", "pending", "done"}]
          BY <1>0, <1>3 DEF LateArrives
    <2>2. late' \subseteq Operations /\ UNCHANGED <<clientVars, runs, reads, homeOf, deadBoot>>
          BY <1>3 DEF LateArrives
    <2> QED BY <2>1, <2>2
  <1>4. ASSUME NEW ok \in BOOLEAN, NEW i \in runs, StartArrives(i, ok) PROVE ScreenInv'
    <2> DEFINE j == [i EXCEPT !.reply = Admission(i.op, ok)]
    <2>1. i.op \in Operations
          BY DEF Run
    <2>2. j \in Run /\ j.op = i.op /\ j.live = i.live
          BY <1>0, <2>1 DEF Run
    <2>3. runs' = (runs \ {i}) \cup {j} /\ UNCHANGED <<clientVars, late, reads, homeOf, deadBoot>>
          /\ journal' \in [Operations -> {"absent", "pending", "done"}]
          BY <1>0, <1>4, <2>1 DEF StartArrives
    <2> HIDE DEF j
    <2> QED BY <2>2, <2>3
  <1> QED BY <1>1, <1>2, <1>3, <1>4

-----------------------------------------------------------------------------
(* The theorems *)

LEMMA StepInv == ScreenInv /\ [ScreenNext]_screenVars => ScreenInv'
  <1> SUFFICES ASSUME ScreenInv, [ScreenNext]_screenVars PROVE ScreenInv'
      OBVIOUS
  <1>1. CASE ScreenNext
        BY <1>1, ReadSteps, SwitchStep, StartSteps, SavedStep, ArrivesStep, RunSteps, ManagerSteps
           DEF ScreenNext
  <1>2. CASE UNCHANGED screenVars
        BY <1>2 DEF screenVars, clientVars, wireVars, managerVars, ScreenInv, ScreenTypeOK,
                    RequestsAtHome, UntoldIsRequested, LiveIsShown, FreshIsOfVisit
  <1> QED BY <1>1, <1>2

(***************************************************************************)
(* The screen's bookkeeping: an operation whose fate the screen was not    *)
(* told is the one its target still waits for, and what is fresh was read  *)
(* in this visit (manager-state.ts, target-async.ts).                      *)
(***************************************************************************)
THEOREM Bookkeeping == ScreenSpec => []ScreenInv
  <1> QED BY InitInv, StepInv, PTL DEF ScreenSpec

\* Only two steps make an operation, for a target that waits for none.
LEMMA StepTold == ScreenInv /\ [ScreenNext]_screenVars => ToldBefore
  <1> SUFFICES ASSUME ScreenInv, [ScreenNext]_screenVars,
                      NEW o \in Operations, homeOf[o] = Unset, homeOf'[o] # Unset
               PROVE  /\ \A p \in Operations : homeOf[p] = homeOf'[o] => p \in answered
                      /\ view'.status.visit
      BY DEF ToldBefore
  <1> USE ScreenAssumption DEF ScreenInv, ScreenTypeOK
  <1>1. \/ \E q \in Operations : StartOperation(q)
        \/ \E r \in reads : StatusArrives(r)
    <2>1. homeOf' # homeOf
          OBVIOUS
    <2> QED BY <2>1 DEF ScreenNext, screenVars, managerVars, Reload, PollTick, RetryOriginal,
                SaveAndApply, ManagerRestarts, Switch, OperationEnds, StatusRead, StatusDropped,
                StartReplies, StartFails, ProfilesSaved, StartArrives, LateArrives
  <1>2. ASSUME NEW q \in Operations, StartOperation(q)
        PROVE  /\ \A p \in Operations : homeOf[p] = homeOf'[o] => p \in answered
               /\ view'.status.visit
    <2>1. homeOf'[o] = shown /\ requests[shown] = Unset /\ fresh
          BY <1>2 DEF StartOperation, CanMutate, Startable
    <2>2. Starting(store[shown], q).status = store[shown].status
          BY ViewsTyped
    <2>3. view' = Starting(store[shown], q)
          BY <1>2 DEF StartOperation, Update
    <2> QED BY <2>1, <2>2, <2>3 DEF UntoldIsRequested, FreshIsOfVisit
  <1>3. ASSUME NEW r \in reads, StatusArrives(r)
        PROVE  /\ \A p \in Operations : homeOf[p] = homeOf'[o] => p \in answered
               /\ view'.status.visit
    <2>1. PICK q \in Operations :
             /\ Startable(r.at, store[r.at])
             /\ Update(r.at, Starting(Observed(store[r.at], r), q))
             /\ homeOf' = [homeOf EXCEPT ![q] = r.at]
          BY <1>3 DEF StatusArrives
    <2>2. r \in Read /\ r.at = shown /\ r.live
          BY <1>3 DEF StatusArrives, Current, LiveIsShown
    <2>3. Starting(Observed(store[shown], r), q).status.visit
      <3>1. Observed(store[shown], r) \in View /\ Observed(store[shown], r).status.visit
            BY <2>2, ObservedTyped
      <3> QED BY <3>1, ViewsTyped
    <2>4. view' = Starting(Observed(store[shown], r), q)
          BY <2>1, <2>2 DEF Update
    <2>5. homeOf'[o] = shown /\ requests[shown] = Unset
          BY <2>1, <2>2 DEF Startable
    <2> QED BY <2>3, <2>4, <2>5 DEF UntoldIsRequested
  <1> QED BY <1>1, <1>2, <1>3

(***************************************************************************)
(* The screen makes a new operation for a target only when it was told the *)
(* fate of every earlier one, from a status of this visit (runOperation,   *)
(* saveAndApplyProfiles).                                                  *)
(***************************************************************************)
THEOREM NothingReplacedBlindly == ScreenSpec => NoBlindReplacement
  <1> QED BY Bookkeeping, StepTold, PTL DEF ScreenSpec, NoBlindReplacement
=============================================================================
