----------------------------- MODULE Settlement -----------------------------
(***************************************************************************)
(* Settlements: the owner's attestations of what became of a seat's work   *)
(* (plugin/server/desk-settlement.ts).  An exported transcript that one    *)
(* claims is read before the command is built; the command commits later,  *)
(* under the writer lock, when the file, the owner or the ledger may have  *)
(* changed.  The last part is what the loader demands of the rows          *)
(* (desk-store.ts).                                                        *)
(*                                                                         *)
(* A claim is the caller's input: the seat, the content its export pointer *)
(* digests (None: no export), whether delivery, rework, sink and decision  *)
(* are pointed at, whether a resource is left unknown, whether a native    *)
(* handle with its gap stands in for an export, and the rows it refers to. *)
(***************************************************************************)
EXTENDS Custody, FiniteSetsExt

CONSTANTS
    Claims,                 \* what a settlement may say
    Transcripts,            \* contents of the exported file
    SettleRequests,         \* request ids
    MaxSettlements, MaxRecorders      \* bounds

VARIABLES
    transcript,     \* the exported file, None if absent
    recorders,      \* record calls between the verdict and the commit
    settlements     \* rows, in commit order

settlementVars == <<transcript, recorders, settlements>>

ClaimShape == [seat : Agents, export : Transcripts \cup {None}, delivery : BOOLEAN,
               rework : BOOLEAN, sink : BOOLEAN, decision : BOOLEAN, unknown : BOOLEAN,
               handle : BOOLEAN, handbacks : SUBSET Nat, candidates : SUBSET Nat]
Verdict == {None, "verified", "absent", "mismatch", "unavailable"}

ASSUME SettlementAssumption ==
    /\ Claims \subseteq ClaimShape /\ None \notin Transcripts
    /\ None \notin {"verified", "absent", "mismatch", "unavailable"}
    /\ MaxSettlements \in Nat

SettlementTypeOK ==
    /\ transcript \in Transcripts \cup {None}
    /\ recorders \subseteq [by : Leads, req : SettleRequests, claim : Claims, verdict : Verdict]
    /\ settlements \in Seq([by : Leads, req : SettleRequests, claim : Claims, verdict : Verdict,
                            rev : Nat, status : {"completed", "partial", "blocked"}, gaps : SUBSET STRING])

SettlementInit == transcript = None /\ recorders = {} /\ settlements = <<>>

-----------------------------------------------------------------------------
\* The file is written, replaced or removed by whoever exports transcripts.
WriteTranscript(t) ==
    /\ transcript' = t /\ t # transcript
    /\ UNCHANGED <<custodyVars, handbackVars, recorders, settlements>>

\* What the artifact seam can answer: a read may fail without saying why.
Verdicts(claim) ==
    IF claim.export = None THEN {None}
    ELSE {"unavailable"} \cup
         {CASE transcript = None -> "absent"
            [] transcript = claim.export -> "verified"
            [] OTHER -> "mismatch"}

\* A live member calls; the verdict joins the body of the command.
RecordSettlement(l, id, claim) ==
    /\ l \in live /\ Cardinality(recorders) < MaxRecorders
    /\ \E v \in Verdicts(claim) :
         recorders' = recorders \cup {[by |-> l, req |-> id, claim |-> claim, verdict |-> v]}
    /\ UNCHANGED <<custodyVars, handbackVars, transcript, settlements>>

\* A VERIFIED export covers the timeline; without a claim, a handle does.
Covered(claim, v) == IF claim.export = None THEN claim.handle ELSE v = "verified"

StatusOfClaim(claim, v) ==
    IF ~claim.delivery THEN "blocked"
    ELSE IF ~claim.rework \/ ~claim.sink \/ claim.unknown \/ ~Covered(claim, v) THEN "partial"
    ELSE "completed"

GapsOf(claim, v) ==
    (IF claim.delivery THEN {} ELSE {"delivery"})
    \cup (IF claim.rework THEN {} ELSE {"rework"})
    \cup (IF claim.unknown THEN {"resources"} ELSE {})
    \cup (IF claim.sink THEN {} ELSE {"sink"})
    \cup (IF claim.export = None THEN {"export"} ELSE {})
    \cup (IF claim.export # None /\ v # "verified" THEN {"unverified"} ELSE {})
    \cup (IF claim.decision THEN {} ELSE {"decision"})

\* Rows it refers to belong to the settled seat of this assignment.
RefsResolve(claim) ==
    /\ \A h \in claim.handbacks : h \in DOMAIN handbacks /\ handbacks[h].seat = claim.seat
    /\ \A i \in claim.candidates : i \in DOMAIN candidates /\ candidates[i].seat = claim.seat

\* decideDeskSettlement.  The assignment need not be open any more.
Acceptable(j) ==
    /\ Owner(j.by) /\ j.claim.seat \in seats
    /\ RefsResolve(j.claim)
    /\ Len(settlements) < MaxSettlements
    /\ j.verdict \in {None, "verified", "unavailable"}

RevisionFor(seat) ==
    Max({0} \cup {settlements[i].rev : i \in {j \in DOMAIN settlements :
                     settlements[j].claim.seat = seat}}) + 1

SettlementRow(j) ==
    [by |-> j.by, req |-> j.req, claim |-> j.claim, verdict |-> j.verdict,
     rev |-> RevisionFor(j.claim.seat), status |-> StatusOfClaim(j.claim, j.verdict),
     gaps |-> GapsOf(j.claim, j.verdict)]

\* The store's idempotency key: a request that is recorded is replayed, or,
\* with another body (another verdict too), refused; neither adds a row.
Recorded(j) == \E i \in DOMAIN settlements : settlements[i].by = j.by /\ settlements[i].req = j.req

CommitSettlement(j) ==
    /\ j \in recorders
    /\ recorders' = recorders \ {j}
    /\ settlements' = IF ~Recorded(j) /\ Acceptable(j) THEN Append(settlements, SettlementRow(j))
                      ELSE settlements
    /\ UNCHANGED <<custodyVars, handbackVars, transcript>>

SettlementNext ==
    \/ \E t \in Transcripts \cup {None} : WriteTranscript(t)
    \/ \E l \in Leads, id \in SettleRequests, claim \in Claims : RecordSettlement(l, id, claim)
    \/ \E j \in recorders : CommitSettlement(j)

-----------------------------------------------------------------------------
\* The loader's demands.
SettlementsRead ==
    /\ \A i, j \in DOMAIN settlements :
         LET r == settlements[i]  other == settlements[j] IN
         \/ i = j
         \/ /\ <<r.claim.seat, r.rev>> # <<other.claim.seat, other.rev>>
            /\ <<r.by, r.req>> # <<other.by, other.req>>
    /\ \A i \in DOMAIN settlements :
         LET r == settlements[i] IN
         /\ r.by \in Lineage /\ r.claim.seat \in seats /\ RefsResolve(r.claim)
         /\ (r.claim.export = None) <=> (r.verdict = None)
         /\ r.verdict = "unavailable" => r.status # "completed" /\ "unverified" \in r.gaps
         /\ r.verdict = "verified" => "unverified" \notin r.gaps

\* A row is written by who owns the assignment at that moment, though the
\* call may have begun under another owner.
SettlementTimely(i) == settlements'[i].by = EffectiveOwner
=============================================================================
