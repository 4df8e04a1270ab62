------------------------------ MODULE Publish -------------------------------
(***************************************************************************)
(* How an activation publishes its two immutable directories: the runtime  *)
(* candidate (materializer.ts, <stable root>/<sha256>) and the launch set  *)
(* that names it (launchers.ts, launchers/<sha256>).  Each is written      *)
(* under .staging/<operation id>, made durable and renamed to the name its *)
(* content gives it; whoever finds the name taken verifies and reuses what *)
(* bears it, and nothing under a final name is ever repaired.              *)
(*                                                                         *)
(* A file has its bytes and its mode when `has' holds them; what `kept'    *)
(* holds of it survives an outage.  A directory is sealed when its entries *)
(* do, and named when its final name does.                                 *)
(*                                                                         *)
(* A name lasts no longer than the directory it is in, and those two are   *)
(* made by a mkdir that nobody follows with a sync of their own parent:    *)
(* the stable root's name is never synced by this code, that of launchers/ *)
(* only when a candidate is published later.                               *)
(***************************************************************************)
EXTENDS Integers

CONSTANTS
    Publishers,     \* activations that may publish at one time
    Files,          \* files of each directory
    MaxOutages,     \* bound: power losses
    Nothing

VARIABLES
    publisher,      \* publisher -> Nothing or where it is, in Publications
    staged,         \* publisher -> Nothing or its staged directory
    published,      \* asset -> Nothing or the directory that bears the final name
    announced,      \* assets whose own publisher reported the directory there is
    parents,        \* [made, kept]: the parents there are, and whose own name is durable
    outages

publishVars == <<publisher, staged, published, announced, parents, outages>>

Assets == {"runtime", "launch set"}
Parts  == {"bytes", "mode"}
Parents == {"stable root", "launchers"}
\* The directories an asset's final name is under.
Above(asset) == IF asset = "runtime" THEN {"stable root"} ELSE Parents
FileStates == [has: SUBSET Parts, kept: SUBSET Parts]
Directories == [files: [1..Files -> FileStates], sealed: BOOLEAN, named: BOOLEAN]
Fresh == [files |-> [n \in 1..Files |-> [has |-> {}, kept |-> {}]],
          sealed |-> FALSE, named |-> FALSE]
Stages == {"look", "claim", "write", "mode", "sync", "read back", "seal", "parent", "rename", "flush", "verify"}
Publications == [asset: Assets, at: Stages, file: 1..Files, reused: BOOLEAN]

ASSUME FilesAssumption == Files \in Nat \ {0}
ASSUME NothingAssumption == (\A dir \in Directories : dir # Nothing) /\ (\A run \in Publications : run # Nothing)

PublishInit ==
    /\ publisher = [p \in Publishers |-> Nothing]
    /\ staged = [p \in Publishers |-> Nothing]
    /\ published = [a \in Assets |-> Nothing]
    /\ announced = {}
    /\ parents \in [made : SUBSET Parents, kept : SUBSET Parents]
    /\ parents.made = parents.kept
    /\ "launchers" \in parents.made => "stable root" \in parents.made
    /\ outages = 0

At(p, stage) == publisher[p] # Nothing /\ publisher[p].at = stage
Asset(p) == publisher[p].asset
Proceeds(p, stage) == publisher' = [publisher EXCEPT ![p].at = stage]
NextFile(p) ==
    publisher' = [publisher EXCEPT
        ![p].at = IF publisher[p].file < Files THEN "write" ELSE "seal",
        ![p].file = IF @ < Files THEN @ + 1 ELSE @]
Looking(asset) == [asset |-> asset, at |-> "look", file |-> 1, reused |-> FALSE]

\* installed.json, the last file of a candidate.
IsReceipt(p) == Asset(p) = "runtime" /\ publisher[p].file = Files

\* runActivate: the candidate first, then the launch set that names it.  The
\* stable root is made if it is not there (ensureStableRoot).
Begin(p) ==
    /\ publisher[p] = Nothing
    /\ publisher' = [publisher EXCEPT ![p] = Looking("runtime")]
    /\ parents' = [parents EXCEPT !.made = @ \cup {"stable root"}]
    /\ UNCHANGED <<staged, published, announced, outages>>

\* The final name is taken: what bears it is verified, never rewritten.
Look(p) ==
    /\ At(p, "look")
    /\ IF published[Asset(p)] = Nothing THEN Proceeds(p, "claim")
       ELSE publisher' = [publisher EXCEPT ![p].at = "verify", ![p].reused = TRUE]
    /\ UNCHANGED <<staged, published, announced, parents, outages>>

\* Private staging of this operation, whose id no other operation has.
Claim(p) ==
    /\ At(p, "claim") /\ Proceeds(p, "write")
    /\ staged' = [staged EXCEPT ![p] = Fresh]
    /\ UNCHANGED <<published, announced, parents, outages>>

-----------------------------------------------------------------------------
(* The files.  A candidate's file gets its bytes and its mode, is synced   *)
(* and is read back; installed.json is created with the mode it needs.  A  *)
(* launch set's file is synced, and gets its mode by path when it is       *)
(* closed.                                                                 *)

Current(p) == staged[p].files[publisher[p].file]
Puts(p, file) == staged' = [staged EXCEPT ![p].files[publisher[p].file] = file]

WriteBytes(p) ==
    /\ At(p, "write")
    /\ Proceeds(p, IF Asset(p) = "runtime" /\ ~IsReceipt(p) THEN "mode" ELSE "sync")
    /\ Puts(p, [has |-> IF IsReceipt(p) THEN Parts ELSE {"bytes"}, kept |-> {}])
    /\ UNCHANGED <<published, announced, parents, outages>>

SetMode(p) ==
    /\ At(p, "mode")
    /\ IF Asset(p) = "runtime" THEN Proceeds(p, "sync") ELSE NextFile(p)
    /\ Puts(p, [Current(p) EXCEPT !.has = Parts])
    /\ UNCHANGED <<published, announced, parents, outages>>

SyncFile(p) ==
    /\ At(p, "sync")
    /\ CASE Asset(p) = "launch set" -> Proceeds(p, "mode")
         [] IsReceipt(p) -> NextFile(p)
         [] OTHER -> Proceeds(p, "read back")
    /\ Puts(p, [Current(p) EXCEPT !.kept = Current(p).has])
    /\ UNCHANGED <<published, announced, parents, outages>>

ReadBack(p) ==
    /\ At(p, "read back") /\ Current(p).has = Parts /\ NextFile(p)
    /\ UNCHANGED <<staged, published, announced, parents, outages>>

-----------------------------------------------------------------------------
(* The directory *)

Whole(dir) == \A n \in 1..Files : dir.files[n].has = Parts

\* Every directory that was touched is synced.
Seal(p) ==
    /\ At(p, "seal") /\ Proceeds(p, IF Asset(p) = "runtime" THEN "rename" ELSE "parent")
    /\ staged' = [staged EXCEPT ![p].sealed = TRUE]
    /\ UNCHANGED <<published, announced, parents, outages>>

\* A launch set is read from disk once more, then launchers/ is made if it is
\* not there: a plain mkdir, and the stable root is not synced after it.
MakeParent(p) ==
    /\ At(p, "parent") /\ Whole(staged[p]) /\ Proceeds(p, "rename")
    /\ parents' = [parents EXCEPT !.made = @ \cup {"launchers"}]
    /\ UNCHANGED <<staged, published, announced, outages>>

\* Nobody replaces what bears the name: a publisher that lost the race drops
\* its own staging and takes the winner's directory.
Rename(p) ==
    /\ At(p, "rename")
    /\ IF published[Asset(p)] = Nothing
       THEN Proceeds(p, "flush") /\ published' = [published EXCEPT ![Asset(p)] = staged[p]]
       ELSE /\ publisher' = [publisher EXCEPT ![p].at = "verify", ![p].reused = TRUE]
            /\ UNCHANGED published
    /\ staged' = [staged EXCEPT ![p] = Nothing]
    /\ UNCHANGED <<announced, parents, outages>>

\* Mutant: the parent directory is not synced.
FlushNothing(p) ==
    /\ At(p, "flush") /\ Proceeds(p, "verify")
    /\ UNCHANGED <<staged, published, announced, parents, outages>>
\* The directory the name is in is synced: launchers/ for a launch set, the
\* stable root, where launchers/ has its own name, for a candidate.
FlushParent(p) ==
    /\ At(p, "flush") /\ Proceeds(p, "verify")
    /\ published' = [published EXCEPT ![Asset(p)].named = TRUE]
    /\ parents' = IF Asset(p) = "launch set" THEN parents
                  ELSE [parents EXCEPT !.kept = @ \cup (parents.made \cap {"launchers"})]
    /\ UNCHANGED <<staged, announced, outages>>

\* Every file of the final directory is compared; a reused one is not synced.
Verify(p) ==
    /\ At(p, "verify")
    /\ IF Whole(published[Asset(p)])
       THEN /\ announced' = IF publisher[p].reused THEN announced ELSE announced \cup {Asset(p)}
            /\ publisher' = [publisher EXCEPT
                   ![p] = IF Asset(p) = "runtime" THEN Looking("launch set") ELSE Nothing]
       ELSE publisher' = [publisher EXCEPT ![p] = Nothing] /\ UNCHANGED announced
    /\ UNCHANGED <<staged, published, parents, outages>>

\* A step fails and the operation discards its staging, or its process dies
\* and leaves it where no later operation looks.
Abandon(p) ==
    /\ publisher[p] # Nothing
    /\ publisher' = [publisher EXCEPT ![p] = Nothing]
    /\ staged' = [staged EXCEPT ![p] = Nothing]
    /\ UNCHANGED <<published, announced, parents, outages>>

-----------------------------------------------------------------------------
\* A power loss takes the names in `gone' unless they were synced, of parents
\* and of assets, and what is under a parent with it;
\* of the files what is in `lost' unless it was.
Left(dir, lost) ==
    [files |-> [n \in 1..Files |->
        LET f == dir.files[n]
            left == f.has \ ({x \in Parts : <<n, x>> \in lost} \ (IF dir.sealed THEN f.kept ELSE {}))
        IN  [has |-> left, kept |-> left]],
     sealed |-> dir.sealed, named |-> TRUE]
Standing(gone) ==
    LET left == {d \in parents.made : d \in gone => d \in parents.kept}
    IN  {d \in left : "stable root" \in left}
Outage(gone, lost) ==
    /\ outages < MaxOutages /\ outages' = outages + 1
    /\ publisher' = [p \in Publishers |-> Nothing]
    /\ staged' = [p \in Publishers |-> Nothing]
    /\ parents' = [made |-> Standing(gone), kept |-> Standing(gone)]
    /\ published' = [a \in Assets |->
           IF \/ published[a] = Nothing \/ ~(Above(a) \subseteq Standing(gone))
              \/ a \in gone /\ ~published[a].named
           THEN Nothing ELSE Left(published[a], lost)]
    /\ announced' = {a \in announced : published'[a] # Nothing}

PublishNext ==
    \/ \E p \in Publishers :
        \/ Begin(p) \/ Look(p) \/ Claim(p)
        \/ WriteBytes(p) \/ SetMode(p) \/ SyncFile(p) \/ ReadBack(p)
        \/ Seal(p) \/ MakeParent(p) \/ Rename(p) \/ FlushParent(p) \/ Verify(p) \/ Abandon(p)
    \/ \E gone \in SUBSET (Assets \cup Parents), lost \in SUBSET ((1..Files) \X Parts) : Outage(gone, lost)
PublishSpec == PublishInit /\ [][PublishNext]_publishVars

-----------------------------------------------------------------------------
(* Properties *)

\* A directory is under its final name only when nothing can be missing from
\* it, not even after a power loss at any moment and whatever the publishers
\* that met in the rename did: all its entries and all bytes are durable, and
\* so are a candidate's modes (materializer.ts materialize steps 3 to 5,
\* launchers.ts publish).  The modes of a launch set are not: its files are
\* synced before they get them.
PublishedIsWhole ==
    \A a \in Assets : published[a] # Nothing =>
        /\ published[a].sealed
        /\ \A n \in 1..Files : /\ "bytes" \in published[a].files[n].kept
                               /\ a = "runtime" => published[a].files[n].kept = Parts

\* What its publisher reported, the journal records and the config names: no
\* step takes it away but a power loss that takes with it a directory above it
\* whose own name was never synced (launchers.ts publish makes launchers/ with
\* ensurePrivateDirectory and syncs it, not the stable root; materializer.ts
\* ensureStableRoot syncs no parent).  Where the parents are durable it is
\* never gone; the first launch set of a home is not safe until a candidate is
\* published after it, or what was made has reached the disk by itself.
AnnouncedStays ==
    [][\A a \in announced : published'[a] = Nothing =>
         \E d \in Above(a) : d \in parents.made \ parents.kept /\ d \notin parents'.made]_publishVars
\* The promise of a published asset to the journal and the config that name
\* it: nothing of it is missing as long as it is there, and it goes only with
\* a parent whose name was not synced.
PublicationHolds == []PublishedIsWhole /\ AnnouncedStays
=============================================================================
