------------------------------- MODULE Bridge -------------------------------
(***************************************************************************)
(* The desk bridge of desk-bridge.ts as a service: instances of the plugin *)
(* (two processes of one daemon home, or one process that reloads it)      *)
(* start and stop around one lock file, one socket path and one installed  *)
(* relay binary, and one seat's calls go through whichever of them serves. *)
(*                                                                         *)
(* at[p] is where start() of the instance p is: a name for every await and *)
(* for every file operation another process can come between.  stop() runs *)
(* at an await only; what it leaves to the close event is Finish.          *)
(***************************************************************************)
EXTENDS Integers, FiniteSets

CONSTANTS
    Plugins,      \* instances of the plugin
    Host,         \* instance -> the process it runs in
    BridgePin,    \* instance -> the relay binary its binding pins
    MaxPolls,     \* lockWaitMs / LOCK_POLL_MS
    MaxEpochs,    \* memberships of the seat's agent
    MaxCommits,   \* what the seat commits
    Nobody

ASSUME BridgeAssumption == Nobody \notin Plugins \cup [by : Plugins, whole : BOOLEAN]

VARIABLES
    at, polls, stopped, closing, lockHeld, socketOwned,
    stuck,        \* a lock file the instance could not write or remove
    lockFile,     \* Nobody or [by, whole]: whole is FALSE for a torn record
    sockFile,     \* the instance whose bind made the file at the socket path
    installed,    \* the binary at the stable path
    grafted,      \* instances that gave a seat that path since it last drifted
    row,          \* the seat's newest membership: [epoch, state]
    seatCall,     \* Nobody or the seat's connection with its call
    agent,        \* the host's agent is still the one of the row
    health,       \* of the repository's desk: "ok", "unreadable", or "locked" by the dead
    committed,
    strayed       \* a socket was unlinked by an instance that does not own it
bridgeFiles == <<lockFile, sockFile, strayed, installed, grafted>>
instanceVars == <<at, polls, stopped, closing, lockHeld, socketOwned, stuck>>
seatVars == <<row, seatCall, agent, health, committed>>
bridgeVars == <<instanceVars, bridgeFiles, seatVars>>

Binaries == {BridgePin[p] : p \in Plugins}
Moves(p, to) == at' = [at EXCEPT ![p] = to]
Alive(p) == at[p] # "dead"
Mine(p) == lockFile # Nobody /\ lockFile.by = p /\ lockFile.whole

\* releaseLock: only a lock this instance holds and whose record is its own.
Release(p, fails) ==
    /\ lockHeld' = [lockHeld EXCEPT ![p] = FALSE]
    /\ lockFile' = IF lockHeld[p] /\ Mine(p) /\ ~fails THEN Nobody ELSE lockFile
    /\ stuck' = IF lockHeld[p] /\ fails THEN stuck \cup {p} ELSE stuck

(***************************************************************************)
(* start().                                                                *)
(***************************************************************************)
StartBridge(p) ==
    /\ at[p] = "off" /\ ~stopped[p]
    /\ Moves(p, "rooting")
    /\ UNCHANGED <<polls, stopped, closing, lockHeld, socketOwned, stuck, bridgeFiles, seatVars>>

\* The abort forgets that the socket is no longer its own.
AbortForgetful(p, fails) ==
    /\ stopped[p] /\ at[p] \in {"rooted", "locked", "refused", "bound"}
    /\ sockFile' = IF socketOwned[p] THEN Nobody ELSE sockFile
    /\ Release(p, fails) /\ Moves(p, "ended")
    /\ UNCHANGED <<strayed, socketOwned, polls, stopped, closing, installed, grafted, seatVars>>
\* The abort leaves the lock to stop(), which ran before it was taken.
AbortLocked(p, fails) ==
    /\ stopped[p] /\ at[p] \in {"rooted", "locked", "refused", "bound"}
    /\ sockFile' = IF socketOwned[p] THEN Nobody ELSE sockFile
    /\ socketOwned' = [socketOwned EXCEPT ![p] = FALSE]
    /\ Moves(p, "ended")
    /\ UNCHANGED <<lockHeld, lockFile, stuck, strayed, polls, stopped, closing, installed, grafted, seatVars>>
\* abortIfStopped, once an await of start() is over.  stop() has taken the
\* server by then, or there is none yet.
AbortIfStopped(p, fails) ==
    /\ stopped[p] /\ at[p] \in {"rooted", "locked", "refused", "bound"}
    /\ sockFile' = IF socketOwned[p] THEN Nobody ELSE sockFile
    /\ socketOwned' = [socketOwned EXCEPT ![p] = FALSE]
    /\ Release(p, fails) /\ Moves(p, "ended")
    /\ UNCHANGED <<strayed, polls, stopped, closing, installed, grafted, seatVars>>

\* resolveStableRoot: the receipt, the launch set and the candidate agree.
ResolveStableRoot(p, ok) ==
    /\ at[p] = "rooting"
    /\ Moves(p, IF ok THEN "rooted" ELSE "ended")
    /\ UNCHANGED <<polls, stopped, closing, lockHeld, socketOwned, stuck, bridgeFiles, seatVars>>

\* The directories are there, and the first attempt to lock begins.
Prepared(p) ==
    /\ at[p] = "rooted" /\ ~stopped[p]
    /\ Moves(p, "locking")
    /\ UNCHANGED <<polls, stopped, closing, lockHeld, socketOwned, stuck, bridgeFiles, seatVars>>

OpenLockFile(p) ==
    /\ at[p] = "locking"
    /\ IF lockFile = Nobody THEN lockFile' = [by |-> p, whole |-> FALSE] /\ Moves(p, "writing")
       ELSE Moves(p, "judging") /\ UNCHANGED lockFile
    /\ UNCHANGED <<polls, stopped, closing, lockHeld, socketOwned, stuck, sockFile, strayed, installed,
                   grafted, seatVars>>

WriteLockFile(p) ==
    /\ at[p] = "writing"
    /\ lockFile' = [lockFile EXCEPT !.whole = TRUE]
    /\ lockHeld' = [lockHeld EXCEPT ![p] = TRUE] /\ Moves(p, "locked")
    /\ UNCHANGED <<strayed, polls, stopped, closing, socketOwned, stuck, sockFile, installed, grafted, seatVars>>
\* The write or its fsync fails: the file stays, torn or whole, and no flag
\* says that it is this instance's.
WriteLockFileFails(p, whole) ==
    /\ at[p] = "writing"
    /\ lockFile' = [lockFile EXCEPT !.whole = whole]
    /\ stuck' = stuck \cup {p} /\ Moves(p, "refused")
    /\ UNCHANGED <<strayed, polls, stopped, closing, lockHeld, socketOwned, sockFile, installed, grafted, seatVars>>

\* holderProcess: a live holder is alive or cannot be told; a dead one is
\* esrch, or cannot be told, or its pid is used again and looks alive.
Judgments(q) == IF Alive(q) THEN {"alive", "undetermined"} ELSE {"esrch", "undetermined", "alive"}

\* The holder is read: gone or torn means an operator; a live holder is
\* waited for until the deadline.
JudgeLock(p, status) ==
    /\ at[p] = "judging"
    /\ IF lockFile = Nobody \/ ~lockFile.whole THEN status = "undetermined"
       ELSE status \in Judgments(lockFile.by)
    /\ Moves(p, CASE status = "undetermined" -> "refused"
                  [] status = "esrch" -> "recovering"
                  [] status = "alive" -> IF polls[p] < MaxPolls THEN "waiting" ELSE "refused")
    /\ UNCHANGED <<polls, stopped, closing, lockHeld, socketOwned, stuck, bridgeFiles, seatVars>>
PollAgain(p) ==
    /\ at[p] = "waiting"
    /\ polls' = [polls EXCEPT ![p] = @ + 1] /\ Moves(p, "locking")
    /\ UNCHANGED <<stopped, closing, lockHeld, socketOwned, stuck, bridgeFiles, seatVars>>

\* recoverDeskLockAsync (see DeskRecovery) removes the lock of a dead holder
\* and no other; the exclusive open decides again.
RecoverLock(p, ok) ==
    /\ at[p] = "recovering"
    /\ lockFile' = IF ok /\ lockFile # Nobody /\ lockFile.whole /\ ~Alive(lockFile.by) THEN Nobody ELSE lockFile
    /\ Moves(p, IF ok THEN "locking" ELSE "refused")
    /\ UNCHANGED <<polls, stopped, closing, lockHeld, socketOwned, stuck, sockFile, strayed, installed,
                   grafted, seatVars>>

\* The lock is not had: the instance stays unavailable.
Unavailable(p) ==
    /\ at[p] = "refused" /\ ~stopped[p] /\ Moves(p, "ended")
    /\ UNCHANGED <<polls, stopped, closing, lockHeld, socketOwned, stuck, bridgeFiles, seatVars>>

\* stableBridgePath: an intact install is kept, a verified candidate replaces
\* any other, and a candidate that is gone or drifted installs nothing.
Install(p, verified) == IF installed # BridgePin[p] /\ verified THEN BridgePin[p] ELSE installed

\* Under the lock: the leftover socket is removed, the binary installed and
\* the server bound.
Bind(p, verified) ==
    /\ at[p] = "locked" /\ ~stopped[p]
    /\ sockFile' = p /\ installed' = Install(p, verified)
    /\ Moves(p, "binding")
    /\ UNCHANGED <<strayed, polls, stopped, closing, lockHeld, socketOwned, stuck, lockFile, grafted, seatVars>>
BindFails(p, fails) ==
    /\ at[p] = "locked" /\ ~stopped[p]
    /\ sockFile' \in {sockFile, Nobody} /\ Release(p, fails) /\ Moves(p, "unbound")
    /\ UNCHANGED <<strayed, polls, stopped, closing, socketOwned, installed, grafted, seatVars>>

\* The listening event: not of a server that stop() has closed meanwhile.
Listening(p) ==
    /\ at[p] = "binding" /\ ~stopped[p]
    /\ socketOwned' = [socketOwned EXCEPT ![p] = TRUE] /\ Moves(p, "bound")
    /\ UNCHANGED <<polls, stopped, closing, lockHeld, stuck, bridgeFiles, seatVars>>

\* The socket's mode is pinned and the store opened; or the server is closed,
\* which removes its path, and the rest follows the close event.
Serve(p) ==
    /\ at[p] = "bound" /\ ~stopped[p] /\ Moves(p, "serving")
    /\ UNCHANGED <<polls, stopped, closing, lockHeld, socketOwned, stuck, bridgeFiles, seatVars>>
PinFails(p) ==
    /\ at[p] = "bound" /\ ~stopped[p] /\ Moves(p, "unpinning")
    /\ sockFile' = Nobody
    /\ UNCHANGED <<strayed, polls, stopped, closing, lockHeld, socketOwned, stuck, lockFile, installed, grafted, seatVars>>
\* The path is unlinked whoever owns it by now.
Unpinned(p, fails) ==
    /\ at[p] = "unpinning" /\ ~closing[p]
    /\ sockFile' = Nobody /\ strayed' = (strayed \/ sockFile \notin {p, Nobody})
    /\ socketOwned' = [socketOwned EXCEPT ![p] = FALSE]
    /\ Release(p, fails) /\ Moves(p, "ended")
    /\ UNCHANGED <<polls, stopped, closing, installed, grafted, seatVars>>

(***************************************************************************)
(* stop(), crashes, and the graft of a new seat.                           *)
(***************************************************************************)
HasServer(p) == at[p] \in {"binding", "bound", "serving", "unpinning", "unbound"}
Awaiting(p) == at[p] \notin {"locking", "writing", "judging", "dead"}

\* finish(): the socket if it is still this instance's, then the lock.
Finished(p, fails) ==
    /\ sockFile' = IF socketOwned[p] THEN Nobody ELSE sockFile
    /\ socketOwned' = [socketOwned EXCEPT ![p] = FALSE]
    /\ Release(p, fails)
\* The connections are destroyed: a call that is under way goes on unheard.
Hangup(p) == IF seatCall # Nobody /\ seatCall.to = p /\ seatCall.step \in {"hello", "bound"}
             THEN Nobody ELSE seatCall

StopServer(p) ==
    /\ Awaiting(p) /\ ~stopped[p] /\ HasServer(p)
    /\ stopped' = [stopped EXCEPT ![p] = TRUE] /\ closing' = [closing EXCEPT ![p] = TRUE]
    /\ sockFile' = IF at[p] \in {"binding", "bound", "serving"} THEN Nobody ELSE sockFile
    /\ seatCall' = Hangup(p)
    /\ UNCHANGED <<strayed, at, polls, lockHeld, socketOwned, stuck, lockFile, installed, grafted, row, agent, health, committed>>
StopIdle(p, fails) ==
    /\ Awaiting(p) /\ ~stopped[p] /\ ~HasServer(p)
    /\ stopped' = [stopped EXCEPT ![p] = TRUE]
    /\ Finished(p, fails) /\ seatCall' = Hangup(p)
    /\ UNCHANGED <<strayed, at, polls, closing, installed, grafted, row, agent, health, committed>>
\* The server's close event.
Finish(p, fails) ==
    /\ closing[p] /\ Alive(p)
    /\ closing' = [closing EXCEPT ![p] = FALSE]
    /\ Finished(p, fails)
    /\ Moves(p, IF at[p] \in {"serving", "binding", "unbound"} THEN "ended" ELSE at[p])
    /\ UNCHANGED <<strayed, polls, stopped, installed, grafted, seatVars>>

\* A process ends with its instances; its files stay.
Dies(h) ==
    /\ \E p \in Plugins : Host[p] = h /\ at[p] \notin {"off", "dead"}
    /\ at' = [p \in Plugins |-> IF Host[p] = h /\ at[p] # "off" THEN "dead" ELSE at[p]]
    /\ seatCall' = IF seatCall # Nobody /\ Host[seatCall.to] = h THEN Nobody ELSE seatCall
    /\ UNCHANGED <<polls, stopped, closing, lockHeld, socketOwned, stuck, bridgeFiles, row, agent, health, committed>>

\* agentCreateGraft: while listening, and only a path that verifies.
Graft(p, verified) ==
    /\ at[p] = "serving"
    /\ installed' = Install(p, verified)
    /\ grafted' = IF installed' = BridgePin[p] THEN grafted \cup {p} ELSE grafted
    /\ UNCHANGED <<strayed, instanceVars, lockFile, sockFile, seatVars>>
\* Somebody else removes or changes the installed binary.
InstallDrifts ==
    /\ installed # Nobody /\ installed' = Nobody /\ grafted' = {}
    /\ UNCHANGED <<strayed, instanceVars, lockFile, sockFile, seatVars>>

(***************************************************************************)
(* One seat: its membership, its connection and its calls.                 *)
(***************************************************************************)
RowMoves ==
    /\ row' \in {[row EXCEPT !.state = CASE row.state = "minted" -> "bound"
                                         [] row.state = "bound" -> "registered"
                                         [] OTHER -> "revoked"]}
                \cup (IF row.state = "revoked" /\ row.epoch < MaxEpochs
                      THEN {[epoch |-> row.epoch + 1, state |-> "minted"]} ELSE {})
    /\ row' # row
    /\ UNCHANGED <<instanceVars, bridgeFiles, seatCall, agent, health, committed>>

\* The agent leaves, and the desk's ledger or lock goes bad or is repaired.
SeatWorldMoves ==
    /\ \/ agent /\ agent' = FALSE /\ UNCHANGED health
       \/ health' \in {"ok", "unreadable", "locked"} \ {health} /\ UNCHANGED agent
    /\ UNCHANGED <<instanceVars, bridgeFiles, row, seatCall, committed>>

\* The relay, started from some installed binary, dials and is accepted.
Dial(p, sha) ==
    /\ seatCall = Nobody /\ sockFile = p /\ at[p] \in {"binding", "bound", "serving"} /\ ~stopped[p]
    /\ seatCall' = [to |-> p, sha |-> sha, epoch |-> row.epoch, step |-> "hello", mutates |-> FALSE]
    /\ UNCHANGED <<instanceVars, bridgeFiles, row, agent, health, committed>>

Answers(c) == seatCall' = IF stopped[c.to] THEN Nobody ELSE [c EXCEPT !.step = "bound"]
\* resolveSeat: the store is open, its ledgers read and one has the handle.
ResolveSeat(c) == at[c.to] = "serving" /\ health # "unreadable" /\ row.epoch = c.epoch
\* A hello that fails any check closes the connection.
Hello ==
    /\ seatCall # Nobody /\ seatCall.step = "hello"
    /\ seatCall' = IF /\ seatCall.sha = BridgePin[seatCall.to] /\ ResolveSeat(seatCall)
                      /\ row.state \in {"bound", "registered"}
                   THEN [seatCall EXCEPT !.step = "bound"] ELSE Nobody
    /\ UNCHANGED <<instanceVars, bridgeFiles, row, agent, health, committed>>
\* The seat's process ends or closes its connection; a call it made goes on.
Disconnects ==
    /\ seatCall # Nobody /\ seatCall.step \in {"hello", "bound"} /\ seatCall' = Nobody
    /\ UNCHANGED <<instanceVars, bridgeFiles, row, agent, health, committed>>

\* The catalog: what changes state, what reads, the status tool, and what no
\* seat may call.
Tools == {"mutation", "read", "status", "hidden"}

FreshRow(c) == health # "unreadable" /\ row.epoch = c.epoch /\ row.state = "registered"
\* The host answers for the agent: gone, archived, moved to another provider
\* or workspace, or in time and the same.
SdkIdentity(answered) == answered /\ agent
\* The transport row of the capability audit is this bridge's own state.
CapabilityGate(p) == at[p] = "serving"
ProbeAvailability == health = "ok"

\* callTool: the row is read, then the identity awaited.  Only the status
\* tool goes on with the row of its hello when the ledger cannot be read.
CallTool(tool) ==
    /\ seatCall # Nobody /\ seatCall.step = "bound"
    /\ seatCall' = IF \/ tool \in Tools \ {"hidden"} /\ FreshRow(seatCall)
                      \/ tool = "status" /\ health = "unreadable"
                   THEN [seatCall EXCEPT !.step = "identity", !.mutates = (tool = "mutation")]
                   ELSE seatCall
    /\ UNCHANGED <<instanceVars, bridgeFiles, row, agent, health, committed>>
\* The gates after that await; a mutation needs an available desk.
Gate(answered) ==
    /\ seatCall # Nobody /\ seatCall.step = "identity"
    /\ IF /\ SdkIdentity(answered) /\ CapabilityGate(seatCall.to)
          /\ (seatCall.mutates => ProbeAvailability)
       THEN seatCall' = [seatCall EXCEPT !.step = "run"] ELSE Answers(seatCall)
    /\ UNCHANGED <<instanceVars, bridgeFiles, row, agent, health, committed>>

\* taskTurnEnded: the worker's own send is observed, without a connection.
TurnEnds(p) ==
    /\ seatCall = Nobody /\ CapabilityGate(p) /\ ~stopped[p]
    /\ health # "unreadable" /\ row.state = "registered"
    /\ seatCall' = [to |-> p, sha |-> BridgePin[p], epoch |-> row.epoch, step |-> "turn", mutates |-> TRUE]
    /\ UNCHANGED <<instanceVars, bridgeFiles, row, agent, health, committed>>
TurnIdentified(answered) ==
    /\ seatCall # Nobody /\ seatCall.step = "turn"
    /\ seatCall' = IF SdkIdentity(answered) /\ ProbeAvailability /\ ~stopped[seatCall.to] /\ FreshRow(seatCall)
                   THEN [seatCall EXCEPT !.step = "services"] ELSE Nobody
    /\ UNCHANGED <<instanceVars, bridgeFiles, row, agent, health, committed>>
TurnServed(ok) ==
    /\ seatCall # Nobody /\ seatCall.step = "services"
    /\ seatCall' = IF ok /\ ~stopped[seatCall.to] THEN [seatCall EXCEPT !.step = "run"] ELSE Nobody
    /\ UNCHANGED <<instanceVars, bridgeFiles, row, agent, health, committed>>

\* The decision inside the store's transaction looks for the agent's live row.
LiveMember(c) == row.state = "registered"
\* The tool's run: a read answers, a mutation decides under the store's lock.
Runs(commits) ==
    /\ seatCall # Nobody /\ seatCall.step = "run"
    /\ committed' = IF commits /\ seatCall.mutates /\ LiveMember(seatCall) /\ committed < MaxCommits
                    THEN committed + 1 ELSE committed
    /\ Answers(seatCall)
    /\ UNCHANGED <<instanceVars, bridgeFiles, row, agent, health>>

BridgeInit ==
    /\ at = [p \in Plugins |-> "off"] /\ polls = [p \in Plugins |-> 0]
    /\ stopped = [p \in Plugins |-> FALSE] /\ closing = [p \in Plugins |-> FALSE]
    /\ lockHeld = [p \in Plugins |-> FALSE] /\ socketOwned = [p \in Plugins |-> FALSE]
    /\ stuck = {} /\ lockFile = Nobody /\ sockFile = Nobody /\ strayed = FALSE /\ installed = Nobody /\ grafted = {}
    /\ row = [epoch |-> 1, state |-> "minted"] /\ seatCall = Nobody
    /\ agent = TRUE /\ health = "ok" /\ committed = 0

\* What an instance does of itself once started.
BridgeStep(p) ==
    \/ Prepared(p) \/ OpenLockFile(p) \/ WriteLockFile(p) \/ PollAgain(p) \/ Unavailable(p)
    \/ Listening(p) \/ Serve(p) \/ PinFails(p)
    \/ \E ok \in BOOLEAN :
        \/ ResolveStableRoot(p, ok) \/ WriteLockFileFails(p, ok) \/ RecoverLock(p, ok) \/ Bind(p, ok)
        \/ AbortIfStopped(p, ok) \/ BindFails(p, ok) \/ Unpinned(p, ok) \/ Finish(p, ok)
    \/ \E status \in {"alive", "esrch", "undetermined"} : JudgeLock(p, status)
SeatStep ==
    \/ RowMoves \/ SeatWorldMoves \/ Hello \/ Disconnects
    \/ \E p \in Plugins : TurnEnds(p) \/ \E sha \in Binaries : Dial(p, sha)
    \/ \E tool \in Tools : CallTool(tool)
    \/ \E ok \in BOOLEAN : Gate(ok) \/ TurnIdentified(ok) \/ TurnServed(ok) \/ Runs(ok)
BridgeNext ==
    \/ \E p \in Plugins :
        \/ StartBridge(p) \/ BridgeStep(p) \/ StopServer(p)
        \/ \E ok \in BOOLEAN : StopIdle(p, ok) \/ Graft(p, ok)
    \/ \E p \in Plugins : Dies(Host[p])
    \/ InstallDrifts \/ SeatStep

\* Every await of start() and stop() settles: timers, file operations and the
\* close event of a server whose connections were destroyed.
BridgeFairness == \A p \in Plugins : WF_bridgeVars(BridgeStep(p))

(***************************************************************************)
(* Properties.                                                             *)
(***************************************************************************)
\* The process has a server whose handle is open.
Served(p) == at[p] \in {"binding", "bound", "serving"} /\ ~stopped[p]

\* "only we hold the lock here, so replacing it is safe" and "the only writer"
\* (desk-bridge.ts:2213, 2093): at most one instance has an open server,
\* whatever start, stop, crash and recovery do around it; it holds the lock,
\* its socket is the one at the path, and the binary it grafted into a seat is
\* still the one it pins.  (An instance that could not pin its socket's mode
\* unlinks the path without asking; only then may another's be gone.)
OneListener ==
    /\ \A p, q \in Plugins : Served(p) /\ Served(q) => p = q
    /\ \A p \in Plugins : Served(p) =>
        /\ Mine(p) /\ lockHeld[p]
        /\ sockFile = p \/ strayed
        /\ p \in grafted => installed = BridgePin[p]

\* "nothing outlives plugin cleanup" (desk-bridge.ts:2170): every start ends,
\* listening or unavailable, and a stopped instance eventually has no server,
\* no socket and no lock, unless a lock file could not be written or removed.
StopsClean ==
    []<>(\A p \in Plugins :
            /\ at[p] \in {"off", "serving", "ended", "unbound", "dead"}
            /\ stopped[p] /\ Alive(p) =>
                 /\ ~closing[p] /\ at[p] # "serving"
                 /\ sockFile # p
                 /\ p \notin stuck => ~Mine(p))

=============================================================================
