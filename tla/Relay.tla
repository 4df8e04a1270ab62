------------------------------- MODULE Relay --------------------------------
(***************************************************************************)
(* The seat's transport process, bin/slp-desk-mcp.mjs, between an MCP      *)
(* client on stdin and stdout and the desk adapter on a socket, and the    *)
(* adapter's connection handler as the relay meets it.                     *)
(*                                                                         *)
(* The client's frames are numbered in the order it writes them; what a    *)
(* frame is (a request with an id, a notification, a malformed or over-cap *)
(* line) is chosen when it is written.  A frame waits in `native` (the     *)
(* pipe and the stream's buffer), then in `carry` (the splitter), of which *)
(* the first `expired` frames were overtaken by the end of a hold, then in *)
(* `wire` (the socket's buffer), then at the desk.  A reply comes back     *)
(* through `replies` (the kernel) and `tail` (the socket splitter).        *)
(*                                                                         *)
(* The process is one thread: while a splitter has a line and was not told *)
(* to wait, nothing else runs in it (Busy).  Bytes are counted as frames.  *)
(***************************************************************************)
EXTENDS Integers, Sequences, FiniteSets, SequencesExt

CONSTANTS
    Ids,          \* the request ids the client uses, repeatedly if it likes
    MaxFrames,    \* frames the client writes
    OutCap,       \* stdout's high-water mark
    WireCap,      \* the socket's high-water mark
    MaxInFlight   \* MAX_IN_FLIGHT, the ids the relay remembers

VARIABLES
    script,       \* what each frame written so far is
    native, carry, expired, eof, ended, paused,
    mode,         \* "offline", "relay", "teardown", "unknown", "exit"
    holding,      \* input is kept unread for a while
    inFlight,     \* requests written to the socket and not answered
    wire, wireFull, desk, orphans, replies, tail, tailPaused,
    out, outFull, dead,
    answers,      \* what was written to stdout about each frame
    ran           \* how often the desk executed each frame

input == <<script, native, carry, expired, eof, ended, paused>>
session == <<mode, holding, inFlight>>
link == <<wire, wireFull, desk, orphans, replies, tail, tailPaused>>
sink == <<out, outFull, dead, answers>>
relayVars == <<input, session, link, sink, ran>>

Frames == 1..MaxFrames
ASSUME RelayAssumption == MaxFrames \in Nat

Kinds == [type : {"request"}, id : Ids] \cup {[type |-> "note"], [type |-> "bad"]}
IsRequest(f) == script[f].type = "request"
Sent == 1..Len(script)

(***************************************************************************)
(* The output: boundedWrite and writeStdout.                               *)
(***************************************************************************)
\* A line about the frame f is written to stdout: full at the high-water mark.
Say(f, verdict) ==
    /\ answers' = [answers EXCEPT ![f] = Append(@, verdict)]
    /\ out' = out + 1
    /\ outFull' = (out + 1 >= OutCap)
    /\ UNCHANGED dead
Fills == out + 1 >= OutCap

StdinBusy == mode \in {"offline", "relay"} /\ ~paused /\ carry # <<>>
TailBusy == mode \in {"relay", "teardown"} /\ ~tailPaused /\ tail # <<>>
Busy == StdinBusy \/ TailBusy
HalfClosed == mode = "relay" /\ ended /\ ~paused /\ carry = <<>>

\* The stdin side does not listen for stdout's drain.
ClientReadsUnheard ==
    /\ ~Busy /\ out > 0
    /\ out' = out - 1
    /\ LET drains == outFull /\ out = 1 IN
       /\ outFull' = (outFull /\ ~drains)
       /\ tailPaused' = (tailPaused /\ ~drains)
    /\ UNCHANGED <<input, session, wire, wireFull, desk, orphans, replies, tail, dead, answers, ran>>

\* The client takes a line.  A stream that was full and is empty drains: the
\* stdin listener runs (resumeStdin, resumeInput), then the socket's.
ClientReads ==
    /\ ~Busy /\ out > 0
    /\ out' = out - 1
    /\ LET drains == outFull /\ out = 1 IN
       /\ outFull' = (outFull /\ ~drains)
       /\ paused' = (paused /\ ~(drains /\ (mode = "relay" \/ (mode = "offline" /\ ~holding))))
       /\ tailPaused' = (tailPaused /\ ~drains)
    /\ UNCHANGED <<script, native, carry, expired, eof, ended, session, wire, wireFull, desk,
                   orphans, replies, tail, dead, answers, ran>>

\* The client is gone while output is pending: every wait is released by the
\* sink's error, and the process ends with code 1.
SinkDies ==
    /\ ~Busy /\ out > 0 /\ mode # "exit"
    /\ dead' = TRUE /\ mode' = "exit"
    /\ orphans' = orphans \cup ToSet(desk)
    /\ wire' = <<>> /\ wireFull' = FALSE /\ desk' = <<>> /\ replies' = <<>> /\ tail' = <<>>
    /\ UNCHANGED <<input, holding, inFlight, tailPaused, out, outFull, answers, ran>>

(***************************************************************************)
(* The client's side of stdin.                                             *)
(***************************************************************************)
\* The ids are numbered in the order of their first use.
Numbered(k) == k.type = "request" =>
    \A i \in Ids : i < k.id => \E f \in Sent : IsRequest(f) /\ script[f].id = i
ClientWrites(k) ==
    /\ ~eof /\ Len(script) < MaxFrames /\ Numbered(k)
    /\ script' = Append(script, k)
    /\ native' = Append(native, Len(script) + 1)
    /\ UNCHANGED <<carry, expired, eof, ended, paused, session, link, sink, ran>>

ClientCloses ==
    /\ ~eof /\ eof' = TRUE
    /\ UNCHANGED <<script, native, carry, expired, ended, paused, session, link, sink, ran>>

\* A data event brings a chunk to the splitter of the running mode.
Read(n) ==
    /\ mode \in {"offline", "relay"} /\ ~paused /\ ~Busy
    /\ n \in 1..Len(native)
    /\ carry' = carry \o SubSeq(native, 1, n)
    /\ native' = SubSeq(native, n + 1, Len(native))
    /\ UNCHANGED <<script, expired, eof, ended, paused, session, link, sink, ran>>

\* The end event, also of a paused stream.  In a session with nothing left to
\* write the socket is half-closed (HalfClosed); offline see Leave.
EndOfInput ==
    /\ mode \in {"offline", "relay"} /\ ~Busy
    /\ eof /\ native = <<>> /\ ~ended
    /\ ended' = TRUE
    /\ UNCHANGED <<script, native, carry, expired, eof, paused, session, link, sink, ran>>

(***************************************************************************)
(* Offline: dialing, holding and refusing.                                 *)
(***************************************************************************)
\* The hold budget is spent, or the first handshake is refused for good
\* (failInitial): input flows again, into typed errors.
HoldEnds ==
    /\ mode = "offline" /\ holding /\ ~Busy
    /\ holding' = FALSE
    /\ paused' = outFull
    /\ UNCHANGED <<script, native, carry, expired, eof, ended, mode, inFlight, link, sink, ran>>

\* A line that arrives offline: a request is refused, a malformed line gets
\* its error, a notification is dropped.
OfflineLine ==
    /\ mode = "offline" /\ StdinBusy
    /\ LET f == Head(carry) IN
       /\ carry' = Tail(carry) /\ expired' = IF expired > 0 THEN expired - 1 ELSE 0
       /\ IF script[f].type = "note" THEN UNCHANGED <<sink, paused>>
          ELSE /\ Say(f, IF IsRequest(f) THEN "gap" ELSE "malformed")
               /\ paused' = Fills
    /\ UNCHANGED <<script, native, eof, ended, session, link, ran>>

\* The input ended with nothing held: the relay leaves with code 0.
Leave ==
    /\ mode = "offline" /\ ended /\ carry = <<>> /\ (holding \/ ~paused)
    /\ mode' = "exit"
    /\ UNCHANGED <<input, holding, inFlight, link, sink, ran>>

\* detach: what arrived while a hold was over, in the splitter or in the
\* stream's buffer (n frames of it), stays expired.
Detach(n) ==
    IF holding THEN n = 0 /\ UNCHANGED <<carry, native, expired>>
    ELSE /\ n \in 0..Len(native)
         /\ carry' = carry \o SubSeq(native, 1, n)
         /\ native' = SubSeq(native, n + 1, Len(native))
         /\ expired' = Len(carry) + n

\* A dial succeeds and its hello is acknowledged.  Every other outcome of a
\* dial or a hello leaves the relay offline, to try again.
Acknowledged(n) ==
    /\ mode = "offline" /\ ~Busy
    /\ mode' = "relay" /\ holding' = FALSE
    /\ Detach(n)
    /\ paused' = outFull
    /\ wire' = <<>> /\ wireFull' = FALSE /\ desk' = <<>> /\ replies' = <<>> /\ tail' = <<>>
    /\ tailPaused' = FALSE
    /\ UNCHANGED <<script, eof, ended, inFlight, orphans, sink, ran>>

(***************************************************************************)
(* The session.                                                            *)
(***************************************************************************)
\* Stops the producer: `wait` is honoured also after the input ended.
Answer(f, verdict) ==
    /\ Say(f, verdict) /\ paused' = Fills
    /\ UNCHANGED <<inFlight, wire, wireFull>>

\* A frame goes to the socket, a request's id is remembered.
Forward(f) ==
    /\ inFlight' = inFlight \cup (IF IsRequest(f) THEN {f} ELSE {})
    /\ wire' = Append(wire, f)
    /\ wireFull' = (Len(wire) + 1 >= WireCap)
    /\ paused' = (Len(wire) + 1 >= WireCap)
    /\ UNCHANGED sink

Refused(f) == \/ \E g \in inFlight : script[g].id = script[f].id
              \/ Cardinality(inFlight) >= MaxInFlight

\* One line of input: malformed, expired, over the id capacity, or forwarded.
StdinLine ==
    /\ mode = "relay" /\ StdinBusy
    /\ LET f == Head(carry) IN
       /\ carry' = Tail(carry)
       /\ expired' = IF expired > 0 THEN expired - 1 ELSE 0
       /\ CASE script[f].type = "bad" -> Answer(f, "malformed")
            [] script[f].type = "note" /\ expired > 0 ->
                 UNCHANGED <<sink, paused, inFlight, wire, wireFull>>
            [] IsRequest(f) /\ (expired > 0 \/ Refused(f)) -> Answer(f, "gap")
            [] OTHER -> Forward(f)
    /\ UNCHANGED <<script, native, eof, ended, mode, holding, desk, orphans, replies,
                   tail, tailPaused, ran>>

\* The kernel takes a frame to the desk; an emptied full socket drains, and
\* resumeStdin resumes the input unless stdout is full.
Transmit ==
    /\ mode = "relay" /\ ~Busy /\ wire # <<>>
    /\ desk' = Append(desk, Head(wire)) /\ wire' = Tail(wire)
    /\ LET drains == wireFull /\ Len(wire) = 1 IN
       /\ wireFull' = (wireFull /\ ~drains)
       /\ paused' = (paused /\ ~(drains /\ ~outFull))
    /\ UNCHANGED <<script, native, carry, expired, eof, ended, session, orphans, replies, tail,
                   tailPaused, sink, ran>>

\* The adapter's handler takes one frame at a time and answers a request
\* before the next; a notification has no answer.
Dispatch ==
    /\ desk # <<>>
    /\ LET f == Head(desk) IN
       /\ desk' = Tail(desk)
       /\ ran' = [ran EXCEPT ![f] = @ + 1]
       /\ replies' = IF IsRequest(f) THEN Append(replies, f) ELSE replies
    /\ UNCHANGED <<input, session, wire, wireFull, orphans, tail, tailPaused, sink>>

\* Frames a lost connection had delivered are still worked off.
DispatchOrphan ==
    /\ \E f \in orphans : /\ \A g \in orphans : f <= g
                          /\ orphans' = orphans \ {f} /\ ran' = [ran EXCEPT ![f] = @ + 1]
    /\ UNCHANGED <<input, session, wire, wireFull, desk, replies, tail, tailPaused, sink>>

Receive ==
    /\ mode = "relay" /\ ~Busy /\ ~tailPaused /\ replies # <<>>
    /\ tail' = replies /\ replies' = <<>>
    /\ UNCHANGED <<input, session, wire, wireFull, desk, orphans, tailPaused, sink, ran>>

\* One reply goes to stdout; a full stdout stops both producers.
ReplyLine ==
    /\ TailBusy /\ ~StdinBusy
    /\ LET f == Head(tail) IN
       /\ tail' = Tail(tail)
       /\ inFlight' = inFlight \ {f}
       /\ Say(f, "result")
    /\ tailPaused' = Fills
    /\ paused' = (paused \/ (Fills /\ ~ended))
    /\ UNCHANGED <<script, native, carry, expired, eof, ended, mode, holding, wire,
                   wireFull, desk, orphans, replies, ran>>

(***************************************************************************)
(* The end of a session.                                                   *)
(***************************************************************************)
\* What the socket still held is lost, what the desk had received is not.
LinkDown ==
    /\ mode' = "teardown" /\ paused' = TRUE
    /\ orphans' = orphans \cup ToSet(desk)
    /\ wire' = <<>> /\ wireFull' = FALSE /\ desk' = <<>> /\ replies' = <<>>
    /\ UNCHANGED <<script, native, carry, expired, eof, ended, holding, inFlight, tail,
                   tailPaused, sink, ran>>
LinkLost == mode = "relay" /\ ~Busy /\ LinkDown
\* The adapter closes a connection whose other side was half-closed.
PeerCloses == HalfClosed /\ ~Busy /\ wire = <<>> /\ LinkDown

\* An input that ended with nothing held ends the process; otherwise the next
\* dial starts, with what is left of the hold.
Over(held) ==
    /\ IF ended /\ carry = <<>> THEN mode' = "exit" /\ held = FALSE /\ UNCHANGED <<holding, paused>>
       ELSE mode' = "offline" /\ holding' = held /\ paused' = (held \/ outFull)
    /\ UNCHANGED <<script, native, carry, expired, eof, ended, link, ran>>

\* The requests in flight are forgotten with the connection.
TailDrainedForgetting(held) ==
    /\ mode = "teardown" /\ tail = <<>> /\ ~tailPaused
    /\ Over(held) /\ inFlight' = {} /\ UNCHANGED sink

\* The replies the splitter holds reached stdout.
TailDrained(held) ==
    /\ mode = "teardown" /\ tail = <<>> /\ ~tailPaused
    /\ IF inFlight = {} THEN Over(held)
       ELSE /\ mode' = "unknown" /\ held = FALSE
            /\ UNCHANGED <<input, holding, link, ran>>
    /\ UNCHANGED <<inFlight, sink>>

\* Every request still in flight is answered as unknown, one at a time, each
\* after stdout drained, and none is ever sent again.
Unknown ==
    /\ mode = "unknown" /\ ~outFull
    /\ \E f \in inFlight : /\ \A g \in inFlight : f <= g
                           /\ inFlight' = inFlight \ {f} /\ Say(f, "unknown")
    /\ UNCHANGED <<input, mode, holding, link, ran>>
SessionOver(held) ==
    /\ mode = "unknown" /\ inFlight = {} /\ ~outFull
    /\ Over(held) /\ UNCHANGED <<inFlight, sink>>

\* A relay that runs, or one that was never started.
RelayInit ==
    /\ script = <<>> /\ native = <<>> /\ carry = <<>> /\ expired = 0
    /\ eof = FALSE /\ ended = FALSE /\ paused = TRUE
    /\ mode \in {"offline", "exit"} /\ holding = TRUE /\ inFlight = {}
    /\ wire = <<>> /\ wireFull = FALSE /\ desk = <<>> /\ orphans = {} /\ replies = <<>>
    /\ tail = <<>> /\ tailPaused = FALSE
    /\ out = 0 /\ outFull = FALSE /\ dead = FALSE
    /\ answers = [f \in Frames |-> <<>>] /\ ran = [f \in Frames |-> 0]

Steps == \/ OfflineLine \/ StdinLine \/ ReplyLine \/ Unknown \/ Leave
         \/ \E held \in BOOLEAN : TailDrained(held) \/ SessionOver(held)
RelayNext ==
    \/ ClientReads \/ SinkDies \/ (\E k \in Kinds : ClientWrites(k)) \/ ClientCloses
    \/ (\E n \in 1..MaxFrames : Read(n)) \/ EndOfInput
    \/ HoldEnds \/ (\E n \in 0..MaxFrames : Acknowledged(n))
    \/ Transmit \/ Dispatch \/ DispatchOrphan \/ Receive \/ LinkLost \/ PeerCloses
    \/ Steps

RelayFairness ==
    /\ WF_relayVars(ClientReads) /\ WF_relayVars(HoldEnds) /\ WF_relayVars(Steps)
    /\ WF_relayVars(Transmit) /\ WF_relayVars(Dispatch) /\ WF_relayVars(Receive) /\ WF_relayVars(PeerCloses)
    /\ SF_relayVars(\E n \in 1..MaxFrames : Read(n)) /\ SF_relayVars(EndOfInput)

(***************************************************************************)
(* Properties.                                                             *)
(***************************************************************************)
Count(f, S) == IF f \in S THEN 1 ELSE 0

\* Accepted requests are answered once and never replayed (header comment,
\* lines 26-31): through drops, holds, duplicate ids and full buffers every
\* request is in exactly one place or answered exactly once; one that was
\* refused as disconnected never reached the desk, now or later; one with a
\* result ran exactly once, none runs twice; frames keep their order; and the
\* process ends with nothing unanswered unless its own output died.
AnswersAreHonest ==
    /\ \A f \in Sent : ran[f] <= 1
    /\ \A f \in Sent : IsRequest(f) =>
        /\ Count(f, ToSet(native)) + Count(f, ToSet(carry)) + Count(f, inFlight) + Len(answers[f]) = 1
        /\ answers[f] = <<"gap">> => ran[f] = 0 /\ f \notin ToSet(wire) \cup ToSet(desk) \cup orphans
        /\ answers[f] = <<"result">> => ran[f] = 1
    /\ LET line == desk \o wire \o carry \o native IN
       \A i, j \in DOMAIN line : i < j => line[i] < line[j]
    /\ mode = "exit" /\ ~dead => native = <<>> /\ carry = <<>> /\ inFlight = {}

\* No frame waits for ever behind paused streams (lines 618 and 741): with a
\* client that reads and a desk that answers, every request is answered and
\* an input that ended ends the process, whatever is full at the time.  (The
\* client writes finitely many frames, and answers and exits are final.)
EveryRequestEnds ==
    []<>(\/ dead
         \/ /\ \A f \in Sent : IsRequest(f) => answers[f] # <<>>
            /\ eof => mode = "exit")
=============================================================================
