---------------------------- MODULE RoomContext ----------------------------
(***************************************************************************)
(* What an agent is told of one room beside the message it answers, over   *)
(* one lease: the room history (src/src/monitor/history.ts), the notes on  *)
(* files that did not go out, and the media sends that write those notes   *)
(* (src/src/outbound.ts), with the ingress loop that records, shows and    *)
(* clears both (src/src/monitor/ingress.ts).                               *)
(*                                                                         *)
(* The loop handles one event at a time and waits for its turn; replies,   *)
(* the agent's own file sends and the watchers of pending albums run       *)
(* beside it.  Both maps live as long as the lease: the next one starts as *)
(* Init does, with empty maps; messages are numbered from its watermark.   *)
(* Messages that are acked and touch neither map (dropped senders, our own  *)
(* echoes) are left out.  Of files and refusals only the number matters.    *)
(* An entry of a list is a number, given in the order of recording: a list  *)
(* is the set of its entries, oldest first.                                *)
(***************************************************************************)
EXTENDS Integers, Sequences, FiniteSets

CONSTANTS
  MaxSeq,       \* bound: messages of the room the daemon holds
  MaxDrops,     \* bound: connection losses
  MaxSends,     \* bound: media sends into the room
  MaxFiles,     \* bound: files of one reply
  Limits,       \* the values of historyLimit
  MaxNotes      \* MAX_NOTES_PER_CONVERSATION

ASSUME BoundsAssumption ==
  /\ MaxSeq \in Nat
  /\ MaxDrops \in Nat
  /\ MaxSends \in Nat
  /\ MaxFiles \in Nat \ {0}
ASSUME NotesAssumption == MaxNotes \in Nat \ {0}
ASSUME LimitsAssumption == Limits \subseteq Nat

Msgs  == 1 .. MaxSeq
Sends == 1 .. MaxSends
Counts == 0 .. MaxFiles

VARIABLES
  \* the room's messages (external)
  kind,       \* what each is: "skip": not for the agent; "turn"; "command"
  cursor,     \* the cumulative ack the host had taken at the last reconnect
  rewind,     \* where the replay of the last reconnect starts; -1: no replay due
  drops,      \* connection losses so far
  \* the loop
  limit,      \* historyLimit, resolved once per lease
  at,         \* the message it handles or handled last
  acked,      \* the highest ack sent
  loop,       \* "next", "turn" (await tracker.settled) or "halted"
  turn,       \* what the turn in hand was shown, and its outcome
  adoptedSeq, \* the watermark
  \* the two maps, at this room
  history,    \* skipped messages kept: entries, by the order of recording
  notes,      \* refusals kept, likewise
  \* the media sends
  send,
  \* history variables
  recorded,   \* the message of every entry recorded
  forgotten,  \* entries recorded before the agent last left the room
  noted,      \* how many refusals were noted
  given       \* entries and refusals that an accepted turn was shown

streamVars == <<kind, cursor, rewind, drops, limit>>
loopVars   == <<at, acked, loop, turn, adoptedSeq>>
mapVars    == <<history, recorded, forgotten>>
noteVars   == <<notes, noted>>
vars == <<streamVars, loopVars, mapVars, noteVars, send, given>>

Kinds == {"skip", "turn", "command"}
NoRewind == -1

\* What the turn of message m is shown: `entries` and `refusals` are taken out
\* of the maps as they are, and cleared only when the turn is accepted.
Shown == [entries : SUBSET Nat, refusals : SUBSET Nat, outcome : {"open", "accepted", "declined"}]
NoTurn == [entries |-> {}, refusals |-> {}, outcome |-> "declined"]

\* A media send: a reply's (createReplyMediaSender) or the agent's own (the
\* adapter's send.media), both by sendAdemuMedia.
Send ==
  [step : {"new", "text", "album", "resend", "report",
           "done",     \* returned
           "threw",    \* threw once its files were settled
           "gaveup"},  \* threw before
   via : {"reply", "tool"},
   text : {"none", "short", "long"},    \* short: fits a caption
   files : Counts,
   items : Counts,                      \* declared in the album
   refused : Counts,
   album : {"none", "queued", "pending", "failed"},
   late : {"none", "watch", "resend", "report"},  \* watchPendingSend
   said : BOOLEAN,                      \* the text went out as text
   failedToSay : BOOLEAN,               \* its best-effort resend failed
   told : Nat]                          \* refusals noted, or thrown at the tool

NewSend == [step |-> "new", via |-> "reply", text |-> "none", files |-> 0,
            items |-> 0, refused |-> 0, album |-> "none", late |-> "none",
            said |-> FALSE, failedToSay |-> FALSE, told |-> 0]

Newer(S, e) == {f \in S : f > e}

\* s.slice(-n), the newest n of a list: all of it when n is 0.
Slice(S, n) == IF n = 0 THEN S ELSE {e \in S : Cardinality(Newer(S, e)) < n}

\* At most n entries are kept.
Within(S, n) == \A e \in S : Cardinality(Newer(S, e)) < n

TypeOK ==
  /\ kind \in [Msgs -> Kinds]
  /\ cursor \in 0 .. MaxSeq
  /\ rewind \in {NoRewind} \cup 0 .. MaxSeq
  /\ drops \in 0 .. MaxDrops
  /\ limit \in Limits
  /\ at \in 0 .. MaxSeq
  /\ acked \in 0 .. MaxSeq
  /\ loop \in {"next", "turn", "halted"}
  /\ turn \in Shown
  /\ adoptedSeq \in 0 .. MaxSeq
  /\ history \subseteq 1 .. Len(recorded) /\ Within(history, limit)
  /\ recorded \in Seq(Msgs)
  /\ forgotten \in 0 .. Len(recorded)
  /\ noted \in Nat
  /\ notes \subseteq 1 .. noted /\ Within(notes, MaxNotes)
  /\ send \in [Sends -> Send]
  /\ given \in [entries : SUBSET Nat, refusals : SUBSET Nat]

Init ==
  /\ kind \in [Msgs -> Kinds]
  /\ cursor = 0
  /\ rewind = NoRewind
  /\ drops = 0
  /\ limit \in Limits
  /\ at = 0
  /\ acked = 0
  /\ loop = "next"
  /\ turn = NoTurn
  /\ adoptedSeq = 0
  /\ history = {}
  /\ recorded = <<>>
  /\ forgotten = 0
  /\ notes = {}
  /\ noted = 0
  /\ send = [i \in Sends |-> NewSend]
  /\ given = [entries |-> {}, refusals |-> {}]

Larger(a, b) == IF a >= b THEN a ELSE b

-----------------------------------------------------------------------------
(* The host and the connection (external).                                 *)

\* The connection is lost with the acks that had not arrived, and resumed: the
\* host replays from its cursor, behind what the client still holds.  Bound:
\* one replay at a time.
Reconnect ==
  /\ drops < MaxDrops
  /\ rewind = NoRewind
  /\ drops' = drops + 1
  /\ \E c \in cursor .. acked : cursor' = c /\ rewind' = c /\ acked' = c
  /\ UNCHANGED <<kind, limit, at, loop, turn, adoptedSeq, mapVars, noteVars, send, given>>

\* The events held before are taken: the replay is next.
Replay ==
  /\ loop = "next"
  /\ rewind # NoRewind
  /\ at' = rewind
  /\ rewind' = NoRewind
  /\ UNCHANGED <<kind, cursor, drops, limit, acked, loop, turn, adoptedSeq, mapVars, noteVars,
                 send, given>>

-----------------------------------------------------------------------------
(* The loop.                                                               *)

\* ack(): throws, and halts the loop, when the session is not seated.
Ack(m) ==
  \/ loop' = "next" /\ acked' = Larger(acked, m)
  \/ loop' = "halted" /\ UNCHANGED acked

\* The next message, and what handleMessage makes of it.
Takes(m, k) ==
  /\ loop = "next"
  /\ m = at + 1
  /\ m \in Msgs
  /\ m > adoptedSeq
  /\ kind[m] = k

\* The replay check: an adopted message is acked again, nothing else.
AckReplay ==
  /\ loop = "next"
  /\ at < MaxSeq
  /\ at + 1 <= adoptedSeq
  /\ at' = at + 1
  /\ Ack(at + 1)
  /\ UNCHANGED <<streamVars, turn, adoptedSeq, mapVars, noteVars, send, given>>

\* recordSkipped: a limit of 0 turns the history off.
RecordSkipped(m) ==
  IF limit = 0
    THEN UNCHANGED <<recorded, history>>
    ELSE /\ recorded' = Append(recorded, m)
         /\ history' = Slice(history \cup {Len(recorded) + 1}, limit)

\* Not for the agent, but part of the room.
Skip(m) ==
  /\ Takes(m, "skip")
  /\ at' = m
  /\ RecordSkipped(m)
  /\ Ack(m)
  /\ UNCHANGED <<streamVars, turn, adoptedSeq, forgotten, noteVars, send, given>>

\* peekRefusalNote and peekRoomHistory, for the agent's own turns only; the
\* host answers a control command.
Dispatch(m) ==
  /\ at' = m
  /\ loop' = "turn"
  /\ \/ /\ Takes(m, "turn")
        /\ turn' = [entries |-> history, refusals |-> notes, outcome |-> "open"]
     \/ /\ Takes(m, "command")
        /\ turn' = [entries |-> {}, refusals |-> {}, outcome |-> "open"]
  /\ UNCHANGED <<streamVars, acked, adoptedSeq, mapVars, noteVars, send, given>>

\* The tracker commits: the turn is adopted, or done without, or declined by core.
Commit(how) ==
  /\ loop = "turn"
  /\ turn.outcome = "open"
  /\ turn' = [turn EXCEPT !.outcome = how]
  /\ adoptedSeq' = Larger(adoptedSeq, at)
  /\ UNCHANGED <<streamVars, at, acked, loop, mapVars, noteVars, send, given>>

\* The tracker rejects: nothing is acked, the loop halts.
TurnFails ==
  /\ loop = "turn"
  /\ turn.outcome = "open"
  /\ loop' = "halted"
  /\ UNCHANGED <<streamVars, at, acked, turn, adoptedSeq, mapVars, noteVars, send, given>>

\* Mutants of Consume: everything is cleared, with what came meanwhile; the
\* turn is shown the same again.
ConsumeAll == history' = {} /\ notes' = {}
ConsumeNone == UNCHANGED <<history, notes>>

\* consume(): only what was read.
Consume ==
  /\ history' = history \ turn.entries
  /\ notes' = notes \ turn.refusals

\* The loop goes on after the turn: what it was shown is cleared unless core
\* declined it, and it is acked.
Resume ==
  /\ loop = "turn"
  /\ turn.outcome # "open"
  /\ IF turn.outcome = "declined"
       THEN UNCHANGED <<history, notes, given>>
       ELSE /\ Consume
            /\ given' = [entries |-> given.entries \cup turn.entries,
                         refusals |-> given.refusals \cup turn.refusals]
  /\ turn' = NoTurn
  /\ Ack(at)
  /\ UNCHANGED <<streamVars, at, adoptedSeq, recorded, forgotten, noted, send>>

\* Mutant of Removed: the event is handled beside the loop.
RemovedBeside ==
  /\ loop # "halted"
  /\ history # {}
  /\ history' = {}
  /\ forgotten' = Len(recorded)
  /\ UNCHANGED <<streamVars, loopVars, recorded, noteVars, send, given>>

\* removed_from_group: forgetRoomHistory.  The notes stay.
Removed ==
  /\ loop = "next"
  /\ history # {}
  /\ history' = {}
  /\ forgotten' = Len(recorded)
  /\ UNCHANGED <<streamVars, loopVars, recorded, noteVars, send, given>>

-----------------------------------------------------------------------------
(* The media sends.                                                        *)

sendOnly == <<streamVars, loopVars, mapVars, noteVars, given>>

Becomes(i, s) == send' = [send EXCEPT ![i] = s]

\* The caption of an album, when the text fits.
Captioned(s) == s.text = "short" /\ s.items > 0

\* Files that cannot be loaded, are too many, too large or of a type the host
\* does not take are refused before the send; text that is no caption goes first.
Started(v, t, n, r) ==
  LET s == [NewSend EXCEPT !.via = v, !.text = t, !.files = n, !.items = n - r, !.refused = r]
  IN  [s EXCEPT !.step = IF t # "none" /\ ~Captioned(s) THEN "text"
                         ELSE IF n > r THEN "album" ELSE "report"]

\* A send of one file by the agent itself, or of any number by a reply.
Start(i) ==
  /\ send[i].step = "new"
  /\ \E v \in {"reply", "tool"}, t \in {"none", "short", "long"}, n \in Counts \ {0} :
     \E r \in 0 .. n :
       /\ v = "tool" => n = 1
       /\ Becomes(i, Started(v, t, n, r))
  /\ UNCHANGED sendOnly

\* The text send failed, or the agent's call was aborted: the send throws, and
\* what it had refused is not reported.
GiveUp(i) ==
  /\ \/ send[i].step = "text"
     \/ send[i].step = "album" /\ send[i].via = "tool"
  /\ Becomes(i, [send[i] EXCEPT !.step = "gaveup"])
  /\ UNCHANGED sendOnly

SendText(i) ==
  /\ send[i].step = "text"
  /\ Becomes(i, [send[i] EXCEPT !.said = TRUE,
                                !.step = IF send[i].items > 0 THEN "album" ELSE "report"])
  /\ UNCHANGED sendOnly

\* The album is queued, or still pending when the wait is over: then it is
\* watched, and counts as sent.
AlbumGoesOut(i, outcome) ==
  /\ send[i].step = "album"
  /\ outcome \in {"queued", "pending"}
  /\ Becomes(i, [send[i] EXCEPT !.album = outcome, !.step = "report",
                                !.late = IF outcome = "pending" THEN "watch" ELSE "none"])
  /\ UNCHANGED sendOnly

\* Failed, cancelled, or the send threw: every file of the album is refused.
AlbumFails(i) ==
  /\ send[i].step = "album"
  /\ Becomes(i, [send[i] EXCEPT !.album = "failed", !.refused = send[i].files,
                                !.step = IF Captioned(send[i]) THEN "resend" ELSE "report"])
  /\ UNCHANGED sendOnly

\* The caption is resent as text, best effort.
Resend(i, out) ==
  /\ send[i].step = "resend"
  /\ Becomes(i, [send[i] EXCEPT !.said = out, !.failedToSay = ~out, !.step = "report"])
  /\ UNCHANGED sendOnly

\* reportRefusals: the note is set before the chat line is sent.
Note(n) ==
  /\ notes' = Slice(notes \cup noted + 1 .. noted + n, MaxNotes)
  /\ noted' = noted + n

\* A reply notes what was refused, then posts the line, which may fail; the
\* agent's own send throws the line.
Report(i) ==
  /\ send[i].step = "report"
  /\ LET s == [send[i] EXCEPT !.told = @ + send[i].refused]
     IN  IF s.refused = 0
           THEN Becomes(i, [s EXCEPT !.step = "done"]) /\ UNCHANGED noteVars
         ELSE IF s.via = "tool"
           THEN Becomes(i, [s EXCEPT !.step = "threw"]) /\ UNCHANGED noteVars
         ELSE /\ \E end \in {"done", "threw"} : Becomes(i, [s EXCEPT !.step = end])
              /\ Note(s.refused)
  /\ UNCHANGED <<streamVars, loopVars, mapVars, given>>

\* Mutant of LateOutcome: any outcome is taken for a failure.
LateAlwaysFails(i, outcome) ==
  /\ send[i].late = "watch"
  /\ outcome \in {"queued", "failed"}
  /\ Becomes(i, [send[i] EXCEPT !.album = outcome,
                                !.late = IF Captioned(send[i]) THEN "resend" ELSE "report"])
  /\ UNCHANGED sendOnly

\* watchPendingSend: the outcome of an album that was pending.
LateOutcome(i, outcome) ==
  /\ send[i].late = "watch"
  /\ outcome \in {"queued", "failed"}
  /\ Becomes(i, [send[i] EXCEPT !.album = outcome,
                                !.late = IF outcome = "queued" THEN "none"
                                         ELSE IF Captioned(send[i]) THEN "resend" ELSE "report"])
  /\ UNCHANGED sendOnly

LateResend(i, out) ==
  /\ send[i].late = "resend"
  /\ Becomes(i, [send[i] EXCEPT !.said = out, !.failedToSay = ~out, !.late = "report"])
  /\ UNCHANGED sendOnly

\* The late failure is noted for the agent whoever sent the album.
LateReport(i) ==
  /\ send[i].late = "report"
  /\ Becomes(i, [send[i] EXCEPT !.told = @ + send[i].items, !.late = "none"])
  /\ Note(send[i].items)
  /\ UNCHANGED <<streamVars, loopVars, mapVars, given>>

-----------------------------------------------------------------------------
StreamStep == Reconnect \/ Replay

LoopStep ==
  \/ AckReplay
  \/ \E m \in Msgs : Skip(m) \/ Dispatch(m)
  \/ \E how \in {"accepted", "declined"} : Commit(how)
  \/ TurnFails
  \/ Resume
  \/ Removed

SendStep(i) ==
  \/ Start(i) \/ GiveUp(i) \/ SendText(i)
  \/ \E outcome \in {"queued", "pending"} : AlbumGoesOut(i, outcome)
  \/ AlbumFails(i)
  \/ \E out \in BOOLEAN : Resend(i, out) \/ LateResend(i, out)
  \/ Report(i)
  \/ \E outcome \in {"queued", "failed"} : LateOutcome(i, outcome)
  \/ LateReport(i)

\* Bound: the sends are not followed behind the halt, when no turn will read the
\* notes any more.
Next ==
  \/ StreamStep
  \/ LoopStep
  \/ loop # "halted" /\ \E i \in Sends : SendStep(i)

Spec == Init /\ [][Next]_vars

-----------------------------------------------------------------------------
\* No skipped message is lost on the agent: every entry recorded since the
\* agent last left the room is kept for its next turn, or an accepted turn was
\* shown it, or `limit` newer ones pushed it out.
HistoryKept ==
  \A e \in forgotten + 1 .. Len(recorded) :
    e \in history \cup given.entries \/ Len(recorded) - e >= limit

\* No refusal is lost on the agent, however sends and watchers fall into the
\* turn that reads the notes: it is kept, or an accepted turn was shown it, or
\* MaxNotes newer ones pushed it out.
NotesKept ==
  \A r \in 1 .. noted :
    r \in notes \cup given.refusals \/ noted - r >= MaxNotes

\* Both maps keep what they should, and not more: a history that is switched off is
\* empty, and neither outgrows its limit.
ContextKept ==
  /\ HistoryKept
  /\ NotesKept
  /\ Within(history, limit)
  /\ Within(notes, MaxNotes)

\* What an accepted turn was shown is never shown again.
ShownOnce ==
  /\ (history \cup turn.entries) \cap given.entries = {}
  /\ (notes \cup turn.refusals) \cap given.refusals = {}

\* "The ingress loop settles each turn before reading the next event, so no
\* reservation is needed": while the agent's turn is in hand, the room's history
\* is what that turn was shown, through outages and replays.
TurnHoldsHistory == loop = "turn" /\ kind[at] = "turn" => history = turn.entries

\* Every file of a send that settled its files is accounted for: it is in an
\* album that went out or is still pending, or its refusal was noted for the
\* agent or thrown at its call, once.
FilesAccounted ==
  \A i \in Sends :
    send[i].step \in {"done", "threw"} /\ send[i].late \notin {"resend", "report"} =>
      send[i].told = IF send[i].album \in {"queued", "pending"}
                       THEN send[i].files - send[i].items ELSE send[i].files

\* A reply's text is never lost, and never out twice: a send that returned put it
\* out as text, or as the caption of an album that was not refused, or tried to
\* resend it in vain; and not both as text and as a caption.
TextOutOnce ==
  \A i \in Sends : LET s == send[i]  caption == Captioned(s) /\ s.album \in {"queued", "pending"}
    IN /\ s.step \in {"done", "threw"} /\ s.text # "none" /\ s.late # "resend" =>
            s.said \/ s.failedToSay \/ caption
       /\ ~ (s.said /\ caption)

\* What a send that settled has done is known: of its files, and of its text.
SendAccounted == FilesAccounted /\ TextOutOnce
=============================================================================
