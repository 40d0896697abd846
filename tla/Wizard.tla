-------------------------------- MODULE Wizard --------------------------------
(***************************************************************************)
(* The setup wizard's door for a new agent (src/src/setup-wizard.ts) over    *)
(* the ceremony and its lease (src/src/ceremony.ts).  The pairing poll pushes*)
(* snapshots; a consumer shows the QR and then the host's words; the human   *)
(* answers prompts, and may take longer than the lease's three minutes.      *)
(*                                                                         *)
(* One action is the code between two awaits.  Every prompt may be answered  *)
(* with a cancellation, every request may fail.                              *)
(***************************************************************************)
EXTENDS Sequences, Integers

CONSTANT MaxSnapshots  \* bound: the snapshots that are queued at once

ASSUME SnapshotsAssumption == MaxSnapshots \in Nat

VARIABLES
  pc,        \* where newDoor is suspended
  lease,     \* EnrollmentLease; its signal has fired unless it is "live"
  knows,     \* lease.deviceId is set
  terminal,  \* lease.terminal
  device,    \* external: the host's device
  tried,     \* history: cancel_pairing was asked on an open connection
  lost,      \* history: the lease ended while create_device was unanswered
  poll,      \* pollPairing
  snapshots, \* of {"waiting", "words", "end"}
  consumer,  \* wordsPresented
  token,     \* external: the host's token; "lost" with the reply to the mint
  tokenKnown, \* "minted": newDoor knows of the token
  named,     \* the human was told how to revoke it
  outcome

wizardVars == <<pc, lease, knows, terminal, device, tried, lost, poll, snapshots, consumer,
          token, tokenKnown, named, outcome>>

PCs == {"lease", "name", "effect", "create", "words", "cancel", "confirm", "confirmEffect",
        "confirmWords", "terminal", "info", "mintEffect", "mint", "probe", "grant",
        "writeEffect", "outro", "note", "leaving", "over"}

WizardTypeOK ==
  /\ pc \in PCs
  /\ lease \in {"none", "live", "disposing", "gone"}
  /\ knows \in BOOLEAN /\ terminal \in BOOLEAN
  /\ device \in {"none", "asked", "pairing", "enrolled", "ended"}
  /\ tried \in BOOLEAN /\ lost \in BOOLEAN
  /\ poll \in {"off", "running", "enrolled", "revoked", "failed"}
  /\ snapshots \in Seq({"waiting", "words", "end"})
  /\ consumer \in {"off", "qr", "awake", "parked", "shows", "words", "failed"}
  /\ token \in {"none", "exists", "lost"}
  /\ tokenKnown \in BOOLEAN /\ named \in BOOLEAN
  /\ outcome \in {"none", "failed", "written"}

WizardInit ==
  /\ pc = "lease" /\ lease = "none" /\ knows = FALSE /\ terminal = FALSE
  /\ device = "none" /\ tried = FALSE /\ lost = FALSE
  /\ poll = "off" /\ snapshots = <<>> /\ consumer = "off"
  /\ token = "none" /\ tokenKnown = FALSE /\ named = FALSE /\ outcome = "none"

-----------------------------------------------------------------------------
(* The lease.                                                              *)

leaseVars  == <<lease, knows, terminal, tried, lost>>
pollVars   == <<poll, snapshots, consumer>>
tokenVars  == <<token, tokenKnown, named>>

Aborted == lease \in {"disposing", "gone"}

\* dispose, memoized: the signal fires, and the pairing is cancelled unless it is over.
Dispose ==
  /\ lease' = IF lease = "live" THEN "disposing" ELSE lease
  /\ tried' = (tried \/ (lease = "live" /\ knows /\ ~terminal))

Expire ==
  /\ lease = "live"
  /\ Dispose
  /\ UNCHANGED <<pc, knows, terminal, device, lost, pollVars, tokenVars, outcome>>

\* cancel_pairing was answered, or two seconds passed; the connection is closed.
Disposed ==
  /\ lease = "disposing"
  /\ lease' = "gone"
  /\ device' \in {device} \cup (IF tried /\ device = "pairing" THEN {"ended"} ELSE {})
  /\ UNCHANGED <<pc, knows, terminal, tried, lost, pollVars, tokenVars, outcome>>

-----------------------------------------------------------------------------
(* The poll and the consumer of its snapshots.                             *)

Push(snapshot) ==
  /\ snapshots' = Append(snapshots, snapshot)
  /\ consumer' = IF consumer = "parked" THEN "awake" ELSE consumer

\* onUpdate.
Update ==
  /\ poll = "running" /\ ~Aborted
  /\ Len(snapshots) < MaxSnapshots
  /\ \E snapshot \in {"waiting", "words"} : Push(snapshot)
  /\ UNCHANGED <<pc, leaseVars, device, poll, tokenVars, outcome>>

\* The outcomes of the poll: the phone finishes after the words were confirmed, the host
\* revokes or retires the device, or the poll fails, as it does when the lease ends.
PollOutcome ==
  \/ /\ pc \in {"confirmWords", "terminal"} /\ ~Aborted
     /\ poll' = "enrolled" /\ device' = "enrolled"
  \/ ~Aborted /\ poll' = "revoked" /\ device' = "ended"
  \/ poll' = "failed" /\ UNCHANGED device

\* Mutant of PollEnds: only a snapshot wakes the consumer.
PollEndsSilently ==
  /\ poll = "running"
  /\ PollOutcome
  /\ \/ poll' # "failed" /\ Push("end")
     \/ UNCHANGED <<snapshots, consumer>>
  /\ UNCHANGED <<pc, leaseVars, tokenVars, outcome>>

\* With or without a last snapshot.
PollEnds ==
  /\ poll = "running"
  /\ PollOutcome
  /\ \/ poll' # "failed" /\ Push("end")
     \/ /\ consumer' = IF consumer = "parked" THEN "awake" ELSE consumer
        /\ UNCHANGED snapshots
  /\ UNCHANGED <<pc, leaseVars, tokenVars, outcome>>

\* onQr, onWords: a prompt of the wizard.
Presented ==
  /\ \/ consumer = "qr" /\ consumer' \in {"awake", "failed"}
     \/ consumer = "shows" /\ consumer' \in {"words", "failed"}
  /\ UNCHANGED <<pc, leaseVars, device, poll, snapshots, tokenVars, outcome>>

\* The consumer's loop, to its next await.
Drain ==
  LET telling == {i \in DOMAIN snapshots : snapshots[i] # "waiting"}
  IN  /\ consumer = "awake"
      /\ \/ \E i \in telling :
              /\ \A j \in telling : i <= j
              /\ snapshots' = SubSeq(snapshots, i + 1, Len(snapshots))
              /\ consumer' = IF snapshots[i] = "end" THEN "failed" ELSE "shows"
         \/ /\ telling = {}
            /\ snapshots' = <<>>
            /\ consumer' = IF poll = "running" THEN "parked" ELSE "failed"
      /\ UNCHANGED <<pc, leaseVars, device, poll, tokenVars, outcome>>

-----------------------------------------------------------------------------
(* newDoor and runEnrollment.                                              *)

Goes(from, to) == pc = from /\ pc' = to

\* An error: its remedy is shown, with the label of a token newDoor knows of.
Fails ==
  /\ pc' = "note"
  /\ outcome' = "failed"
  /\ named' = (named \/ tokenKnown)

Leased ==
  /\ \/ Goes("lease", "name") /\ lease' = "live" /\ UNCHANGED outcome
     \/ Goes("lease", "over") /\ outcome' = "failed" /\ UNCHANGED lease
  /\ UNCHANGED <<knows, terminal, tried, lost, device, pollVars, tokenVars>>

\* The prompts and the checks of the authority that lead to the next await as they are.
Proceeds ==
  /\ \/ Goes("name", "effect")
     \/ Goes("confirm", "confirmEffect")
     \/ Goes("confirmEffect", "confirmWords") /\ ~Aborted
     \/ Goes("confirmWords", "terminal") /\ lease # "gone"
     \/ Goes("terminal", "info") /\ poll = "enrolled"
     \/ Goes("info", "mintEffect") /\ lease # "gone"
     \/ Goes("mintEffect", "mint") /\ ~Aborted
     \/ Goes("grant", "writeEffect")
     \/ Goes("writeEffect", "outro")
  /\ UNCHANGED <<leaseVars, device, pollVars, tokenVars, outcome>>

\* What may fail without a trace on the host: a prompt is cancelled, the authority is
\* gone, the signal has fired, a request is refused, the poll did not end enrolled.
Breaks ==
  /\ pc \in PCs \ {"lease", "create", "words", "cancel", "note", "leaving", "over"}
  /\ pc = "terminal" => Aborted \/ poll \in {"revoked", "failed"}
  /\ Fails
  /\ UNCHANGED <<leaseVars, device, pollVars, token, tokenKnown>>

CreateAsked ==
  /\ Goes("effect", "create") /\ ~Aborted
  /\ device' = "asked"
  /\ UNCHANGED <<leaseVars, pollVars, tokenVars, outcome>>

\* Mutant of Created: the lease is not told.
CreatedUntold ==
  /\ Goes("create", "words") /\ lease # "gone"
  /\ device' = "pairing"
  /\ lost' = Aborted
  /\ poll' = "running" /\ consumer' = "qr"
  /\ UNCHANGED <<lease, knows, terminal, tried, snapshots, tokenVars, outcome>>

Created ==
  /\ Goes("create", "words") /\ lease # "gone"
  /\ device' = "pairing"
  /\ knows' = TRUE
  /\ lost' = Aborted
  /\ poll' = "running" /\ consumer' = "qr"
  /\ UNCHANGED <<lease, terminal, tried, snapshots, tokenVars, outcome>>

\* Refused, or the answer is lost with the connection.
NotCreated ==
  /\ pc = "create"
  /\ Fails
  /\ \/ device' = "none" /\ UNCHANGED lost
     \/ device' = "pairing" /\ lost' = TRUE
  /\ UNCHANGED <<lease, knows, terminal, tried, pollVars, token, tokenKnown>>

WordsShown ==
  /\ Goes("words", "confirm") /\ consumer = "words"
  /\ UNCHANGED <<leaseVars, device, pollVars, tokenVars, outcome>>

\* No words, or the human's No: the pairing is cancelled.
CancelAsked ==
  /\ \/ Goes("words", "cancel") /\ (consumer = "failed" \/ Aborted)
     \/ Goes("confirm", "cancel")
  /\ tried' = (tried \/ lease = "live")
  /\ UNCHANGED <<lease, knows, terminal, lost, device, pollVars, tokenVars, outcome>>

CancelAnswered ==
  /\ pc = "cancel"
  /\ Fails
  /\ device' \in {device} \cup (IF lease # "gone" /\ device = "pairing" THEN {"ended"} ELSE {})
  /\ UNCHANGED <<leaseVars, pollVars, token, tokenKnown>>

\* Mutant of Minted: newDoor learns of the token when the enrollment is complete.
MintedLater ==
  /\ Goes("mint", "probe")
  /\ token' = "exists"
  /\ UNCHANGED <<leaseVars, device, pollVars, tokenKnown, named, outcome>>

\* onMinted.
Minted ==
  /\ Goes("mint", "probe")
  /\ token' = "exists" /\ tokenKnown' = TRUE
  /\ UNCHANGED <<leaseVars, device, pollVars, named, outcome>>

\* mint_lost: the reply is lost, whether or not the token exists, or the label is taken;
\* the remedy is a token of another label.
MintLost ==
  /\ pc = "mint"
  /\ Fails
  /\ token' \in {"none", "lost"}
  /\ UNCHANGED <<leaseVars, device, pollVars, tokenKnown>>

\* probeIdentity: get_self with the new token, and the human's leave to take over.
Probed ==
  /\ Goes("probe", "grant")
  /\ terminal' = TRUE /\ tokenKnown' = TRUE
  /\ UNCHANGED <<lease, knows, tried, lost, device, pollVars, token, named, outcome>>

\* The config is returned, or the note was shown: the lease is disposed of.
Leaves ==
  /\ \/ Goes("outro", "leaving") /\ outcome' = "written"
     \/ Goes("note", "leaving") /\ UNCHANGED outcome
  /\ Dispose
  /\ UNCHANGED <<knows, terminal, lost, device, pollVars, tokenVars>>

Left ==
  /\ Goes("leaving", "over") /\ lease = "gone"
  /\ UNCHANGED <<leaseVars, device, pollVars, tokenVars, outcome>>

-----------------------------------------------------------------------------
WizardNext ==
  \/ Expire \/ Disposed \/ Update \/ PollEnds \/ Presented \/ Drain
  \/ Leased \/ Proceeds \/ Breaks \/ CreateAsked \/ Created \/ NotCreated
  \/ WordsShown \/ CancelAsked \/ CancelAnswered \/ Minted \/ MintLost \/ Probed
  \/ Leaves \/ Left

WizardSpec == WizardInit /\ [][WizardNext]_wizardVars

-----------------------------------------------------------------------------
(* Properties.                                                             *)

\* No wake-up is lost: the consumer waits only while there is nothing to look at, a
\* snapshot or the end of the poll, however the two interleave with its own awaits.
NothingUnseen == consumer = "parked" => snapshots = <<>> /\ poll = "running"

\* setup-wizard.ts:107-108, 213-214: when the wizard is over, a token it was given is in
\* the returned config, or the human was told how to revoke it, and never both, whatever
\* failed since.
TokenNamed == pc = "over" /\ token = "exists" => (outcome = "written" <=> ~named)

\* A device is not left pairing: whatever ends the ceremony, and whoever else ends it at
\* the same time, its pairing was cancelled on an open connection.  (Not if the lease
\* ends, or the connection, while the device is being created: nobody knows it then.)
NotLeftPairing == pc = "over" /\ device = "pairing" => tried \/ lost
=============================================================================
