# TLA+ models of the Ademú channel plugin

The plugin (`src/src`) connects an Ademú agent account to OpenClaw: it holds a session with the
local device host (`adc`), turns every message the host streams into a turn of OpenClaw's core, acks
the message once the turn is durably adopted, and sends the replies. This directory holds the TLA+
modules that model that program, the TLC configurations that check them on small instances, and the
theorems TLAPS proves about them.

Paths below are relative to `src/src` unless they say otherwise. "Core" is OpenClaw, "the host" is
the device host daemon, "the client" is the `AdcClient` library; all three are external and are
modelled from how the plugin uses them.

## 1. Inventory

| Part | State | Operations | Interacts with | Correct when |
|---|---|---|---|---|
| Ingress loop `monitor/ingress.ts` | `stopped`, the live trackers, the dispatches in flight, the position in the event stream | take an event, pass the barrier, replay check, gate, access, dispatch, adopt, ack, bound, halt, stop, drain | client (events, ack), store, session, tracker, core | no undecided message is ever acked, none is adopted twice, nothing is acked after a failure, every message is eventually acked |
| Adoption tracker `monitor/adoption.ts` | state, commit memo, promise, timer | core's callbacks, dispatch result, abort, close, watchdog | core, store, loop | one commit, the promise tells the truth, always decided in the end |
| Watermark store `store.ts` | one row per account | get, set (raise), reset, delete | tracker, enrollment | the watermark of a device never falls |
| Account runner `monitor/index.ts` | session, ingress, outcome, deadline, reprobe flag | attach, wait, open, run, reprobe, clean up | gateway supervisor, attacher, session, ingress, status | never two reprobes, waits end on abort, every cleanup step runs within its budget, the final status fits the outcome |
| Session `monitor/session.ts` | generation, barrier promise, members cache, memoized close | connect, identity check, first warm-up, retry, reconnected, barrier, close | client, loop, runner | the loop never passes the barrier on a superseded or failed warm-up; nothing is left open when the opening fails or is aborted |
| Reactions `monitor/reactions.ts`, `monitor/sender-gate.ts` | pending queue, stopped | admit, deliver, stop | loop, core's system events | in order, at most 20 waiting, nothing after stop |
| Room history and refusal notes `monitor/history.ts`, `outbound.ts` | entries per room | record, peek, consume, forget | loop, outbound | shown until a turn that read them is adopted, never dropped unread |
| Outbound `outbound.ts`, `tools/media.ts` | none beyond the call | send text in chunks, send media, refuse | client, notes | a reply's text is never lost behind a refused file |
| Attachment `monitor/attach.ts` | none beyond the call: the probe's connection, what was found, the wait | probe raced with a signal, version and role checks, control socket, OS service, start it and wait, re-resolution | OS, host, runner, setup | setup starts the service only where allowed and once, checks what it attaches to; no connection outlives the call; an abort ends it |
| Ceremony `ceremony.ts` | the lease (timer, connection, attachment, disposal), the snapshot queue | create, mint, probe, dispose, `runEnrollment` | host, session, tool, wizard | a lease is released on every path, a token that was given is never forgotten, no wake-up is lost, no device is left pairing |
| Setup wizard `setup-wizard.ts` | none beyond the call | the door for a new agent, the door for a pasted token | ceremony, config, the human's prompts | a token is in the config or named, whatever prompt is cancelled |
| Enrollment `tools/enroll.ts`, `enrollment-page.ts`, `enroll-config.ts` | the registry (starting, active, recent) and the state of each enrollment | start, status, the human's Yes and No, disposal | ceremony, config, page | one enrollment per conversation, one mint, a token that was given written or named, a No wins, no account overwritten |
| Configuration `config.ts`, `enroll-config.ts`, `bindings.ts`, `operator.ts` | the file: paths, owner, scope, grants, bindings | resolve and validate the host's identity, write an enrollment, grant, bind, log out, remove | enrollment, wizard, runner, people | an account stays on the host that minted its token; accepted accounts agree about the sockets; grants and routes follow the accounts |
| Access and mention `security.ts`, `monitor/content.ts` | none (pure) | resolve access, decide mention | loop, reactions | decision tables |
| Status `status.ts` | the last patch | classify an error, patch | runner | blocked and stopped stay until a new start |

What is hard: the loop, core's callbacks, the client's events and the account's life cycle
interleave at every `await`; a lease that was stopped keeps running beside its successor; the ack is
cumulative, so one wrong ack loses everything below it; connections and acks are lost and the host
replays; the process may die between the commit and the ack; promises are raced with signals that
cannot cancel them; the configuration and the machine change between the moment a door opens and the
moment it writes. The `hazards` of `PROJECT.json` list
these with their lines.

## 2. Modules

| Module | Models | Used by |
|---|---|---|
| `Delivery` | the abstract contract with the host's durable stream: messages are decided in order and the cumulative cursor covers decided messages only | refined by `Ingress` |
| `Turn` | the abstract contract of the turn a loop waits for: decided once, adopted only with its watermark, none begun after one that failed | refined by `Adoption` and by `Ingress` |
| `Ingress` | host stream, client queue and acks, the loop of every lease, its current turn, the store, the life of leases | `MCIngress`, `IngressProofs` |
| `Adoption` | one `AdoptionTracker` in full detail | `MCAdoption`, `IngressProofs` |
| `Session` | the reconnect barrier, its warm-ups and the members cache, with the loop as far as it depends on them | `MCSession`, `SessionProofs` |
| `Attach` | one attachment to the device host, for each of its three callers | extended by `Opening`; `OpeningProofs` |
| `Opening` | an attachment and the opening of a session after it | `MCOpening`, `OpeningProofs` |
| `Account` | the life of one account: attach, open, run, re-resolve, clean up, wait, return | `MCAccount`, `AccountProofs` |
| `Reactions` | the queue of reactions beside the loop | `MCReactions`, `ReactionsProofs` |
| `RoomContext` | room history, refusal notes and the media sends that write them, beside the loop | `MCRoomContext`, `RoomContextProofs` |
| `Enrollment` | enrollment from a conversation: start, lease, poll, Yes, No, config write | `MCEnrollment`, `EnrollmentProofs` |
| `Wizard` | enrollment from the setup wizard: lease, poll, queue of snapshots, prompts, mint | `MCWizard`, `SetupProofs` |
| `Config` | the configuration both doors read and write | `MCConfig`, `SetupProofs` |

In every module one action is the code between two awaits of one asynchronous function, because
JavaScript runs that without interruption; the variable that says at which `await` the function is
suspended is named `pc`, `phase`, `step`, `start` or `yes`.

### Ingress

`pc[g]` is the loop of lease `g`: `next` is `for await (... client.events())`, `barrier` is
`session.barrier()`, `gate` is `gateSender`, `access` is `resolveMessageAccess`, `adoption` is
`tracker.settled`, `bound` is the race of step 10. State is kept per lease because a stopped lease's
loop goes on running: the drain is capped at two seconds and the next lease starts on the same store.

| Code | Model |
|---|---|
| `stopped`, `halt`, `stop` | `stopped`, `Halt`, `StopLease` |
| `trackers`, `tracker.settled` | `turn[g]`: a loop waits for its one undecided turn, so at most one tracker of a lease is live |
| `inflight` | `inflight[g]`, dispatch promises by message |
| `client.ack(seq)` | `wire`, the highest ack sent, and `cursor`, the ack the host has taken; a lost connection resets `wire` |
| `client.events()` | `queue`; a reconnect streams again from the host's cursor behind what is queued |
| `store.setWatermark` | `adoptedSeq`, in `Commit` |
| outcome of gate, access and mention decision | a choice between `DropOrSkip` and `EnterAccess`/`Dispatch` |

`decided` and `adoptions` are history: a message is decided when its turn is adopted, or when the
loop concludes that no turn is due. `adoptions` counts those by leases that were not stopped.

`Contract == INSTANCE Delivery WITH stored <- stored, decided <- decided, cursor <- cursor` is the
refinement mapping: loops, trackers, queues, leases and acks under way are hidden, and every step of
`Ingress` is a step of `Delivery` on those three or leaves them alone (`ImplementsDelivery`).

Left out: frames the loop passes over without acking, the text of messages, the device id of the
watermark row (one device per model), room history and notes (module `RoomContext`).

### Adoption

The tracker alone, against an environment that calls every callback at any time, also twice and also
after the end. `adopting` does not appear as a value because `commitAdoption` never yields while it
holds. Time is the counter `quiet`, from arming the watchdog to its firing at `StallTicks`.

`Ingress` holds the trackers of its leases with the reasons folded away: `turn[g]` is what the loop of
lease `g` sees of its own. What ties the two is the contract of module `Turn`, stated for each as a
property with a refinement mapping. `KeepsPromise` says that a tracker keeps it from the dispatch on
(`Promise`); `KeepsTurns` that every lease's turns keep it, one after the other (`TurnOf(g)`). The loop
relies on nothing else of its tracker. Adoption by an older lease's tracker, which may raise the watermark
while this one waits, is a step of the contract (`AdoptedElsewhere`), since `Adoption` alone is one tracker.

### Session

Who is in a room is a version number, `version[r]`, that grows with every change. The host reports a
change only to a seated connection, so `members[r]`, the cache, may fall behind during an outage.
`stale` is the barrier's promise (`none`, `pending`, `rejected`), `generation` counts reconnects, and
`warmup[g]` is the warm-up of reconnect `g`: it reads the rooms one request at a time, so an earlier
one may outlive a later reconnect. The loop's `get` and `again` are the two `getMembers` of the sender
gate, which also write the cache. `used` is history: the version the last gate decided on and the one
its event needed. `Init` is the session just opened; module `Opening` is what comes before.

`link` is the client: `closed` by the session after a failed warm-up, `dead` when it gave up itself (a revoked
token, a displaced or rejected session: `GivesUp`). The session listens to `retry` and `reconnected` only, so
of a client that gives up it hears through its requests, and the loop through the end of the iterator. That is
why `BarrierWakes` leaves out a loop on the barrier of a client that gave up before it was back: nothing in
the code wakes it (see "Observed while modelling").

### Attach and Opening

| Code | Model |
|---|---|
| `attach` of the runtime and of setup, `resolveSessionSocket` | `role`: `runtime`, `setup`, `resolve` |
| `resolveDaemonIdentity`, as far as this code looks at it | `identity`: scope, whether paths are configured, whether the socket is the installed service's own |
| `probe`: `connectEnroll`, `daemon_info`, each raced with the signal | `pc` at `dial`, `info`; `conn` |
| the dial that settles after its race was lost, and is closed | `conn = "abandoned"`, `LateDial` |
| `#whyUnreachable` | `pc = "why"` |
| the control socket, `installed`, `beforeEffect`, `start` | `pc` at `control`, `installed`, `authority`, `starting` |
| `#sleepOrAbort`, `WAIT_POLL_MS`, `SERVICE_START_WAIT_MS` | `pc = "pause"`, one tick, `ServiceWait` |
| `openSession`: the connect, `get_self`, `refresh`, the catch's close | `step` at `connect`, `self`, `list` and `members`, `closing` |
| `onAbort` of the connect, `closeOnce` | `client`: `contained`, then `closing` |

`host` is what listens at that moment, in the seven ways the code tells apart, and comes and goes.
Time passes only in the wait for the service, which is the only part that counts it. Not every await is
raced with the signal: the control socket has a limit of a second, the authority settles by itself.
`info`, `starts` and `found` are history. `Opening` extends `Attach` as the account calls the two, one
after the other under one signal. The client reconnects by itself during the first warm-up, when nothing
listens for it (`Outage`, `Reseated`, `ChangeUnreported`). Whether it then repeats the pending request or
fails it is the client library's choice, which the repository does not state: `survives` has both, and
`OpenedFresh` is claimed for a client that fails it. With one that repeats it, the session may open on
members that changed unseen.

### Account

| Code | `phase` |
|---|---|
| `attach` | `attaching` |
| `openSession`, registration, `startIngress` | `opening` |
| `Promise.race` on the lifetimes | `running` |
| the `finally` of the lease: drain, close, release | `draining`, `closing`, `releasing` |
| `waitForAbsent` | `waiting` |
| the end of `startAccount` | `returned`, `thrown` |

Session and ingress appear as what they report. `client` is the client, `closed` by a failed warm-up or
`dead` by itself; `barrier` is the session's, in an outage, warming up or open; `parked` says that the loop has
taken an event and waits for the barrier, where neither the end of the stream nor an error of the client reaches
it (`Park`, `IngressEnds`). `Stranded` names the loop nobody will wake. Time is counted in ticks; `StopDeadline`, `ReleaseTail` and `DrainCap` keep the
order of the code, where the drain's cap is what the deadline leaves beside the tail (4.5 s, 2.5 s,
2 s: 4, 2, 2). `since` runs from the moment the deadline is
set, `budget` is what the current step of the cleanup may still take, `spent` is history. A timer
fires on its tick: the delay of a busy event loop is not modelled. The length of the wait before the
next look is abstracted. Once we called `close()` the client reports nothing more. The preflight of the
gateway's start is folded into `StartAccount`. A re-resolution of the socket is two requests
(`ProbeReads`, `ProbeAnswers`); the host answers the enrollment socket exactly while it is up.

### Reactions

`queue` is the chain of deliveries, its head at `stage` queued, asked (the lookup pending) or settled;
`pending` is the code's counter, `fate` is history. The loop takes a reaction only while the account
is not stopped, but may be stopped inside the gate. Lookups need not settle. Texts, quotes and the
deduplication of equal lines by core are left out.

### Enrollment

`start[e]` and `yes[e]` say where the tool's `start` and the page's confirm of enrollment `e` are
suspended; `lease[e]` is the `EnrollmentLease`, `entry[e]` the registry's map that holds it, `state[e]`
and `poll[e]` its fields of the same meaning. Creation, expiry, No, the poll's end, and the plugin's stop all
dispose the lease; `Disposal` is the end of that (cancel the pairing, close, release). A request may
be answered while the connection is open, and breaks when it is closed. All enrollments are for the
same account, since only then do they meet in the config. `refused` and `token` are history: a No was
answered with ok; the host holds a token of the enrollment, `minted` when the plugin was given it and `lost`
when the reply did not arrive. `told` says that the answer to the Yes names the token for revocation, which the
code keeps in `failureMessage`. `TokenAccounted` is about tokens the plugin was given: it is written exactly if it
is not named, so that nobody revokes a token in use. What `mint_lost` answers names no token (see "Observed
while modelling").

Abstracted: the requests of `start` have time limits shorter than the lease's three minutes, so the
lease does not expire under `createDevice`; the write either keeps its result or throws without it.
Left out: the cap of sixteen finished enrollments, rate limits, reopening the page, who may ask for a
status. The wizard's ceremony is module `Wizard`, the write itself module `Config`.

### Wizard

`pc` is where `newDoor` is suspended, from the lease over every prompt, check of the authority and request
to the returned config; `Proceeds` and `Breaks` are the awaits that change nothing else. `lease`,
`knows` (its device id) and `terminal` are the lease, `poll` and `snapshots` the poll and its queue,
`consumer` the loop that shows the QR and the words: `parked` waits on the promise that the next snapshot
or the end of the poll resolves, `awake` looks at the queue. A prompt may take longer than the lease. A
request may be answered until the connection is closed, or break. `tokenKnown` is what
`onMinted` told `newDoor`; a `token` that is `lost` is one it was never told of. Left out: the door for a pasted token, the texts.

### Config

| Code | Model |
|---|---|
| the file, and the paths an account names or inherits | `block`, `keys`, `owner`, `scope`, `grants`, `rows` |
| `resolveDaemonIdentity` | the operator of that name: explicit paths, else the recorded scope, else what is installed |
| `validateDaemonIdentities` | `Error`: each enrollment socket in one role, one of each kind per data dir |
| `inspectAdemuAccountForEnrollment` | `DoorOpens`; `dials` is the identity the ceremony uses from then on |
| `applyEnrollment`, `applyRouteBinding`, `pruneOwnerAllowFrom`, `pruneRouteBindings` | the operators of those names and `Delete` |
| the tool's `mutateConfigFile`, the wizard's returned config | `ToolWrites`, `WizardWrites` |
| `logoutAccount`, `deleteAccount` | `Logout`, `Delete` |

Bindings are a sequence; `filter` is `RowsAt`, the rows at a set of positions in their order, so that it
can be reasoned about.

A socket is named by the data dir whose layout has it and by its role there; paths are canonical, so two
spellings of one path are one value. People edit the file (`PathsEdited`, `WrittenByHand`) and a system
install comes or goes (`InstallChanges`) at any time. Every write is the mutation of the file that is
current then; the wizard in fact returns a config built on the one it was given, so an edit that it would
undo is not followed. `minted` is history: the identity a token is from, forgotten when the paths of its
account are edited, since the token then belongs to whatever the person meant.

### RoomContext

| Code | Model |
|---|---|
| `roomHistory`, `refusalNotes` at one conversation | `history`, `notes`: sets of entries, each numbered in the order it was recorded |
| `recordSkipped`, `reportRefusals`'s `notes.set` | `RecordSkipped`, `Note`; both end in `Slice`, which keeps all when the limit is 0, as `slice(-0)` does |
| `peekRoomHistory`, `peekRefusalNote` and their `consume()` | the two sets of `turn`, taken in `Dispatch`; `Consume` |
| `forgetRoomHistory` | `Removed` |
| `sendAdemuMedia` at its awaits | `send[i].step`: `text`, `album`, `resend`, then the report of its caller (`createReplyMediaSender`, the adapter's `send.media`) |
| `watchPendingSend` | `send[i].late` |

`recorded`, `noted`, `forgotten` and `given` are history: what was ever recorded or refused, and what
an accepted turn was shown. The life of a lease is one behaviour, since both maps are made anew by
`startAccount`. Assumed: an error of `sendMedia` means that the album does not go out; a reconnect
replays from the host's cursor, and the events the client still held are taken before the replay;
sends are not followed behind the halt, when no turn of this lease reads the notes. A host without the
media advert makes the call throw before it does anything and is left out. A reply whose text send
throws leaves its refusals untold, and a reply whose refusal line fails throws although its album went
out (`outbound.ts:516-517`): the properties speak of sends that settled their files (`done`, `threw`).
A lost wait (`media_send_wait_lost`) is a watch that never ends.

## 3. Runs

| Run | Instance | Shows |
|---|---|---|
| `adoption` | interval of 3 ticks, 4 heartbeats | the tracker commits once, its promise tells the truth, and its watchdog errs to neither side: it gives up only on silence and never leaves the loop waiting; the interval is long enough to be restarted half way and to expire afterwards |
| `ingress` | 4 messages, one passive and one an echo, 2 leases, 2 lost connections, bound of 1 | the safety properties of `Ingress`, the refinement of `Delivery` and `EverythingAcked`; one turn may be decided, fail or be deferred with another behind it, which then meets the bound, and messages that need no turn are acked between them |
| `ingress_stop` | 1 message, 2 leases | first finding |
| `session` | 2 rooms that change once each, 2 reconnects, a queue of 1 | two warm-ups overtake each other; a room changes before, during or after either; one room is cached while the other is not; an outage ends, lasts for ever or ends with the client |
| `opening` | the three callers, every kind of host and service, a host that comes or goes 3 times, a wait of 3 polls, 2 rooms | the probe succeeds, is refused, hangs or answers late before, in and after the wait; the opening is aborted, fails or loses its connection at every await |
| `account` | 2 socket paths, deadline 4, tail 2, drain 2, re-resolution every 2nd attempt | every step of the cleanup uses its whole budget or ends early, the session opens late, a second re-resolution falls due while one is under way; the client gives up before, in and after an outage, with the loop parked or not |
| `reactions` | 4 reactions, a cap of 2 | one is delivered, two fill the cap and one is refused, in all modes |
| `enrollment` | 2 enrollments, of one conversation or two | Yes, No, expiry and stop at every await; both write, or the second starts while the first is being disposed. Exchanging the conversations changes nothing, so the first enrollment is of the first one (`MCSpec`) |
| `enrollment_cancelled` | 1 enrollment | second finding |
| `wizard` | a queue of up to 3 snapshots | the poll ends before, while and after the consumer presents; the lease expires, a prompt is cancelled or a request fails at every await |
| `config` | 2 accounts, owners and agents, 3 data dirs, 4 sets of configured paths, 3 doors, 2 edits | a system install comes between a door and its write, or an account inherits a path afterwards; one account is enrolled twice, for one owner or two, logged out, removed and routed, beside a foreign route, a row that is no route and a route written by hand. The two owners are alike, so they are swapped by `SYMMETRY` |
| `room` | 3 messages of every mix of kinds, 1 reconnect, a send of up to 3 files, 2 notes kept, history off or of 1 entry | a message pushes another out of the history, a turn reads it, the replay comes before or behind it; one send refuses more than is kept, early, at its outcome or late, in every step of the loop |

Some properties are the conjunction of two named ones, since either alone is kept by a program that does
nothing: `WatchdogErrsToNeitherSide` (`GivesUpOnlyOnSilence`, `EventuallySettled`), `AdoptedForGood`
(`AdoptionDurable`, `AdoptedOnce`), `BarrierKeepsFresh` (open for the latest warm-up only; members as
fresh as the event), `StatusTellsTruth` (`StatusTruthful`, `StoppedIsLast`), `RunEndsWhenItMust`
(`AbortEnds`, `MovedEnds`, `ClientEnds`), `NothingHeldUp` (`LoopGoesOn`, `NoneForgotten`), `ContextKept`, `SendAccounted`,
`NothingLeftOpen` and `EndsAnyhow` likewise.

The type invariants are no properties of runs. Those of `Adoption`, `Ingress`, `Session`, `Account`,
`Reactions`, `Enrollment`, `RoomContext`, `Attach`, `Opening`, `Wizard` and `Config` are proved for every value
of the constants; `Delivery` and `Turn` are abstract.

`CHECK_DEADLOCK FALSE` where the system rests: messages and bounds used up, an account returned, an
enrollment over, a session opened, a configuration nobody edits any more. The `adoption` run checks
deadlock: core may call at any time. The `account` run does not, an account that was stopped stays so.

Bounds: `MaxSeq` messages or reactions, `MaxLease` starts, `MaxDrops` lost connections, `MaxArms`
heartbeats, `MaxVersion` changes per room, `MaxRetries` reconnects, `MaxQueue` events, the set
`Enrollments`, `MaxSends` media sends, `MaxFiles` files of each, `MaxChanges` comings and goings of the
host, `MaxSnapshots` queued snapshots, `MaxEdits` edits, `MaxDoors` doors. `ServiceWait` is a constant of
the code, scaled down from eighty polls: three are enough for a probe that finds nothing, one whose answer is
late and one that the budget cuts off. A failure that ends a running lease is allowed only while another
lease is left (`MayFail`), so that `EverythingAcked` is not refuted by running out of leases; safety does
not depend on it.

Fairness. `Adoption`: the clock ticks and an expired timer fires; nothing is assumed of core.
`Ingress`: the host streams and takes acks on an open connection and the client reconnects
(`reconnect: "auto"`); the event loop runs every loop that can move; core answers a turn and settles
a dispatch promise (`WF(Core(g))`) - the watchdog of module `Adoption` gives the first half of that,
the second is an assumption about core; the client does not give up while it is retrying and a loop waits on the
barrier (`Session` and `Account` have that case: without an abort, that lease never ends); a halted lease is cleaned up and started again (the
supervisor re-runs an account whose start rejects). Nothing is assumed of failures.
`Session`: the requests of a warm-up are answered or rejected, and nothing else: an outage may last for ever,
the client may give up at any time, and the loop may stop.
`Opening`: the clock, what a fired signal does, and the two awaits of `Attach` that have a time limit of
their own; a dial, `daemon_info`, the OS, the connect, a request or a close may stay pending for ever.
`Account`: timers fire, a client that has not given up goes on retrying, a re-resolution settles (its requests
time out), the warm-up of a client that gave up settles, its requests being rejected, a loop that is not parked ends
with the stream of a client that is closed or gave up, attaching and opening end on an abort; nothing is assumed of
the cleanup's steps, which may hang, nor of a warm-up on a live client, nor of a parked loop. That attaching and
opening end is what `EndsAnyhow` of module `Opening` checks.
`Reactions`: the loop runs, and the chain goes on once a lookup has settled; that lookups settle is
a premise of `NoneForgotten` only. `Enrollment`: requests are answered or time out, disposals end
(each of their steps has a time limit), and the lease's timer fires; nothing is assumed of the phone,
the human, or the poll. `RoomContext`, `Wizard` and `Config` have no liveness: a prompt may wait for its
human, and the configuration for its people.

Findings.

- `ingress_stop`: `stop()` closes the trackers that exist. A loop that is inside `gateSender` or
  `resolveMessageAccess` at that moment looks at `stopped` only after the message is dealt with, so it
  creates and dispatches a tracker nobody closes; a late `onAdopted` then commits for a stopped lease.
  `monitor/ingress.ts:409-411` and `monitor/adoption.ts:11-13` say that such a call must throw. The
  message is not lost and not run twice by running leases (`AdoptedForGood`), it is adopted by a lease
  that cannot ack it.
- `enrollment_cancelled`: the reply to `confirm_words` sets the state "confirmed" over the "cancelled"
  of a No that came meanwhile; the enrollment is over, but reported as expired.

Observed while modelling, with the places that say otherwise; the models contain each of them, and the
properties are stated so as not to deny it.

- `monitor/session.ts:236-275`, `monitor/ingress.ts:442`: the barrier's promise is settled by a warm-up, and a
  warm-up begins with `reconnected`. A client that gives up while it is still retrying (`status.ts:78-86`) never
  fires it. A loop that has taken an event by then waits for the promise for ever, the race of
  `monitor/index.ts:280-284` has nothing to decide, and retries that would notice a moved host stop: the account
  stays `recovering` until it is aborted. `docs/design/2026-09-openclaw-ademu-1.md:512-513` says that terminal client
  errors surfacing from the event iterator "end the account as `blocked`", its lines 537-538 that the rejection
  wakes a parked loop "instead of leaving the account deadlocked", and `README.md:285-287` that "`recovering` means
  the plugin is retrying by itself" (all below `src/`). An idle loop sees the error and blocks the account; it takes
  an event still queued from before the outage to strand it. `Stranded` in `RunEndsWhenItMust` and `dead` in
  `BarrierWakes` leave out exactly this: with `Stranded` taken out of `ClientEnds`, TLC shows the behaviour.
- `tools/enroll.ts:718-719`, `setup-wizard.ts:273`: a mint whose reply is lost may have made a token. The answer
  `mint_lost` (`i18n/strings.ts:210`) asks for a fresh one under another label, but neither names the token that may exist nor
  asks for its revocation, as every other failure after the mint does. `token = "lost"` is that state.
- `monitor/index.ts:199`, `monitor/attach.ts:474`: a re-resolution the host does not answer yields the
  identity's own path, and a lease on another path is ended as moved though the host listens nowhere.
- `monitor/index.ts:208`: a reconnect during the drain patches "ready" over the blocked status of an account
  that then ends (`status.ts:2-3` calls blocked sticky).
- `monitor/ingress.ts:267`: a skipped message is acked but raises no watermark. If the connection is lost
  with that ack, the replay records it a second time, where `docs/design/2026-09-openclaw-ademu-1.md:954`
  (below `src/`) says the daemon never replays it. The agent reads a line twice; nothing is lost.
- `config.ts:567`: an account that is enrolled again for another owner leaves the former one's grant, which
  no later logout takes back (`README.md:270-272`, below `src/`, speaks of removal and logout only).
- `ceremony.ts`: the lease learns that the device is enrolled only after the mint and the probe, so a
  failure between asks the host to cancel the pairing of an enrolled device.
- `ceremony.ts`: a lease that expires while the device is being created leaves a pairing nobody knows
  (`lost` in `NotLeftPairing`).

## 4. Proofs

`IngressProofs`, for every number of messages, leases, losses and runs:

1. `TypeCorrect`.
2. `DeliveryInductive`: `DeliveryInv` is inductive. `AckOnlyDecided` alone is not: that the message a
   loop is about to ack closes the prefix of decided messages depends on the loop having met its
   predecessors, hence on the order of the queue (`StreamInOrder`), which replays disturb and which a
   reconnect cuts and resumes. `Follows` says of each queued message that its predecessor is decided,
   in the loop's hands, or ahead of it in the queue.
3. `AckSafety`, `ReplaySafety` follow; so does `Implementation`: each step stores, decides the first
   open messages, moves the cursor within the decided prefix, or stutters.
4. `OnceInductive` rests on that only the current lease runs (`OneRunning`) and that a loop past the
   replay check holds a message never adopted (`FreshAhead`); `AdoptsForGood` follows.
5. `KeepsBound`: a loop that is on its way to a dispatch has left the bound, or never met it
   (`RoomAhead`); a stopped loop skips the bound, but then goes no further than the next event.
6. `HaltsAcks`: a turn that failed is the one its loop still waits for, or the loop has ended
   (`FailedHere`); both `stop` and the crash keep that because only a loop that waits has a live turn.
7. `WatermarkGrows`.
8. `ReliesOnTurns`: `KeepsTurns`, the refinement of `Turn` by every lease. A step of another lease may raise
   the watermark, which is `AdoptedElsewhere` and no more; a turn that failed is left for the end of the
   loop only. Both need that a turn is live only while its loop waits for it (`HandledInOrder`).

About the tracker, in the same module, for every interval and number of heartbeats: `OneStory` is
inductive. The properties need it because none of them mentions all of the state: that the store was
written once follows from the memo, the promise and the state telling the same story. `PromiseKept` is
`KeepsPromise`, the refinement of `Turn` by the tracker. `SparesTheLiving` is the half of
`WatchdogErrsToNeitherSide` that is a safety property: the tracker gives up only on silence.
`StaysDecided` and `Watched` are proved beyond what the run checks.

`SessionProofs`, for every number of rooms, changes, reconnects and queued events: `SessionInv` is
inductive. `MembersFresh` looks at one lookup; that it is fresh depends on the cache being good enough
for every event still in the queue unless a reported change lies ahead of it (`Sound`), behind the
closed barrier on what the latest warm-up has read so far, and on the barrier opening for the latest
warm-up only (`BarrierInv`). `StaysFresh` is both halves of `BarrierKeepsFresh`.

`OpeningProofs`, for every length of the wait, every set of rooms, every caller and every sequence of
comings and goings of the host. `AttachInv` ties each step of an attachment to who is asking, what was found
so far and whether the service was touched (`AskedInOrder`): that setup starts the service only where it
may, and once, is said by `found` and `starts`, which only remember. `AttachInductive` is proved of whatever
starts as an attachment and takes only its steps, and so holds beside an opening (`OpeningAttaches`);
`SetupChecksItsHost` and `StartsTheServiceDuly` are therefore stated for both. `WarmUpInv` ties what the client
is to the step of the opening, and what was missed to a lost connection: a client that is up belongs to a step
that will close it or to the opened session (`LeavesNothingOpen`), and what a reconnection hid is known to
have broken the warm-up (`OpensFresh`).

`AccountProofs`, for every set of paths, deadline, tail and drain cap with the tail within the
deadline: `AccountInv` adds to the properties that the cleanup's clock and the deadline's agree
(`ClockInv`), that the flag and the re-resolutions in flight agree (`FlagInv`), that no report
comes outside the run and the drain, and that a client that retries has closed the barrier (`QuietInv`).

`ReactionsProofs`, for every stream and cap: the invariant says that the counter is the length of the
queue, that the queue is in order and above the last line, and that what it holds is undecided. Beyond
the run: `StaysBounded`, `EndsWithTheAccount`, `DealtWithOnce`.

`EnrollmentProofs`, for every set of enrollments and conversations: `EnrollmentInv` says of one
enrollment how far start, lease and entry may be apart (`Staged`) and which awaits of the Yes go with
which state, account and token (`Answering`); of two of one conversation it says that one of them only
is being started, and that while it attaches the other is not live (`Alone`). `NoIsFinal` needs all of
the first two: that a No cannot come when the account is written rests on the state being
"committing" from the last guard on, which in turn rests on the poll being over by then.

`RoomContextProofs`, for every number of messages, outages, sends and files, every historyLimit and cap:
all properties of the run. Two halves make up `IInv`. `RoomInv` is the properties of the two
lists with `ShownRecorded`: a turn shows only what was recorded, without which a new entry might be
one that was shown already. That `Slice` drops an entry only behind enough newer ones is the counting
lemma `SliceDrops`. `SendInv` is a statement about one send alone: how its refused files, what was told of
them and the fate of its text go with its step and its watcher's. It is needed because the late failure and
the report of the send come in either order, and each must know what the other has told.

`SetupProofs`, about `Config`, for every finite set of accounts, every set of owners, data dirs and
configured paths, every sequence of bindings and
any number of edits and doors. `HostKept` is not inductive: what a door writes minutes later is right only
because what it resolved is what its own scope, once recorded, resolves to (`RecordedSame`), as long as
nobody edits the paths of its account (`HostInv`), and because a recorded scope makes the resolution
independent of the machine. `AgreesAboutSockets` is about any two accounts in any reachable configuration:
one value per group (`OneShared`, a surjection from the accounts of the group) makes the validation, which
counts over all of them, a statement about two. `GrantsFollowOwners` needs that only an account in the
file names an owner (`OwnedInv`), or pruning would miss one. `KeepsRoutes` is about bindings of any length:
positions are ranked (`RankGrows`), a set of positions has one enumeration in their order (`PlaceFacts`,
`PlaceUnique`), so taking rows of rows is taking rows (`RowsOfRows`). With that, pruning leaves what is no
route of the account as it was (`PrunedFacts`), and a row put between the routes and the others comes behind
all of its type (`RoutedFacts`).

`SetupProofs`, about `Wizard`, for a queue of any length. `NothingUnseen` is inductive. `TokenInv` says
that a token that was given is known from its mint on, and that a failure names what is known and the returned
config is not named; `PairingInv` says of
a device that is pairing that the lease knows it, unless its creation was cut off, and that a lease that has
ended has asked for its cancellation; and that what follows the poll is reached only when it ended enrolled.

Assumptions: the named ASSUMEs on the constants, no others.

Model-checked only: all liveness (`WatchdogErrsToNeitherSide`, `EverythingAcked`, `BarrierWakes`,
`EndsAnyhow`, `RunEndsWhenItMust`, `NothingHeldUp`, `LeaseEnds`), which is out of the prover's reach, and the
properties of the two runs that expect a violation. Every other property of a run is stated by a theorem.

## 5. Plan

Done: `Delivery`, `Turn`, `Ingress`, `Adoption`, `Session`, `Attach`, `Opening`, `Account`, `Reactions`,
`RoomContext`, `Enrollment`, `Wizard`, `Config`.

Next, in this order:

1. The two access decisions of one message (`ingress.ts:228`, `283`) on a configuration that may be
   reloaded between them, as operators over the policies.
2. The wizard's other door (a pasted token) and the bound on finished enrollments.

## 6. Not modelled

- Access and mention decisions (`security.ts`, `monitor/content.ts`): `Ingress` and `Session` treat their
  outcome as a choice. They are tables without state, which unit tests reach.
- The media read tool (`tools/media.ts`): one request, then files on disk.
- Of outbound: the registry of live accounts, receipts, chunking, target grammar, session routes.
- Of enrollment: the page's rate limits, its reopening, the cap of sixteen finished enrollments, who may ask
  for a status.
- Of the wizard: the door for a pasted token, which has neither lease nor mint, and the setup plugin's checks.
- Of the configuration: the keys no property here is about, secrets, the operator's commands, role texts.
- Of the attachment: the refusal on Windows. Of the store: schema creation, `resetWatermark` (a device
  reset), `deleteWatermark` (called by nothing).
- Rendering, fixed texts, QR codes, HTML, and the wording of anything, the texts of
  reactions included; the wiring of the channel (`index.ts`, `channel.ts`).
- The patch "starting" that an attach aborted half way leaves. An account blocked by a frame is an end of
  `Account`, not of `Ingress`, whose liveness assumes that leases are started again.
