# BeamDesk in TLA+

A specification of BeamDesk's attended remote support, translated from its source: the portal that
holds the sessions, the native hosts that act on what the portal tells them, and the operator's page. TLC checks the
modules on small instances; TLAPS proves the theorems for every instance.

## 1. The system

| Part | State it keeps | Operations | What makes it correct |
|---|---|---|---|
| **Portal** (`server.mjs`), one Node process, in memory only | sessions with their state, code digest, tokens, audit trail, transcript, counters and two timers; one-time live-event credentials; SSE subscribers; five kinds of rate window; abuse reports | create, join, view/control requests, five host actions, end, report abuse, ice-config, event-token, events, signal, chat, input; expiry and purge timers | consent is never exceeded; what is over holds nothing; a code admits one host; subscribers see what happened, in order; everything ends and is purged |
| **Linux host agent** (`linux-host-agent/src`), one task and a GStreamer pipeline | local approval, input controller, pipeline, event stream, one outstanding call | prompts SHARE and CONTROL, desktop dialogs, calls to the portal, a select loop over events and local signals | local grant and controller agree; batches are injected in order, and (not always, section 6) under the grant they were sent under; keys are let go; the agent stops when the session does (unless its stream ended without an error, section 3) |
| **Browser application** (`public/app.js`), one page per participant | current session, EventSource and its generation, viewer peer, input queue and sequence | create/join, request, approve, chat, view, capture input | it listens once and shows the current state; input is sent once, in order; a page that has left keeps nothing |
| **Windows host agent** (`windows-host-agent`) | last polled session, buttons, timer | poll, host actions, end | what it shows catches up with the session, and it leaves once that is over |
| **CoTURN** (external) | credentials valid by a signed expiry | relay | a credential does not outlive its session |

The participants meet only at the portal: HTTP requests in, one event stream per subscriber out. The
portal runs every handler to completion (no handler awaits anything), so its hard behaviours are the
orders of handlers, timers and the clock, not interleavings inside them. The agent awaits: at a
prompt, in a call, in its loop. While it waits events queue, and what it decided on may have changed
by the time it acts; calls and answers get lost; streams fail; the process is killed.

`PROJECT.json` lists the components with what is and is not modelled, and every hazard at its line.

## 2. The modules

| Module | Models |
|---|---|
| `SessionStates` | the states of a session and the table of transitions its two roles may ask for |
| `RateWindow`, `BoundedLog` | the fixed-window counters, and the push-then-splice lists |
| `Portal` | all of `server.mjs` that changes state: one action per route outcome and per timer |
| `Consent` | abstract: what attended support promises (attended, asked, granted) |
| `LinuxDesktop` | `lib.rs`: detection of the display path, the local approval boundary |
| `InputController` | a batch at either controller: stale batches, partial application, keys held and released |
| `NativeInput` | `input.rs` and `x11.rs` event by event: key and button tables, pointer and wheel arithmetic |
| `LinuxHost` | `main.rs`, the calls of `portal.rs`, `capture.rs` and `media.rs`, and one session of the portal as the agent meets it |
| `ClientSession` | one session as a client meets it that has several calls on their way |
| `Browser` | `app.js`: the operator's page from the creation of a session on |
| `WindowsHost` | `MainWindow.xaml.cs`, `PortalClient.cs` and the compatibility checks |
| `Clients` | page and window, each with its session, in scenarios |
| `MCPortal`, `MCLinuxHost`, `MCClients` | values of constants for TLC |
| `ConsentProofs`, `PortalProofs`, `SessionProofs`, `RelayProofs`, `PromiseProofs`, `LinuxHostProofs`, `HostStreamProofs`, `ClientProofs` | theorems |

**Portal.** A variable per `Map` of the process (`sessions`, `eventTokens`, the windows), `streams`
for the subscribers and the responses they hold, `turn` for what CoTURN will accept (external) and
`abuseReports`, a count. A session record keeps the fields of the code's record; the code digest is
the code; `hostToken` is whether there is one; timers are whether `expiryTimer` is armed and the
time until the purge. Time is what is left: `expiresIn = 0` is `expiresAt <= Date.now()`, and `Tick`
lets a unit pass everywhere. A request is one atomic step from `requireSession` to the response,
with every call in between: `terminateSession` is the transition, its publication, the invalidation
of credentials and windows, the closing of the subscribers and the purge timer in one action. A
step takes no time, so the two `Date.now()` that one handler may read are equal. Refused requests
that change something (they count in a window, they expire lapsed sessions, they prune credentials)
are actions of their own; those that change nothing are not. Names stand for random identifiers
and serve again once nothing refers to them. What a stream was written is kept on the stream: the
last state, the transcript, the last signal and batch numbers.

**Consent and refinement.** `Consent` knows no tokens, codes or timers. `Portal` maps its states to
it (`Attended`, `Asked`, `Grants`) and `ConsentIsKept` says that every step of every handler and
timer is a step of `Consent` or none: nothing is granted that was not asked for, control only after
the view, and the end takes everything away. The agent implements it a second time, towards the
person in front of it: `LocalConsentIsKept` (in `LinuxHost`) maps the open prompt to what is asked and the
local boundary to what is granted. Neither program reads the other's grants, so neither refinement follows
from the other.

**LinuxHost.** `at` is where the task waits: a prompt, a dialog, the call it awaits, or the loop.
`env` is what the agent can tell of its environment: the session type, the portal on the bus, and
whether `DISPLAY` is set, local and named; `Start` runs through the checks of `main` in their order.
`call` is the outstanding call; `Handle` is the portal's handler, `Lose` a request that never
arrives, and an answer may be lost after `Handle` took effect. `inbound` is the event stream as
it queues. It breaks off in two ways: `FailStream` leaves an error to be taken, which ends the loop; `CloseStream`
leaves nothing, since a stream that returns `None` only disables its branch of `select!` (`main.rs:175`), and the
`else` of `main.rs:253` is never taken while the branch of the clock is there. On Wayland, capture and control take several calls of the desktop portal, each of which may be
declined or fail (`Capture`, `Dialog`, `step`). The loop's handlers are one action each, up to their
first await; `Leave` is what follows the loop: stop the pipeline, drop the controller, end the session unless
the portal has. `RejectInput`
injects the events before the one that is not known, then drops the controller (`x11.rs:111-118`).
The pipeline is none, playing or null; it emits signals (`outbound`) and is given those
of the operator (`HandleSignal`). The portal's side is restated for one session (states, grants, stream) in the terms of
`SessionStates`. `heldGrant` is history: the number of the request for control that the controller
was granted for; batches carry the number they were sent under, which no program compares.

**NativeInput.** The four tables as written, and one operator per formula. Positions are whole
fractions of the picture and distances whole pixels, so rounding is exact integer division; the widths
of the types (`i16` coordinates, `u16` widths, one byte for a keycode) are kept, and saturating casts
saturate. What the mapper keeps is the browser's position, not the pointer's: a motion that is cut to 320 pixels
(`input.rs:141-142`) is recorded as if it had been made whole (`input.rs:66`), so `KeepsPace` has the two apart:
`pointer` is wherever the motions so far have led, `last` is what the mapper recorded. The inputs that the properties speak of are constants (`Distances`, `Coordinates`, `Widths`, and
`WHOLE`, the fractions into which a picture is divided), of which `MeasuresAssumption` says no more than the
types do.

**ClientSession, Browser, WindowsHost, Clients.** `calls` holds the calls that are on their way. The
portal's handler of one is one step (`Handled`), a call may be lost before it or its answer
after (`Lost`), and answers are dealt with in any order. In `Browser` each handler, timer callback and
continuation after an `await` is a step: `SessionRead` is `sessionView` after its `await`,
`TokenAnswered` is `subscribeToSession` after its, `StartViewer` the three stages of `startViewer`,
`FlushRemoteInput` and `InputAnswered` the two halves of the timer's callback. An `EventSource` is in `sources`
until it is closed, with whether the portal holds it and the events that wait; the variable of the page is
`eventSource`. A viewer under way keeps what it captured before its awaits (`granted`) and
whether its peer connection was closed under it. In `WindowsHost` the timer polls while earlier polls
wait, and `ApplyState` is applied in the order of the answers. `Clients` puts either client beside a
session in which the other participant does what the portal lets it do; a `scenario` holds the bounds
of one behaviour, so that one run covers all of them.

## 3. The runs

| Run | Question | Bounds |
|---|---|---|
| `life` | does anything survive the end of a session, do streams hear of it and hold the transcript, does the trail explain the state, does a code admit one host | 1 session, 1 credential, 1 text, TURN, an abuse report; session and credential live 2; trail and transcript of 2, so both overflow, the trail also with entries that are not about consent |
| `relays` | order and consent of what is relayed | 2 signals, batches 0 and 1 in any order and repeated, reopened streams, second grants |
| `lifecycle` | does everything end and get purged, codes, caps and TURN, is `Consent` implemented | 2 sessions of 1 address with a cap of 1 live session, 2 codes, timers on time, an abuse report |
| `host_control` | overlapping requests for control, lost calls and answers, partial and unknown batches, every environment; does the agent keep the promise of `Consent` to its user | 2 requests, 2 batches of a key, queue of 4, withdrawals at the browser, stream that fails or just ends, failing display |
| `host_live` | does the agent stop, is every request settled; do the two controllers agree | 3 requests, queue of 4, lost answers (no lost requests), streams that fail with an error, a fast clock, kills; 401 distances, 11 coordinates, 7 widths |
| `clients` | does the page listen once and show the current state, is input sent once and in order, do page and window learn of the end | four scenarios: 2 calls and 3 subscriptions with faults (`Updating`), 2 viewers that overlap (`Viewing`), 2 input events in batches of 1 (`Typing`), 2 overlapping polls (`Polling`) |
| `early_timer`, `turn_after_end`, `prompt_blocks`, `killed`, `stale_grant`, `no_relay` | disagreements of code and documents (section 6) | as small as shows them |

The bounds are constants: lives, windows and caps of one to two units keep every comparison of the
code between its two outcomes and each boundary (equal, one more) reached; limits are small enough
that every limiter refuses, every list overflows and every credential expires both before and after
it is used. Sessions interact only through addresses, codes and the counting of live sessions, which
is why two are enough in `lifecycle` and one elsewhere; what several credentials, addresses or
texts would add is covered by the theorems, which hold for any number of each. `life` has a TURN secret, so that `ice-config` and
abuse reports write their entries into a trail of 2 and push those of the consent out of it; it counts no reports
(`MAX_REPORTS` is 0: a report ends its session and leaves its entry all the same), which `lifecycle` does. `MAX_SIGNALS`, `MAX_REPORTS`,
`MAX_ASKS`, `MAX_BATCHES`, `MAX_INBOUND` and `MAX_OUTBOUND` bound counters and queues the code leaves
unbounded (or, for the reports, at 1000). Two requests for control are what a stale answer needs, and a queue of
four holds the events of both and a batch; three requests are what `stale_grant` and
`host_live` need. The fields of a `scenario` bound the calls, subscriptions, viewers, input events and
waiting events of a client. No run uses symmetry. In the runs of `LinuxHost` and
`Clients` deadlock is not an error: a session that is over, with an agent that has exited or a page that
is at home, has nothing left to do. The portal's runs check for it: time always passes.

**Fairness.** `Portal!FairSpec`: time passes and a due timer fires in the end (`setTimeout` of a
process that keeps serving). Nothing is assumed of participants: `EverySessionEnds` and
`EveryRecordIsPurged` hold with nobody calling the portal. `LinuxHost!FairSpec`: the portal handles a call it received, the
agent goes on after an answer, and each branch of its `select!` that is ready time and again is
taken (tokio picks among ready branches at random, hence strong fairness). `AttendedSpec` adds that the
local user answers prompts; `HostStopsAfterEnd` and `ControlRequestsAreSettled` need it, and
`prompt_blocks` shows what happens without. `Clients!FairSpec`: what a client has sent is answered or
fails, and its continuations, timers and stream events run, as in any event loop. Strong fairness is assumed twice,
for the window only: its timer ticks on (`Poll`; the bound on its calls takes turns with it), and not all of
its polls are lost. Nothing is assumed of the user of either client.

**Properties and their limits.** `ControllerNeedsGrant` is one direction only: a controller has a
grant behind it. The other does not hold: a `VIEW_ACTIVE` that queued during the prompt, from a
withdrawal at the browser, drops the controller just granted, and a lost answer of
`approve-control` leaves the portal in `CONTROL_ACTIVE` without a controller. That a batch is injected
under the grant it was sent under holds with two requests for control and fails with three, so
`InjectedUnderItsGrant` is checked to be violated. `ReleasedWhenDropped` is about drops: a killed
process makes none (`killed`), and a lost connection releases nothing. `ViewFollowsCapture` needs that the
browser page does not approve the view. In each state of an active view it asks
that the pipeline plays or that the agent has stopped it and is leaving: at its last call, or gone.
`HostStopsAfterEnd` and `ControlRequestsAreSettled` exclude a stream that ends without an error (`"closed"`): the code has no answer to it.
Such an agent hears of nothing any more, the end of the session included, and shares its screen until it is killed;
no property of it can hold, so it is listed as a hazard, and `host_control` has it for the safety properties.
`ControlRequestsAreSettled` excludes lost
requests too: the agent ignores a failed `deny-control`, and neither prompts again nor lets the operator
ask again. `PageLearnsOfTheEnd` excepts a page whose request for a credential failed: nothing tries
again, which is listed as a hazard. `InputArrivesInOrder` compares each batch with the last one
that the stream itself was written, not with the session's counter: a counter that went back to none with a grant would
let an old batch through. `PointerKeepsPace` says of a motion on Wayland that it leads the browser's way and adds to
the distance between the two pointers no more than what is cut off it. It does not say that they meet again: the code makes up for no cut.
`BothPathsScrollAlike`, `PointerKeepsPace` and
`KeyTablesAgree` are about the values of pure functions while a controller is held; the last is no
arithmetic but a check of the tables against each other. `LocalConsentIsKept` is about steps, not about the
start: where `Consent` waits for somebody to attend, the agent has its user from the beginning.

## 4. What is proved

Every safety property of the passing runs, the two refinements included, is also proved, for all constants
that meet the named assumptions of the modules (`TimesAssumption`, `LimitsAssumption`, `FaultsAssumption`, `MeasuresAssumption`,
`ScenariosAssumption` and the like: types, and bounds that are not zero). Where a theorem
needs more it says so itself. Of each liveness property the safety that it rests on is proved (below, *What
liveness rests on*).

`PortalProofs`:

* `TypeCorrect`: `Spec => []TypeOK`. `TypeOK` is inductive. It is proved variable by variable
  (`SessionsStep`, `TokensStep`, `StreamsStep`, `WindowsStep`, `CountersStep`), each with one step
  per action, from lemmas on the operators (`PushKeepsBound`, `CountedIsWindow`,
  `TerminatedKeepsRecord`, ...).
* `NothingOutlives`, `GrantsEnd`: `NothingOutlivesItsSession` and `GrantsEndWithSession` are proved
  from `Held`. Neither is inductive alone. `GET events` attaches a subscriber without looking at
  the state of the session, so that no subscriber outlives it follows only if no credential does,
  including through the purge, after which the name stands for a new session. `Held` says of each
  session that is not live that it holds nothing, and of each credential that it is of a live session
  and has no longer to live than it. `HeldStep` has one step per action; `Release`,
  `Publish` and the creation of a session each have a lemma.
* `StreamsOpenLive`: the action property `StreamsOpenOnLiveSessions`. `OnlyEventsOpen` shows that
  no other action opens a stream, and for `OpenEvents` the credential is current, hence by `Held`
  its session is live and unexpired: the check the handler leaves out.

`SessionProofs` rests on one account of what a step does to a record (`RecordStep`): a session is
created, transitions, is purged, or only notes something.

* `UniqueCodes`, `TurnEnds`, `LoadCapped`: codes among retained records, TURN credentials against
  the expiry, live sessions of an address. The last is by cardinality: `LiveFrom` gains at most the
  session just created, after the count was taken, and expiry noticed late only shrinks it (`Capped`
  adds that the set is finite).
* `TrailTells`, `OneHost`: from `Story`, on each record. `Told` says of every entry that is the last to
  tell of a state that it leads to the present one, and `Once` that a session in `CREATED` has no host
  and that `HOST_JOINED` occurs once. Both survive the dropping of old entries (`Shifted`), which
  `AuditTellsState` alone does not say.
* `StreamsCurrent`, `EndsHeard`: from `Heard`: an open stream was last written its session's state and
  transcript, and a closed one a terminal state. It is inductive only with `Held`, since changes of
  a session that is not live are not published.

`RelayProofs`: `SignalsInOrder`, `InputInOrder`, `SignalsUnderConsent` and `InputUnderConsent`, from
`Background`: the invariants above, `OneUse` (a credential that is still valid has no open stream, so a
stream is never replaced by another under the same name) and `Numbered` (no stream was written
a signal beyond the session's count, or a batch beyond its `lastInputSequence`). `SequenceGrows` says that no step
sets either counter back while the session is live, a revocation or a new grant included. `RelayStep` says what may change on a stream that stays open.

`PromiseProofs`: `KeepsItsPromise`, the refinement `Spec => ConsentIsKept`. `Means` tabulates the mapping;
every transition of `SessionStates` is a step of `Consent` (`PromiseStep`), and an action
that changes no state, or that of one session, changes the meaning of no other (`Unmoved`, `OneMoves`).

`ConsentProofs`: for `Consent`, `ControlWithView` (`ControlNeedsView`: control never
without the view, nothing without a host) and `GrantsFollowRequests` (`GrantsWereAsked`: every grant
answers a request for it). The two refinements carry them over, by instantiating the theorems with the mapping:
`PortalControlNeedsView` and `PortalGrantsWereAsked` in `PromiseProofs`, `LocalControlNeedsView` and
`LocalGrantsWereAsked` in `LinuxHostProofs`.

`LinuxHostProofs`:

* `AgentTypes`: `TypeOK`, with that the agent awaits an answer exactly when it is in a call.
* `LocalGrant`, `LocalDisplayOnly`, `KeysReleased`, `CaptureBeforeView`: from `AgentInv`, which says for each
  place where the task may wait what the local boundary (`ApprovalByPlace`), the controller
  (`ControllerByPlace`) and the pipeline (`SenderByPlace`) are. `LocalGrantMatchesController` speaks of four
  places only and is not inductive: between `approve_control` and the answer of the portal the boundary says
  "control" and there is no controller.
  `KeysReleased` assumes that nothing kills the process, `CaptureBeforeView` that the page does not
  approve the view. The view is active only while the pipeline plays, or once it has been stopped by an agent that leaves:
  `SenderStops` says that nothing else stops it, and that no agent comes back from there.
* `NoGrantOverlooked`: `ControllerNeedsGrant`, from `GrantInv`: as long as the portal's state is not
  `CONTROL_ACTIVE` and a controller is held or about to be, the withdrawal is still in the stream.
* `OrderOfBatches`: `NoStaleEnvelope`, from `SequenceInv`: the batches that wait are increasing and all
  beyond the last one injected.
* `KeepsItsPromiseLocally`: the refinement `Spec => LocalConsentIsKept`, from `AgentInv`: what the boundary
  allows at each place decides which steps may change it.
* `WheelsAgree`, `PaceIsKept`, `PointerOnScreen`: the arithmetic of both controllers for every
  integer distance, position and width. `PaceIsKept` is for a pointer anywhere, so it is the step of an induction over any
  number of motions: only cuts add to the distance, each no more than itself. From them `SameScrollOnBothPaths` (`BothPathsScrollAlike`) and
  `PointerFollows` (`PointerKeepsPace`) for every choice of `Distances`, `Coordinates` and `Widths`.
* `SameKeysOnBothPaths`: `KeyTablesAgree`. There is no constant in it: the prover goes through the tables, as TLC
  does (`TablesAreOne`).

`HostStreamProofs`, about what waits in the agent's stream, from one account of what a step makes of it
(`StreamStep`: nothing, an event written, an event taken, or the stream subscribed or failed):

* `EndsAreHeard`, `RequestsPrompt`, `RequestsAreInHand`: see below.
* `LeavesNothingLive`: what the loop takes for the end of the session is the end of this session: it leaves without
  ending the session itself only when the portal has, or when it is killed.

`ClientProofs`, for any number of calls, subscriptions, viewers and events under way:

* `ListensOnce`, `ShowsCurrent`: from `UpdatesOK`. `OneSubscription` says that there is one request of a
  token for each subscription, and that a source belongs to the last one and exists only once its token
  has been answered; `Tells` that the last event that waits at a source the portal holds is the session's state,
  and that the page shows it when none waits. Neither property says what waits, so neither is inductive.
* `BatchesInOrder`: from `DeliveryOK`: one batch at most is on its way, and the timer does not run meanwhile.
* `QuietHome`: from `ViewersOK`: once the page has left, a connection in `viewerPeer` is one whose viewer has yet to
  find out, and clears it.
* `InputLeavesInOrder`: `InputKeepsItsOrder`: the events of the batch on its way and those that wait rise, in this
  order, so that none is sent twice or overtaken. No run lists it; it says of the events
  what `BatchesArriveInOrder` says of their batches.
* `ClientTypes`: with `CallsOK` and `WindowOK` for the calls and the window.

**What liveness rests on.** The prover knows nothing of fairness and `ENABLED`, so what must happen
eventually is checked by TLC only. But each of these properties fails in the same way: a state in which nothing
is left that could bring it about. That there is no such state is an invariant, and those are proved, for every
instance:

| Checked by TLC | Proved | Which says |
|---|---|---|
| `EverySessionEnds`, `EveryRecordIsPurged` | `LifeGoesDown`, `ExpiryArmed`, `EndsStand`, `RecordsRetained` (`SessionProofs`) | the time that is left of a session and its record never grows and shrinks with every unit that passes, until a timer is due; a live session has that timer armed (but for one that came early, the exception that `early_timer` shows to be fatal); an end is final; a record is kept for its whole retention |
| `HostStopsAfterEnd` | `EndsAreHeard` (`HostStreamProofs`) | an agent in its loop whose session is over has the end, or the failure of its stream, still to take, where no stream ends without an error |
| `ControlRequestsAreSettled` | `RequestsPrompt`, `RequestsAreInHand` (`HostStreamProofs`) | a request that the agent takes prompts its user, and an agent in its loop, with its stream open, has taken no request that it left pending |
| `InputIsFlushed` | `InputStaysInHand` (`ClientProofs`) | input that waits has a timer that runs, or a batch on its way whose answer sends it |
| `PageLearnsOfTheEnd`, `WindowLearnsOfTheEnd` | `EndReachesAll` (`ClientProofs`) | a page at a session listens, is about to, or reads; no stream stays silent after the end; a window that has joined polls |

`EndsAreHeard` assumes `"closed" \notin Faults`, as the run does: after a stream that ends without an error there is
nothing to take. `RequestsAreInHand` speaks of an agent whose stream is open, and assumes `"request" \notin Faults`, as the run does for `ControlRequestsAreSettled`: a
`deny-control` that is lost leaves the request pending for good. `ExpiryArmed` has no exception when
`TIMER_SLACK = 0`. What is said of the agent in its loop is not inductive: `EndInv`, `PromptInv` and `PendingInv` say it
also of the places where it awaits something else while its stream goes on. Of the records, `LifeStep` says what any step
of any participant makes of a life; `EndStaysInReach` is inductive because it speaks of the page, its calls and the form of its
streams together, and `InputIsInHand` with `DeliveryOK`, which lets one batch only be on its way. The last step, from *there is always something to do* to *it gets done*, is the fairness of
section 3. `WindowCatchesUp` has no such core: it says that late answers are outlived, and that is fairness alone.

Only model-checked: the liveness properties themselves.

## 5. What is not modelled, and what comes next

Not modelled: HTTP and JSON parsing, headers, static files, `/healthz`, heartbeats, randomness of
identifiers, contents of messages and signals; of the page its markup, the dialogs of chat and trail,
the clipboard, and what it does with the answer and candidates of the host (no state that
another handler reads); of the window its texts; GStreamer, PipeWire, the compositor and the X server beyond
the outcomes the agent can see. The adapters of a native Windows build are not in the repository: the window is
modelled as its constructor leaves it, unable to approve. `reference-gst-webrtc-example.rs` is a
third-party example and no part of the agent. A restart of the portal forgets everything, which is
`Init`.

What is left: the host's own page (`action` and the prompts are the code of the operator's page, with
the other half of the transitions), here only the moves it may take; the dialogs of chat and trail; and a bound on
requests in a sliding window, which the fixed windows let reach twice the limit: to state it, a history of
request times would have to be added to `RateWindow`. Of the proofs, the relation between the agent's one session and
the portal's many is left: `LinuxHost` restates the portal for one session, in the terms of
`SessionStates`, and no theorem says that it is an instance of `Portal`.

## 6. Where code and documents disagree

| Run | Code | Document |
|---|---|---|
| `early_timer` | the one-shot expiry timer re-checks the clock and is not armed again (`server.mjs:262`, `:291`) | `README.md:32` |
| `turn_after_end` | nothing revokes a TURN credential (`server.mjs:398`) | `turn-reliability-notes.md:11` |
| `prompt_blocks` | the CONTROL prompt is awaited inside the event loop (`main.rs:208`) | `compatibility-matrix.md:34` |
| `killed` | keys are released only by a drop, and no signal is handled (`x11.rs:174`, `main.rs:57`) | `linux-host-agent/README.md:28` |
| `stale_grant` | a batch names no grant, and events wait in order while the agent prompts (`main.rs:206-238`, `input.rs:23-27`, `server.mjs:556-567`): a batch of a revoked grant is injected under the next | `linux-host-agent/README.md:3`, `:43` |
| `no_relay` | `ice-config` is asked before `approve-view` (`main.rs:134`, `:154`) | `turn-reliability-notes.md:12`, `:30` |
