# TLA+ models of the D2KIRO draft engine

D2KIRO is a copilot for Dota 2 drafts. Its core is a *draft protocol kernel*
that decides what a draft is and which commands it accepts; around it are a
store of simulator sessions with bots, a live capture that follows a real game,
a legacy websocket session, a recommendation engine and a web client. This
directory holds TLA+ models of the kernel, of the simulator session built on it,
of the live session with the helper that reads the screen, and of the legacy
session with its browser tabs; the TLC instances that check them, and TLAPS
proofs.

## 1. Inventory

`apps/engine/src` is the engine, `apps/web` the client, `scripts/live` a helper
that reads the screen. PROJECT.json lists every part with its status.

| Component | State | Operations | Talks to |
|---|---|---|---|
| Ranked All Pick kernel (`draft-protocol/kernel.ts`, `rulesets/ranked-all-pick.ts`) | phase, bans, confirmed picks, the open round (open slots, sealed selections, collisions, pending collision, resolutions), status | record bans, complete bans, seal a selection, apply an authority's resolution; legality oracle; `project` | every session, by value: a command maps a state to a state |
| Captain's Mode kernel (same file, `rulesets/captains-mode.ts`) | first-pick side, step, history, bans, picks, eligibility snapshot, status | confirm side, load eligibility, act, skip a ban, auto-pick; oracle | sessions |
| Event log and replay (`kernel.ts`) | the accepted commands | append, reorder a closed batch, replay | hashes, tests, live capture |
| Session store and routes (`server/protocol-session.ts`, `server/routes/protocol-sessions.ts`) | kernel state plus position bindings, yielded rounds, registration ledger, penalty timer, owner, last access | command, yield, resolve bans, simulator authority, auto-drive, bot selection, eviction | kernel; bots (awaited); web client |
| Bots (`simulator/`) | none: seeded functions of a view | choose a hero, order positions, resolve bans | suggestion pipeline (awaited) |
| Live capture (`live/`, `routes/live-gsi.ts`, `routes/live-capture.ts`) | observed facts, remembered event ids, suppressed facts, capture health, match key, draft epoch; in the store owner, seat, side, draft | ingest envelopes, GSI updates and visual facts; Player's corrections; seat; restart; forget; rebuild; readiness gate | kernel by replay; session store; capturers over HTTP |
| Visual helper (`scripts/live/visual-capture`) | the draft it believes in, baseline, readings, last health, outbox | look, arm, read, submit, flush, re-arm on a draft boundary | live session, by posts whose answers carry the draft's phase and epoch |
| Legacy session (`draft/reducer.ts`, `server/session.ts`, `server/app.ts`) | picks and bans by sequence number, applied event ids, doubts, intent | apply event, revert, hello, set intent, evict | capturers and tabs over HTTP, tabs over a websocket |
| Draft view (`features/draft`) | the board and suggestions shown, intent, socket | post, bootstrap, receive, connect | legacy session |
| Recommendation, signals, coach, pipeline, ... | none, or immutable data | compute suggestions from a view | session routes |
| Web client hooks (`features/*-simulator`) | last snapshot, phase, session id | start, submit, drive loop, reset | session routes over HTTP |

What is hard about it:

* **Simultaneity.** A Ranked All Pick round is sealed by both sides at once and
  resolved when the last slot is filled; the order of arrival must not show.
  The rules for colliding picks change at the third collision of a round, and
  a resolution may have to stop half-way for an authority.
* **Hidden information.** What a side sealed must not show in what the other
  is shown, or told is legal.
* **State beside state.** The session keeps bindings, a ledger and a timer
  that must follow a kernel which reopens slots on its own.
* **Awaits.** Auto-drive reads the draft, awaits a bot, and applies the answer.
* **Order and loss.** Live capture sees facts late, twice or in no order; the
  helper posts again whatever was not answered; a tab's requests overtake one
  another and the suggestions it is sent may be late.
* **Two processes with one belief.** The engine recommends on a game that hides
  the other picks because the helper says it has read them all. The helper
  knows the engine's draft only by an epoch, which an engine restart resets.

For each component, what makes it correct:

* Ranked All Pick: no hero held twice; no slot lost or doubled; waits only and
  exactly when contested; the oracle tells the truth; hidden picks stay hidden.
* Captain's Mode: history, bans and picks agree; complete means full teams; the
  oracle tells the truth under any reload of eligibility.
* Log: replay gives back the draft; arrival order leaves no trace.
* Session: bindings are the own picks; the authority can always decide; no gold
  is lost for a seat nobody can fill; no stale decision; the bots hand back.
* Live capture: the draft shown is the facts, whatever their order; a removal
  by the Player sticks; positions are bound by what was said; nothing of an
  earlier draft or a forgotten history is recommended on.
* Visual helper: its "ok" never stands for a card the engine does not know.
* Legacy session: the board a tab ends up with is the store's; suggestions are
  never ahead of it; no event but a correction takes effect over what its
  sender had not seen, unless the store lost the draft in between.
* Client hooks: one drive loop at a time; a superseded one writes nothing.

The hazards behind these are listed in PROJECT.json, each at its line.

## 2. Modules

| Module | Models | Lines of state and actions to code |
|---|---|---|
| `DraftPromise` | nothing of the code: what any draft promises the ten people in it | abstract specification |
| `RankedAllPick` | `kernel.ts` and `ranked-all-pick.ts` as pure operators on a draft record | one `Accepts...` and one operator per command; `ResolveRound` is `resolveRound`; `Project` is `perspective.ts` |
| `SoundDraft` | what is true of a draft between two commands, as predicates on a draft | nothing of the code: the vocabulary of the invariants |
| `ApDraft` | the kernel driving one draft, commands from anybody at any time | `ResolvedBans`, `BansComplete`, `Submit`, `Arbitrate` are the four commands |
| `SoundDraftProofs` | lemmas: what each command of the kernel does to a sound draft | |
| `KernelLog` | the event log beside `ApDraft`, and `replayProtocolState` | the actions of `ApDraft`, each logging its command; `Replay` is a recursive function |
| `KernelProofs` | theorems about `ApDraft` and `KernelLog` | |
| `ApSimulatorSession` | session store and routes over `RankedAllPick` | one action per route; auto-drive is split at its awaits (`EnemyDecides`, `AllyDecides`, `Applies`) |
| `ApSimulatorSessionProofs` | theorems about `ApSimulatorSession` | |
| `CaptainsMode` | the Captain's Mode ruleset | one action per command |
| `CaptainsModeProofs` | theorems about `CaptainsMode` | |
| `LiveFacts` | `live-capture.ts`: observations, facts, and their replay through the kernel, as pure operators over `RankedAllPick` | `ApplyLiveObservation`, `ReplayLiveFacts`, `OwnBindings` |
| `LiveCapture` | one live session: `live-capture-registry.ts`, what `protocol-session.ts` keeps of it, the routes | one action per route or upkeep; a handler is a function of `State` |
| `LiveFactsProofs`, `LiveCaptureProofs` | theorems about the last two | |
| `VisualCapture` | the helper, its outbox and the game, composed with `LiveCapture` | the helper's loop is split where it posts: `pc` is `frame`, `flush` or `answer` |
| `VisualCaptureProofs` | theorems about `VisualCapture`, on those of `LiveCaptureProofs` | |
| `LegacyReducer` | `applyDraftEvent` as pure operators on a draft record | `Accepts`, `Effect`, `Accept` |
| `LegacyDraft` | store, handlers, websocket, tabs and network of a legacy session | one action per handler, split at the await of the suggestions (`Suggest`) |
| `LegacyDraftProofs` | theorems about the last two | |
| `MC...` | small instances for TLC | |

How they compose: `ApDraft` (through `SoundDraft`) and `ApSimulatorSession` both
EXTEND `RankedAllPick`; the first lets anybody send anything, the second sends only
what the routes send and adds what they keep. `KernelLog` EXTENDS `ApDraft`.
All three state machines of drafts implement `DraftPromise` under the mapping
in their `Promise == INSTANCE DraftPromise WITH ...`. `LiveCapture` EXTENDS
`LiveFacts`, which EXTENDS `RankedAllPick`: a live draft is built by the kernel,
command by command. `VisualCapture` EXTENDS `LiveCapture`: of its routes the
composition uses those of the helper, the game and a restart. `LegacyDraft`
EXTENDS `LegacyReducer` and touches nothing of the kernel, as in the code.

### Data abstractions

* The round object is flattened into the draft record. `null` is `0`.
* A sorted array whose order only decides a traversal is a set; where the
  traversal order matters (collisions are numbered by hero id, an authority is
  asked about the least unsettled hero) the operator uses the order on hero ids.
* `pendingCollision` is the hero; its contenders are the two entries sealed on
  it, as the code builds them.
* An eligibility snapshot is the set of its heroes; the snapshots that pass
  `eligibility.ts` are the constant `Snapshots`.
* A bot chooses any legal hero. Scores and seeds decide only which.
* `resolve-bans` records any set of at most `MaxBans` heroes.
* The timer keeps the attempt, its seats and which are confirmed. No rule of
  the session reads the clock, which is left out with the gold it costs.
* JavaScript runs a handler without interruption up to an await. A handler
  without one between its checks and its effect is one action. In production
  the bots' awaits resolve as microtasks; the model lets anything happen in them.

* Live: an envelope has an id, a source and a payload that is an observation,
  `capture_health` or `session_ended`. The patch is one constant. Health is
  kept as what the gate tells apart: `partial` is GSI's degraded capture,
  `unread` the helper's degraded capture with locked cards it could not read,
  `other` any other. Staleness is a step (`VisualGoesStale`). The epoch of a
  session's draft is bounded by `MaxEpochs`.
* Helper: a frame confirms at most one card; grace periods and heartbeats are
  choices (`Words` says which words a frame may make it say); a baseline taken
  over locked cards hides them. Envelopes, answers and the helper carry the
  draft, the cards and the life of the engine they come from, and `reported`
  keeps which game's report began the engine's draft, for the properties only. In `VisualCapture` the Player corrects nothing, the link is
  not revoked and the session is not evicted: `live_capture` covers those. What
  `transport.py` does when a post is refused for good (400, 409, 410) or the
  outbox overflows is left out, and no property speaks of it.
* Legacy: a message is a board or the number of the board its suggestions are
  about. Captain's Mode branches of the reducer cannot be reached, since
  `app.ts:340` refuses such a start with 410. A tab has one socket and one
  bootstrap at a time. `life` counts the lost entries, for the properties. The
  answer of a post also carries the draft; the draft view does not use it. A
  click on an idle board, which the engine always refuses, is left out.

## 3. Runs

| Run | Specification and bounds | Checks |
|---|---|---|
| `ap_draft` | `ApDraft`, 7 heroes, rounds of 2 and 1 slots per side, at most one ban first | the invariants of `ApDraft`, `KeepsPromise` |
| `ap_draft_hidden` | one round, no bans | *violation* of `HiddenHeroNeverShown` |
| `kernel_log` | `KernelLog`, 5 heroes, one round, one ban | `ReplayRebuilds`, `ArrivalLeavesNoTrace` |
| `ap_session` | 7 heroes, two rounds, party of two, one Ally Bot position, one driver | type, bindings, ledger, timer seats, decisions, yield, `KeepsPromise` |
| `ap_session_drivers` | 4 heroes, one round, two drivers | bindings and ledger under concurrent requests |
| `ap_session_progress` | 9 heroes, one round, one ban, fair | `BotsHandBack` |
| `ap_session_stranded` | one round | *violation* of `NeverStranded` |
| `captains_mode` | 6 heroes, 7 turns, 2 snapshots | the invariants of `CaptainsMode`, `KeepsPromise` |
| `live_capture` | `LiveCapture`, 3 heroes, two rounds of one slot per side, one ban, two positions, two accounts, 3 envelopes, 5 GSI updates, 6 manual reports, one remembered id, two drafts | `DraftShowsTheFacts`, `DeferredMeansMissing`, `BindingsWereSaid`, `RemovalSticks`, `NewDraftForgetsSeat` |
| `visual_capture` | `VisualCapture`, two drafts of one card in one slot, a queue of 3, one remembered id, one engine restart | `OkNeverOvertakes`, `StaleFactOnlyUnaware`, type |
| `visual_restart` | the same with one draft | *violation* of `OkMeansKnown` |
| `legacy_draft` | `LegacyDraft`, one tab, two heroes, rosters of one, a capturer that picks unsure and reverts late, 2 posts, 2 messages under way, 2 computations, one lost entry; the capturer may start the draft too | the invariants of `LegacyDraft`, `BlindOnlyAfterLoss`, `BoardCatchesUp` |

Why the bounds are enough. The code has rounds of two, two and one slots per
side. A round of two slots per side is where two collisions fall in one batch,
where a batch follows a reopened one and where the third and fourth collisions
of a round meet an authority; a second round is where state of an earlier one
could be mistaken for the current. Three collisions in one round burn two
heroes as bans, so five heroes reach an authority and seven reach one and go on.
In `ap_session` heroes nobody has named are interchangeable for everything but
the numbering of collisions by hero id, which `ap_draft` covers without that
reduction, so a party there names the least unnamed hero or one already held.
Captain's Mode is checked on a sequence with the features of the real one:
both actors ban and pick, one acts twice in a row, bans come between picks and
the last ban precedes the last pick; `CanonicalIsFair` evaluates the real
sequence, and the theorems hold for every sequence.

In `live_capture` the envelopes, updates and reports are chosen to contradict
each other: a hero on either side, banned and picked, the Player's hero
changing, one position stated of two heroes. Any of them may come at any time,
again, or never, and one remembered id makes every second envelope forget the
first. Two rounds are where a pick can be deferred. In `visual_capture` one card
per draft is enough for a word to overtake a fact, and the same slot in two
drafts for a fact of one to enter the other; the helper posts its queue head
first, so one remembered id answers every repeat it can make. Event ids are only
compared, so they are a symmetry set. In `legacy_draft` one tab has requests
that overtake one another, so it stands for two that look at one board; two
tabs were checked once without the lost entry (1.1 million states), and the
theorems hold for any number. The capturer may start the draft again, so that a
tab still on the old board meets a rebuilt one.

`MaxQueue`, `MaxPosts`, `MaxChannel`, `MaxWork`, `MaxRestarts`, `MaxLives` and
`MaxEpochs` are bounds of the models, in guards;
an empty list of bans, which changes nothing, is an action of `ApDraft` but not
of `KernelLog`, whose log it would only lengthen; `MAX_REMEMBERED_EVENT_IDS`,
`MAX_LIVE_BANS` and the picks per side are bounds of the code.

Deadlock is checked in `captains_mode` (an eligibility snapshot may always be
reloaded). The other systems really stop: a complete draft accepts nothing.

In the kernel's runs `MaxBans` caps the bans recorded before the first round,
and nothing else is capped: a draft is finite because heroes run out.

**Fairness.** `legacy_draft` assumes of each tab that it processes the messages
that reach it, which a browser's event loop does; `BoardCatchesUp` needs no
more. It speaks of tabs that show a board of the present entry: one evicted under
an open socket stays on screen until the next draft says something. Nothing is assumed of the network, of the suggestions or of the Player.
`ap_session_progress` assumes more. Weak fairness of a driver
says that a request, once made, comes back, and that the client asks again
until it is told to wait; weak fairness of the authority, that a pending
collision is put to the ledger, which auto-drive does first. Nothing is assumed
of the Player. That a bot finds a candidate is assumed: `chooseEnemyBotHero`
answers `null` when no hero fits its position, and the request then fails; the
instance has more heroes than a round can use up.

### Findings

* **A sealed hero is named before it is revealed.** While a third collision
  waits for its authority, `degradation.detail` (`kernel.ts:281`) names the
  hero, and `project` copies it to every viewer (`perspective.ts:101`), against
  the invariant in the header of `perspective.ts`. Run `ap_draft_hidden`.
* **A yield can strand a round.** `yieldRound` rejects a yield the Ally Bot
  cannot absorb, counting the slots open at that moment. A collision may later
  reopen a slot the Player had filled; the Ally Bot then has no position for it
  and the Player may not pick in a yielded round. Run `ap_session_stranded`;
  `StrandedOnlyByCollision` shows that this is the only way it happens.

* **A restarted engine is vouched for by a helper that does not know.** Engine
  restarts reset the epoch of the draft (`live-capture-registry.ts:671`), and
  the helper re-arms only when the epoch changes (`session.py:104`). A restart
  within a draft gives the draft the epoch it had: no pick is said again, and
  the helper's "ok" lifts the partial capture of a draft the engine has lost.
  Run `visual_restart`. With no restart the same instance satisfies
  `OkMeansKnown`.
* With two drafts there is another way to break `OkMeansKnown`, without a
  restart: `Outbox.flush` (`transport.py:126`) goes on posting after an answer
  has told of the boundary, and `discard_facts` comes only after it
  (`cli.py:244`). A pick of the ended draft may then take the place of one of
  the next. `StaleFactOnlyUnaware` shows that it happens only before the helper
  acts on the boundary, and `OkNeverOvertakes` excepts just these two ways. It is
  said of an engine that is in the draft on screen (`reported = game.draft`):
  until the game has reported the next draft, the engine still vouches for the
  one before.
* **A tab left from a lost draft writes blind.** `stale_seq` compares numbers
  (`reducer.ts:212`), and a post carries only the number after the board on
  screen (`manual-entry.ts:54`), not which draft that board was of. A restart or
  an eviction starts the numbers again at 0. If a capturer rebuilds the draft
  while a tab still shows the old, longer board (it is cut off, or was
  subscribed through an eviction), the tab's next post is past the rebuilt
  draft's number and is accepted, over heroes the tab has never been shown.
  `BlindOnlyAfterLoss` without its second disjunct is violated in 13 states of
  this very instance: the tab sees a board at 2 without heroes, the engine
  restarts, the capturer starts the draft again and picks for dire (1, 2), the
  tab posts 3 for radiant, and it is accepted. What is kept even then is that
  the draft is sound (`LegacyTypeOK`). This is no finding: nothing in the
  repository promises otherwise, and `session.ts:73-75` accepts that a restart
  loses the draft. The first disjunct, `pick_reverted`, is exempt from
  `stale_seq` by intent (SPEC.md:189-190): it corrects something past.

## 4. Proofs

`KernelProofs` proves, for every finite set of heroes, number of rounds and
capacity, from `HeroesAssumption`, `RoundsAssumption` and `CapacityAssumption`,
every property the runs check of `ApDraft`: `TypeOK`, `HeroHeldOnce`,
`SlotsConserved`, `WaitsExactlyWhenContested`, `LegalIsAccepted`,
`ContestsGiveSeats`, `SealedPicksStayHidden`, that `ApDraft` implements
`DraftPromise`, and besides that a complete draft has given every seat a hero.
`BatchNeverSplit` is proved for rounds of at most two slots per side, the code's
(2, 2, 1); it is false of larger ones.

The inductive invariant is `IInv == Sound(draft)`. None of the invariants above
is inductive alone: that a batch resolves without losing a slot needs that no
two sealed entries share one and that no side sealed a hero twice; that a
resolved batch confirms exactly one entry per contested hero needs that
authorities name one winner per hero, among those who sealed it
(`AuthorityFunctional`), which no property mentions. `Sound` adds that, and
that resolutions are empty unless a collision is pending. The proof works on
drafts, not on states, and is in `SoundDraftProofs`, which other modules use:
lemmas say what `Seal`, `NameWinner` and `Reveal` do to a sound draft, and that
`ResolveRound` of a sealed batch is sound again, case by case (`AwaitAuthority`,
`EnterRound`, `Reopen`). The refinement then follows: only `ResolveRound` and
the ban commands change bans or picks, and the lemmas about `Revealed` say each
new pick is of a free hero for an open seat of the earliest unfinished round.

`BatchNeverSplit` and `ContestsGiveSeats` count. A collision takes a slot of
either side, so a batch holds at most as many as a side has slots
(`CollisionPair`, `CollisionsFit`), and one past the second settles on a slot of
its own (`GivesSeats`); the slots confirmed in a round are therefore at least
its collisions less two, which `CountsAlways` carries along each step.

`KernelProofs` also proves both properties of `KernelLog`, from the same three
assumptions: `ReplayRebuilds` and `ArrivalLeavesNoTrace`. The inductive
invariant is `LogInv`: `IInv`; `Rebuilds`, the log replays to the draft and to
itself, and no command of it is refused on the way; and `Batched`, the open
batch is the end of the log, behind a log that replays to the draft without that
batch (`EndsIn`). `Batched` is what makes it inductive: when a batch closes, its
commands change places, and the log that replay then reads was never sent in
that order. From the draft without its batch, the commands of the batch seal one
slot each, in any order (`BatchReplays`), and whichever comes last resolves the
same batch (`BatchCloses`, `BatchReorders`). That the closing of a replayed batch
finds the log it has already is that the canonical order sorts (`CanonicalSorts`)
and depends on the set of commands only (`CanonicalForgets`). A replay is a
recursive function; since no induction theorem can be used here, facts about
its every position are proved of a least counterexample (`RunExists`,
`RunsAgree`).

`ApSimulatorSessionProofs` proves every invariant and the refinement the runs
check of `ApSimulatorSession`, for every party, set of positions, and number of
drivers, from the kernel's assumptions and `PartyAssumption`. Only
`DecisionsStayGood` assumes one driver (`Drivers = {driver}`): two may decide for
one slot, and the second is refused. The invariant is `Beside /\ Decided`. `Beside`
relates each thing the session keeps to the draft: `Sound` of the draft itself;
`Follows`, the bindings are the own seats taken; `Ledger`, each sealed entry of
the attempt in play is registered once, with ordinals below the next, and nothing
is registered for an attempt to come; `Timed`, a seat pending is open; `Absorbed`,
a yielded round without a collision leaves the Ally Bot a position per open own
slot. `Decided` says that a request that has decided names a hero. The properties
are not inductive: that the authority can decide needs the ledger to forget
nothing and to number attempts as the draft does; that a yield strands nobody
compares two cardinalities that a binding and a seal diminish together. Each
part is shown to survive a `Seal` and a `ResolveRound`, and an accepted
selection, a ban command and an authority are combinations of these.

`CaptainsModeProofs` proves `TypeOK`, `HistoryTellsAll`, `OracleExact` (offers and
acceptance agree in every state; and, from the invariant, a step adds to the bans
or to a side's picks only what was offered as such, `BookedAsOffered`),
`CompleteIsFull` (for a sequence that is not empty: of none, the draft would be
full before it is complete) and the refinement of `DraftPromise`, for every sequence of turns, from
`HeroesAssumption`, `StepsAssumption` and `SnapshotsAssumption`. `HistoryTellsAll`
with `TypeOK` and the fact that nothing is named before the side is confirmed is
inductive; the refinement uses that a step appends to the history, so that the
picks made so far are those of the longer history's prefix.

`LegacyDraftProofs` proves `LegacyTypeOK`, `BoardFollowsStore`,
`SuggestionsNeverAhead` and `BlindOnlyAfterLoss`, for every set of tabs, heroes,
corrections and capturer events and all bounds, from `ReducerAssumption` and
`LegacyAssumption`, on lemmas in its first part about what an accepted event does to a sound draft (`ReducerType`, `ReducerSound`, `AcceptedHeroes`,
`AcceptedNumbers`). The first three are not inductive together. That a
channel's last board is the store's needs that numbers along a channel never
fall within one life (`InOrder`); that no suggestion overtakes its board needs
that a connected tab has, or is being sent, a board as late as the draft
(`Reached`), that suggestions on a channel come behind a board that reaches them
(`TipsBehind`, in `InOrder`) and that no work is owed to a tab that is gone
(`WorkForConnected`). `BlindOnlyAfterLoss` says
which blind writes there are: corrections, and posts on a board of a lost entry;
about the latter it claims nothing. For a post of the present entry it needs
`RequestInv`: what a request has seen is a board the draft has only grown from,
but for reverts, as long as its number is the store's, and only the two
requests of a bootstrap carry a number of their own; `Numbered` says what a
draft's number tells of it. `Inv` joins these parts; the proof takes them one
action at a time. `Inv` was checked with TLC on the instance of `legacy_draft`
first.

`LiveCaptureProofs` proves `TypeOK`, `DraftShowsTheFacts`, `DeferredMeansMissing`,
`BindingsWereSaid`, `RemovalSticks` and `NewDraftForgetsSeat`, for every set of heroes, accounts,
envelopes, updates and reports and all bounds, from the kernel's assumptions,
`LiveBoundsAssumption` and `LiveAssumption`, and three that say what gets
through the parsing of each source (`EnvelopesAssumption`, `GsiAssumption`,
`ManualAssumption`). `LiveFactsProofs` says of the facts that an observation
leaves each hero in one pick and in no ban besides (`SoundFacts`), that it adds
only what it states (`Gains`), and of the replay, which is a loop over a range
of numbers, what each turn keeps (`Replaying`): the picks of the facts are
those sealed and those pending, each once; the kernel holds what was sealed
where it was sealed; it refuses nothing. The last needs that an observed pick is
legal in the least open slot of its side, since no hero is sealed twice and none
that is banned is picked. The inductive invariant `IInv` is that, whenever a
session and its entry both exist, what is installed is the replay of the entry's
facts under the side and seat of the session (`Mirrors`). It is false inside a
handler, between a change of the facts and the rebuild, so a handler is followed
through the values it passes along: `Fits`, their shape, and `Steady`, the shape
and `Mirrors`. Every request is shown to lead from the state it claims to the
state it leaves (`Handled`), and with it that nothing removed comes back
(`StaysOut`) and that an epoch moves on only without a seat (`SeatForgotten`);
the two action properties follow. `IInv` was checked with TLC on the instance of
`live_capture` first. An earlier `RemovalSticks` exempted Overwolf only; the
proof showed that the code exempts every source but the helper.

`DeferredMeansMissing` needs no stronger invariant, but an argument about the
replay. The loop has as many turns as there are picks, and a turn takes a pick
unless none has an open slot, so at its end none has (`SealAllSettles`). A sound
draft that has no collision pending then holds, of each side, every seat of the
rounds before the one in play and those of this round that are not open
(`HeldSlots`), one seal each (`TakenIsHeld`, `TakenCount`). A side that has an
open slot has nothing pending; one side has, as long as a round is in play. So the
round in play is the last one that the numbers of picks observed reach, and what
a side has placed is what that round has a seat for (`PlacedIsTaken`): which
picks wait depends on how many each side has, and on nothing else.

`VisualCaptureProofs` proves `VisualTypeOK`, `OkNeverOvertakes` and
`StaleFactOnlyUnaware`, for every sequence of drafts, every set of cards, queue
and number of restarts, from the assumptions of `LiveCapture`,
`CardsAssumption` and `VisualBoundsAssumption`. The inductive invariant is
`VisualInv`, of five parts. `EngineOK` is the invariant of `LiveCapture` for an
engine that only the game and the helper speak to, and `DraftsOK` relates its
epoch and match to the drafts of the game. `Shape` is the types of the helper and
of its queue. `Ordered` says who can know of which life and epoch of the engine:
nobody of one to come (`Upto`), and an answer, the helper's lifecycle, the
helper, its queue and the last "ok" taken know of the engine's draft only in
this order (`Aware`). `Truthful` says what that knowledge is worth while the
engine is in the draft on screen: each card an aware helper has read is among
the facts or in the queue, and of each aware "ok" every card it counts on is a
fact or queued ahead of it (`Spoken`). Neither half of `Truthful` survives a
boundary without `Ordered`, and `OkNeverOvertakes`, which is about the last "ok"
alone, says nothing of the queue that leads to it. `VisualInv` was checked with
TLC on the whole instance of `visual_capture` (1.9 million states) first. An
earlier `OkNeverOvertakes` was not limited to the draft on screen; the attempt
to prove it gave the counterexample.

Only model-checked: `BotsHandBack` and `BoardCatchesUp`, liveness under fairness,
which is out of the prover's reach. `HiddenHeroNeverShown`, `NeverStranded` and
`OkMeansKnown` are checked to be violated. Every other property that a run
checks is a theorem.

## 5. Plan

Done: `DraftPromise`, `RankedAllPick`, `ApDraft`, `KernelLog`, `CaptainsMode`,
`ApSimulatorSession`, `LiveFacts`, `LiveCapture`, `VisualCapture`,
`LegacyReducer`, `LegacyDraft`, and the proofs above. Next:

1. `CmSimulatorClient`: the Captain's Mode session's routes with `CaptainsMode`,
   against the drive loop of the web hook, two loops at a time; then the Ranked
   All Pick hook over `ApSimulatorSession`.
2. The timer with a clock and gold, and the eviction of a simulator session
   under a suspended request.

Not modelled, and not planned: scoring (signals, pipeline, recommendation,
coach, neighbours, lanes), which is arithmetic over data with no protocol and
makes most of the source; image recognition; hashing, parsing and shape
validation; team presets, presence and telemetry of the live session; offline
jobs, tooling, tests and presentation.
