# Geniro, verified: the daemon that keeps coding agents running

This directory holds TLA+ models of geniro-app, the TLC runs that check them on
small instances, and theorems about them that TLAPS proves for every instance.
Paths below are relative to the repository; `agents/` stands for
`src/apps/daemon/src/v1/agents/`.

## 1. The system

An Electron app (`src/apps/ui`) supervises a NestJS daemon (`src/apps/daemon`).
The daemon runs coding-agent CLIs as child processes, one conversation each,
and keeps everything they say in SQLite. A *run* is a chat, a team's chat or a
task; a *turn* is one message answered by one agent. Everything in the daemon
shares one Node event loop: code between two `await`s is atomic, and everything
else interleaves.

| Component | State | Operations | Talks to | Hard behaviour | Correct when |
|---|---|---|---|---|---|
| Session registry (`agents/services/agent-session.registry.ts`) | kept CLI processes by session key, stale marks, idle timers, farewells, graceful closes, notes owed to the next turn | run a turn (reuse, replace, evict, spawn), idle close, close, teardown, close all, mark stale | chat service, team executor, CLI processes | timers against turns against exits; two processes under one key; sleeping machines | no process escapes; each end is told once; no work is lost to make room; what is unused is closed |
| CLI session (`agents/utils/spawn-cli.ts`) | one process: its turn, interrupt grace, stdin, exit | start, cancel and settle a turn, close, graceful close | child process | an answer that comes after the deadline it missed | a turn settles once, a close takes effect in every state |
| Process registry (`agents/services/process-registry.ts`) | per run a claim or a live handle, the Stop noted on a claim | tryClaim, release, register, cancel, drain | chat service, team executor | the window between claim and register | one turn at a time, no Stop lost |
| Chat turns (`agents/services/chat.service.ts`) | the run's row, queue of status writes, `finalizing`, `compactingRuns`, `stopsRequested`, `deleting`, `archiving` | send, stop, archive, delete, boot reconcile, shutdown | process and session registries, DAOs | a dozen awaits between the claim and the process; tails of two turns overlapping; crash at any await | a delete or an archive is final, `running` always has somebody to end it, a Stop is the user's |
| Transcript order: allocator (`agents/services/item-seq.allocator.ts`), insert seam, kind rows cache, gateway, the client's stream (`ui/src/renderer/chats/use-run-stream.ts`) | next sequence number per run, reservations, kept rows and their mark; the client's window, newest number and replay cursor | reserve, insert, settle, publish; read on; join, read, replay | all writers of a run, its readers, the socket | a seed read across an await, inserts out of order, a socket lost in mid-read | numbers unique; what is kept, shown or replayed misses no row |
| Partial stream | streamed text | supersede, replay | the bus | the durable row against the streamed one | nothing shown twice |
| Approvals (`agents/services/approval-registry.ts`) | pending questions by run and node | track, resolve, abandon, sweep | agents' MCP server, turns | an answer racing the end of its turn | each answered once, none leaks |
| Calls between agents (`teams/services/call-broker.service.ts`, with the turns of `team-executor.service.ts`) | per run: open calls, results to collect, questions callees are blocked on, waits, holds, drains put off | call, await, answer, cancel, park a question, hold, settle, wake | session and process registries | nested calls, a result for a caller that has ended, a question against a deadline, agents that wait for one another | a result is handed over once, nobody is left untold, what waits can go on |
| Teams otherwise (`src/apps/daemon/src/v1/teams`) | passes over a team's stages, pool cooldowns, overlays | run a stage, wake, edit | the above | passes that supersede one another | a pass ends |
| Tasks and projects (`src/apps/daemon/src/v1/tasks`, `projects`, `ui/src/main/autopilot-conductor.ts`) | cards (column, run, stop stamp), runs of cards, starts in flight, the chain of a project's starts, reconciles owed, announcements withheld | read the queue, start, settle, follow, release, reconcile, move, announce | autopilot, chats, people, agents | a cap counted before awaits; handlers that act on what they read; a Stop that must not restart | cap kept, one agent per card, stopped stays stopped, the board agrees with the runs |
| Boot and host (`utils/instance-lock.ts`, migrations, reaper) | lock file, schema version, child journal | acquire, take over, release, migrate, reap | operating system | crashes between steps, two launches | one daemon per data directory |
| Desktop (`src/apps/ui/src/main`) | the daemon's process, worktrees, updates, paired devices, autopilot ticks | spawn, adopt, restart, prepare, install | daemon over HTTP | adoption and restart, ticks overlapping | one daemon, prepared work is started or given back |
| Renderer, shared packages, usage and spend, shares, sign-in | presentation, plumbing, arithmetic, I/O | | | little order | not modelled |

The components and the reason for each one left out are in `PROJECT.json`,
with the hazards that the properties answer.

## 2. Modules

| Module | What it is |
|---|---|
| `CliSession` | one CLI process as its owner sees it: a record and what each call or event does to it |
| `SessionRegistry` | the registry: turns, exits, idle windows, closes, time |
| `MCSessionRegistry` | instances: one chat, two chats, a team's run with two keys |
| `SessionRegistryProofs` | type correctness; the inductive invariant, four safety theorems and four action properties |
| `ProcessRegistry` | one run's slot: an operator per synchronous method |
| `ChatTurn` | the life of the turns of one chat, and the requests and failures they meet; extends `ProcessRegistry` |
| `MCChatTurn` | instances |
| `ChatTurnProofs` | type correctness; the slot's inductive invariant and three safety theorems; archives and deletes are final; compactions, Stops in a shutdown, the row that says `running`, the boot |
| `ItemSeq` | the allocator and the insert seam, for one run and its concurrent writers |
| `Ledger` | abstract: one atomic counter whose numbers are written or given up |
| `KindRows` | the kind rows cache, for one view and its readers; extends `ItemSeq` |
| `RunStream` | one client's socket, first read, live rows and replay; extends `ItemSeq` |
| `Transcript` | the writers with either audience |
| `MCTranscript` | instances |
| `ItemSeqProofs` | the inductive invariant, unique numbers, and the refinement of `Ledger` |
| `TranscriptProofs` | of `Transcript`: what the cache keeps and answers misses no row, and a client shows every row that came in order |
| `TaskBoard` | cards, runs, moves, the judgement that work is finished |
| `TaskRuns` | a card's start, from the claim to its release; extends `TaskBoard` |
| `TaskSettle` | what the board does when a run ends, works again or is deleted, and at boot; extends `TaskRuns` |
| `Autopilot` | the conductor, people and agents on that board, and the properties |
| `MCAutopilot` | instances |
| `BoardProofs` | typed rows and a sound chain, one agent per card, the cap, held cards |
| `BoardRestProofs` | the board at rest: it draws what works, announces what is finished, and no card is left at work without a run, or without its conversation |
| `CallBook` | a run's calls, waits and questions: a record, and an operator per method of the broker |
| `CallBroker` | the callbacks that use them, with the turns of callees and lead, and the properties |
| `MCCallBroker` | instances |
| `CallProofs` | that every result is handed over once |
| `CallWakeProofs` | that nobody waits for nobody, and that nothing is left untold |

### SessionRegistry

State and code: `entries` is `sessions`, `stale` the entry's `stale`, `used` and
`off` are the ages of `lastUsedAt` and `offTurnActiveAt`, `timer` the idle timer,
`farewell` the entries whose idle close awaits its farewell, `closing` the set
of graceful closes, `owed` the notes of stopped commands and of other services,
`runUsed` the last use of a run. `notice` is history: how often the `onClosed`
listeners were told of a process; what else they are told (whether the agent
was cut off at work) is left out. Processes are identities reused once gone.

A promise's callbacks run before any other event, so they belong to the action
that resolves the promise: `Ended` is the whole chain from the child's exit to
`forgetWhenClosed`. Time counts units of `OFF_TURN_ACTIVE_MS`; ages stop at a
cap, and what takes seconds (farewells, exits, deadlines) is over before the next
`Tick`. `Sleep` advances the wall clock and restarts awake windows.
A cancel of a turn whose prompt was not sent yet is `CancelTurn` followed by
`SettleTurn`. A row written between turns assumes its caller installed the
between-turns sink, which both callers do.

### ChatTurn

One chat and two turn identities, which is what overlaps: the registry admits
the next turn when the last one's process settles, so a turn may prepare while
the tail of another still writes. A turn's `stage` is the await it is at:
`asked`, `claimed`, `opened`, `announcing`, `announced`, `probing`, `live`, then
`ended`, `recording`, `drained`, `patching`, or `failing`. Each action is the code
from one await to the next, with its early returns as guards or disjuncts.
Writes of the row's status wait in `statusWrites`, the per-run chain of
`setRunStatus`. There is one Stop, one archive and one delete request at a time.
`reg` is the process registry; a Stop of the claimed turn is noted there.

The constant `Happenings` of both specifications says which events of the
environment an instance includes, so that each run spends its states on its own
question. In `ChatTurn`: `startfail` an await of the start throws; `dbfail` a
status write throws; `silent` a process ends without a terminal event; `host` and
`command` the two other kinds of message, `command` being a compaction that
replaces the session; `overtake` a message is sent before the last turn's
finalizer is through (without it every send waits for that); `early` a Stop may
come before its turn has claimed the run; `slow` the delete's and the drain's
deadlines pass; `stop`, `archive`, `delete`, `shutdown`, `crash`.
In `SessionRegistry`: `cancel`, `rows`, `park`, `shells`, `crash` of processes;
`window`, `sleep`; `close`, `teardown`, `shutdown`, `stop`, `stale`, `notes`; `argv` a
turn that asks for other launch arguments.

### ItemSeq, Ledger and the transcript

`tail`, `chain`, `seed` and `unwritten` are the allocator's `tails`, `chains`, the
value `allocate` read across its await and `unwritten`; `writer` is each promise
chain between `reserve` and `settle`; `disk` the numbers of the rows written. A row
is its number. A burst that failed is abandoned after `ABANDONED_RESERVATION_MS`;
`gone` is the teardown, which ends the model of the run. Happenings: `dbfail` a read
or an insert throws; `restart` the daemon dies and is launched again; `destroy` the
run is deleted; `drop` the socket is lost; `redrop` it is lost again before the
replay, or while the thread's first read is outstanding.

`Ledger` hides chain, seed and reservations: numbers are given, then written or
void. `ItemSeq` implements it under the mapping of `LedgerOf`: the ledger's tail is the
allocator's, or, while that is unknown, what the database would answer.

`KindRows` follows `catchUp` from await to await: the mark is computed from the
newest row and the reservations before it, rows are read in windows up to the mark,
and readers that come meanwhile join the read under way if it is fresh enough.
`RunStream` is one client: the room is joined before the first read, live rows are
merged, and a reconnect replays from the cursor the disconnect set. Readers do not
affect one another, so a behaviour of `Transcript` has one `audience`, the cache or
the client. Left out: a replay that fails, a window away from the tail, paging.

### TaskBoard, TaskRuns, TaskSettle, Autopilot

`card` and `run` are the rows the board reads; `owed`, `withheld` are the maps of
`TasksService`; `start` is where each card's start is, `chain` the promise per
project; `offer` the queue as the conductor last read it. A handler of a bus event is
a continuation: it reads the card (`read`), then stamps it (`stamp`), moves it (`move`)
or clears its run (`unlink`) some awaits later, on what it `saw`. `told`, `held` and
`byHand` are history.

One behaviour is under one `weather`: the cards in play and the words for what may
happen. `press` a person starts a card; `drag` moves it; `declare` its agent moves it;
`chat` a message goes on with an ended run; `delete` its chat is purged; `failed`,
`cancelled` a run ends so; `shells` it holds work after its end; `boards` a client's
reconcile; `breaker` the autopilot is refused; `retarget` the card's run target
changes, so its old run is not resumed; `quit`, `crash` the daemon ends. Two words lift timing assumptions
and are in no run (section 4): `overtake` a person or the conductor acts on a card
whose start, end or deletion is still being heard; `torn` a crash falls between a purge
and its hearing, or between a chat's creation and its first message. Without them,
`Unhurried`, `Settled` and `Heard` say who waits for whom.

### CallBook and CallBroker

A run's book is one record. A call's `stage`: `queued` for the cap, `turn`, `finishing`
(its process is through, its bookkeeping waits on the run's chain), `sweeping` (the
approvals are swept), `held`, `writing` (its status is written), `noted`, `done`. `book`
says what is to be collected: `untold`, `told`, or `no`; `heard` is history. `q` is the
question a callee is blocked on: `put`, `told` (its caller was woken for it); `timed` says that its clock
runs. `wait` holds the tool requests that wait, in `callAgent` (sync), `await_agent`, or
awaitAny. `blocked` and `deferred` are `blockedOwners` and `deferredDrains`. The wake of the lead is a
scheduled turn that finds it idle or at work.

The words of a weather: `async`, `sync`, `fire` the modes of calls; `deep` callees call too;
`wide` an agent makes requests in parallel and has two calls open, not one; `threads` a settled conversation is
called again; `cancel`; `expire` questions time out; `nosession` a turn leaves no session
to go on with; `queued` the cap of turns is reached; `user` a message opens a turn of the
lead; `stop` the run is stopped; `startfail` the start of a turn throws; `backtoback`
the run's chain goes on with its next work before a settled call's reactions. A wait's deadline, its request's
end and a user's message are one action, as the book treats them alike. A turn that ends
drops its own waits. Left out: messages between agents, wakes at a limit's reset,
monitors, the silence watch, cards that block a caller, pools, passes that supersede one another.

## 3. Runs

| Run | Instance | Properties | States |
|---|---|---|---|
| `sessions_life` | one chat, two processes, windows of one and two units | `TypeOK`, `EveryProcessIsOwned`, `ClosedAnnouncedOnce`, `ShutdownKeepsNothing`, `HardStaleIsFinal` | 753k |
| `sessions_team` | a team's run with two keys, ceiling one | `IdleHasClock`, `EvictionSparesWork`, `EvictionFitsTheCeiling`, `StoppedCommandsAreTold` | 686k |
| `sessions_liveness` | one chat, fair | `UnusedIsClosed`, `GracefulCloseEnds` | 13k |
| `turns_doors` | two turns; stop, archive, delete, compaction, overtaking | `SlotMatchesTurn`, `StopIsNeverLost`, `NoStrayCancel`, `NothingOutlivesDelete`, `ArchivedIsQuiet`, `NothingBehindACompaction` | 1.5M |
| `turns_outcomes` | two turns; failures, stop, shutdown, crash, deadlines, compaction | `TypeOK`, `NoGhostRunning`, `BootClosesTheTranscript`, `StopSurvivesShutdown` | 10k |
| `turns_liveness` | two turns, fair | `StopFreesTheRun`, `RequestsEnd` | 79k |
| `transcript` | two writers with two readers of the cache, or with one client; failures, restart, deletion, lost sockets | `SeqTypeOK`, `NumbersAreUnique`, `KeptRowsAreComplete`, `AnswersReachTheirAsk`, `InOrderRowsAreShown`, `ImplementsLedger` | 804k |
| `board` | two cards, or one with its stale handlers, cap one, eight weathers | `BoardTypeOK`, `CapHeld`, `OneAgentPerCard`, `WorkedCardsHaveARun`, `WorkingRunsAreDrawn`, `FinishedIsAnnounced`, `CardKeepsItsThread`, `HeldCardsWait` | 1.21M |
| `calls` | three calls, two waits, six weathers | `ResultsArriveOnce`, `NothingIsLeftUntold`, `NobodyWaitsForNobody` | 727k |
| `idle_close_race`, `stray_stop`, `replay_gap` | | one property each, violated | |

Bounds, and why they are enough.

*Sessions and turns.* Two process identities are a kept one and a
closing one under the same key, or one on each side of a ceiling of one; a third
adds only a second closing process, which nothing but its own exit reads. A
ceiling of one with two keys gives every case of the eviction (room, no room with
an idle victim, no room with none), and the window of two units the one case
where a row and the window age differently. Two turns are all that overlap: the
third finds the slot held, and is refused like the second. Identities are
reused, so behaviours are not cut at two turns or processes; no counter, queue or
clock is bounded by a guard. Symmetry over identities is used in the safety runs
and never with liveness. Deadlock is checked for the sessions; in `ChatTurn` a
deleted chat takes no more steps, so `CHECK_DEADLOCK FALSE`.

*Transcript.* Two writers are the one whose seed is read and the one that comes
meanwhile, or a row and one that overtakes it; three numbers (`MaxSeq` 2) give a
row below, in, and above a gap, reservations of one and of two, and windows of one
number more than one read. `MaxSeq` cuts behaviours, so deadlock is not checked.
`InOrderRowsAreShown` exempts rows that were published or inserted behind a greater
one: those are `replay_gap`; and the run leaves out `redrop`, which section 4 shows to break it.

*Board.* Two cards meet at the cap and in the project's chain; one card is enough for
what its own handlers, starts and people do to it. Two runs per card are the one it
names and the one a start makes beside or after it. `MaxHandlers` bounds the handlers
in flight (two: an event's and a stale one), and no step is taken that would need a
third. Runs are used up, so deadlock is not checked.

*Calls.* With three calls a caller has two open, or a call has a call of its own, and a
further one continues or wakes a conversation; depth two is the lead, a callee that is
itself a caller, and its callee. Two waits are two parallel requests, or two callers. A
fourth call adds a second wake of a conversation; a call past the bound is not made, so
deadlock is not checked. The weathers keep apart what would multiply; every
word is in one.

`turns_outcomes` leaves out `early`, `overtake`, `archive` and `delete`. With any of
them `BootClosesTheTranscript` fails: a queued status of the previous turn, or the
`cancelled` of a Stop pressed before its turn claimed, lands over the new turn's
`running`, and a daemon that dies then leaves a run the boot does not list; a turn an
archive or a delete ends between `shuttingDown` and the drain counts as cut off, and
what fails to start behind it writes `failed`. Under `overtake` the stray Stop below
reaches the wrong turn.

Fairness. Sessions: timers fire, the farewell (asked with a deadline) returns, a
process told to die exits because SIGKILL follows SIGTERM, its end is reported,
and time passes; turns need not arrive or end. Chat: every await comes back, and
a process that was cancelled or closed settles; nothing obliges an uncancelled turn
to end. `UnusedIsClosed` runs without sleeps and without changes of the window:
each restarts the window, so endless ones postpone the close forever, by design.

## 4. What the code does against its own comments

* `idle_close_race`: the idle close awaits a farewell and then re-checks that the
  process is idle, which says nothing of a command that began during the
  await; it is closed with the process, which the doc of `shellsRunning` forbids.
* `stray_stop`: a Stop pressed at a turn whose process has settled, but whose
  terminal event is still queued, stays in `stopsRequested`, and the next turn's
  launch takes it for its own. The comment there says that cannot happen.
* `replay_gap`: rows are published as their inserts return, not in the order of
  their numbers. One reserved earlier and written later lies behind the cursor a
  disconnect sets; published while the socket is down, it reaches the client by
  neither way. The comment of `persist-item.ts` promises a replay of everything missed.

Six more disagreements were reproduced with the models, but no run keeps them:

* `NoOrphanRows` of `ChatTurn`: a turn that holds only the claim has no finalizer a
  delete could wait for, and writes its opening row after the rows are destroyed; a
  delete pressed while two turns overlap waits for the newer finalizer only.
* Under `redrop`: the replay's cursor is "taken at the DROP" (`use-run-stream.ts:110`), so
  that a live row cannot push it past what was missed; but it is taken anew when the
  thread's first read returns (`use-chat-run.ts:2301`), after a reconnect too, and at a
  second drop before the replay, and then a live row has: `InOrderRowsAreShown` fails.
* Under `overtake`: a message in a card's chat between `assertNotAlreadyRunning` and
  `resumableRun` makes the start create a second run beside the one at work; a stop
  stamped after the start has read its card does not keep the autopilot off.
* Under `torn`: a card names a run that is gone, and stays `in_progress`; a pending run
  holds a slot of the cap.
* `startfail`: when the further turn of a call throws at its start (the catch of
  `runAttempt`), the call settles without `noteCalleeSettling`, and a caller whose turns
  have all ended is not told, which the doc of that method is about.
* `backtoback`: `noteCalleeSettling` finds the lead's turn still live and leaves the
  result to `drainCaller`; the lead's end, queued directly behind on the run's chain,
  drains before the call's reactions have taken it out of `activeCalls`, and
  leaves it out as well. `NothingIsLeftUntold` excepts behaviours with these two words; the other
  two properties of `calls` hold under them.

## 5. Theorems

Assumptions: `KeysAssumption`, `SessionsAssumption`, `TimeAssumption`,
`CeilingAssumption` (the registry: a chat's run is its own key, the placeholders
are not processes, windows lie within the cap of an age, the ceiling is positive),
`TurnsAssumption`, `StopperAssumption` (placeholders are not turns). Nothing bounds
the number of processes, keys, runs or turns.

Sessions. `EveryProcessIsOwned` and its companions are not inductive. `Sound(s)`
adds: the registry holds no gone process, and each in one place; a process
spawned to serve one turn is in that turn until it is gone, and is the only kind
that may be kept with its stdin ended or after shutdown. From `RegistryIsSound`
follow `ProcessesAreOwned`, `ClosesAreAnnounced`, `IdleIsTimed` and
`ShutdownIsFinal`. The proof goes action by action; `CloseKeepsSound` covers every
close at once, `ProcStepKeepsSound` every step that touches one process. The four
action properties sort the steps into three: a turn's start on a kept process, a start
that spawns, and a step that opens no turn (`Lull`). Only a spawn evicts, so
`EvictionSparesWork` and `EvictionFitsTheCeiling` are about the choice of victims; its
count needs `MapIsSound`: nothing bounds the keys, but the registry holds finitely many
processes, each under its own key. `StoppedCommandsAreTold` needs it too, because the
teardown of a run clears what is owed by owner.

Chat. `TypeCorrect` needs a companion: a turn that waits to write a status has one
(`StatusesAreKnown`), because `settleTo` may be null and a silent ending has none.
`SoundSlot` joins `SlotMatchesTurn`, `StopIsNeverLost` and `NoStrayCancel` with the
facts they lean on: a turn not started was asked nothing; what was asked of a
starting turn is on record in the registry, and what is on record was asked of
the turn that holds the claim. `ArchivesAreQuiet` rests on `QuietBehindArchive`: from
the moment the archive has ended the chat's processes, every live turn is one
whose process was closed, and the mark is set before that moment, so the last
read of a start sees it. `DeletesAreFinal` rests on `LiveIsAwaited`: a live turn
holds the slot, is the one `finalizing` names, and is the one a delete under way
waits for; only a launch could break that, and it re-reads both the row and
`deleting`. It assumes that no deadline passes (`"slow" \notin Happenings`): when
one does, the code destroys the rows of a turn it gave up on, and logs it.
How a turn ends rests on what each step does to a turn's record, stated once per step
(the `Course` lemmas). `NothingBehindACompaction` needs that a claim found
`compactingRuns` empty and that whoever opened as a command holds it
(`AloneWithCompaction`). `NoGhostRunning` needs no assumption: whoever wrote `running`
is a turn with a last status still to write (`WillSettle`), and every status written
by anybody else is terminal. `StopIsOnRecord` says that one turn is unfinished at a
time and that `stopsRequested` is what was pressed at it; it assumes that no message
overtakes a finalizer, and section 4 says what happens otherwise.
`BootClosesTheTranscript` assumes `StopsOnly` (none of the four happenings
`turns_outcomes` leaves out): what was cut off left the chat `running`
(`RowOrRunning`), a cut without a Stop is the drain's (`CutByStopOrDrain`), and
after the drain nobody claims, so nobody writes over it (`CutsAreRunning`).

Transcript. Assumptions: `CountsAssumption` (a reservation asks for at least one
number) and `UnseededAssumption`. `NumbersAreUnique` says that no number is held by
two writers, or held and on disk. It leans on the tail being at or above
everything given out, which fails exactly while the tail is unknown; `SeqSound` adds
what holds then: nobody holds a number, only the head of the chain has a seed, and no
number is given out between its read and its use, because the chain admits nobody
else. `LedgerIsImplemented` is the refinement: reserving and reading the seed are
stutters of the ledger, `Allocate` gives, `Insert` writes, giving up voids, a restart
reopens it and the teardown closes it.

`TranscriptProofs` proves of `Transcript` that nothing kept is incomplete and every
answer reaches its ask, for any number of writers and readers and a window of any size
(`WindowAssumption`: at least one number). A mark is `Solid` when everything reserved is
above it and some row on disk is not below it: then whatever is reserved later counts
on from a number above it, so no row will ever come at or below it. What is kept, the
base of a read, and what a read has come to are whole up to a solid mark; a read under
way will cover the mark of whoever waits on it, or that request will find out and ask
again. `WrittenThrough` of a newest number that was read before the reservations is
solid all the same, which is what lets `catchUp` await between the two. Between a
deletion and its announcement nothing is claimed (`Telling`).

It also proves `InOrderRowsAreShown` for any writers and bursts. It assumes
that the cursor is not moved under a replay (`"redrop" \notin Happenings`), which
section 4 shows to be needed. `RowIsComing` says of each row that came in order:
it is shown; or a read that brings it is to come or in the client's hands (`Due`); or it
is above everything the client has (`Newer`), and on the wire, about to be published, or
the socket is down. `Newer` is what makes a loss harmless: the cursor is the newest number
the client has, so whatever it lost lies past it. Rows arrive in order because a row
published behind a greater one is late by definition (`PublishedInOrder`, `WireInOrder`).

Board. `BoardAssumption` alone for the types: `RowsAreTyped` is inductive by itself,
and `ChainIsSound` (every start that has not sent its brief is in the project's chain
once, and only the first is past the read of its card) on top of it. The other
theorems assume `Calm`: no weather lets anybody act on a card whose start, end or
deletion is still being heard. All eight weathers of the run are calm, and section 4
says what happens otherwise. `CardsAreSound` says that a run at work is the one its
card names, that a start past its judgement has no run of the card at work, and that
the card still names the run the start found; the theorem on one agent follows, because a run
only starts to work by a message to the named run or by the start's own. `CapIsKept`
adds that a start which has counted still has its room: it is the first in the chain,
so no other start counts before it has sent or let go; the count is of cards, and the
runs at work map into the cards one to one (`AutosAreFew`). `HoldsAreSound` says that
a card which waits for a person is stamped, or the handler that will stamp it before
moving it is on its way, and that a start in flight for it is one the stamp turns
away.

`BoardRestProofs` proves the four properties that speak of a board at rest. What is
in flight accounts for what the rows do not say yet. `CardsAreFit` is their
common ground: what the handlers of a card know is still so. An `ended` handler is of
the run the card names, which has ended that way; while a start has chosen its run, the
card's handlers have nothing to write (`Aloof`); beside a deletion there is no settling
(`Apart`). A step changes one card (`StepsTouchOneCard`), so each property is one
invariant of one card, and nothing in flight is its special case:

- `DrawnSoon`: a card whose run works is drawn so, was put elsewhere by hand, or failed
  and has the handler that will lift it.
- `ToldSoon`: a finished card is announced, or the check that will announce it is on its
  way, or its finish is withheld for work that has not ended, whose end rechecks it.
- `WorkedSoon`: a card drawn as worked has a run that works or completed, or was put
  there by hand, or the end or deletion of its run is being settled, or a start has it
  reserved. That start knows a column to give back, and if that is `in_progress`,
  what the card stood on before.
- `CardIsKept`: every run of the card that holds a conversation is named by the card, is
  the one a start is making, or is an older one of a card that names another. A start past
  its choice still knows the run the card named.

All four assume `Calm`. The last two assume `Whole`: no stop of the daemon in the middle
of a start's writes or of an unheard deletion (`torn`, section 4). `CardIsKept` assumes
`Either`: chats are deleted or targets change, not both. With both the formula asks more
than the code promises: a press of another target leaves the card's first chat in place
beside the new one, and once the new one is deleted the card names neither. All eight weathers of
the run satisfy the three assumptions, and TLC checked these invariants on one card with
all the words the assumptions leave at once before they were proved.

The first attempt at these proofs failed on a stale handler that survived its
own step when it had nothing to move; the module was corrected to the code's order.

Calls. `ResultsAreTallied` assumes nothing but `CallsAssumption` and `DepthAssumption`, and
excludes no weather. A sync call is in nobody's book while its caller waits for it, so
everything that takes a wait away must put it there. The inductive invariant `Sound`
says which wait that is: an open sync call out of the book has a wait on it alone, of
its caller, who is in the very turn it called from (`CallerWorks`); no two waits are
on one such call, and no two open calls in one conversation. A settled call was
heard once or is in the book. Most steps of the broker move questions, notes and stages
within a call's life: `Like` says so of their operators, once each, and like books are
sound together. `LetGo` is every way a wait ends before its call does. A turn that
ends has lost its waits first, so nobody waits from a turn that is gone
(`NobodyWaitsFrom`). Settling is the one step that answers waits, and runs in several
operators; `Sound(s, x)` is the book with the settling of x under way.

`NobodyIsStuck` and `ResultsAreTold` rest on `AtEase`, which adds to `Sound` who still
comes to what is left. Neither property is inductive: a question without a clock is all
right because its caller is blocked or is to be drained, so `Fit` also says that a call
past the end of its turn has its drain put off in its conversation's name
(`DrainSound`), that only a caller who is owed the answer is asked (`AskSound`), and
that a held call's questions are new ones, which a look at the hold releases
(`HoldSound`). `Heard` says that a settled call's result left to tell has a caller with
a turn or a drain ahead, or one that can never be woken (`WillHear`); and that a queued
call which was stopped has a caller at work, because only that caller could have
stopped it and the promise reactions run before anything else. An operator of the
broker leaves exceptions while it runs (the conversations being drained, the holds not
looked at, the calls that just asked): they are the arguments of `Fit`. A `Gentle` step
begins, ends and asks nothing, and keeps all of this at once; the rest are moves of one
call (`MovedTo`), of the lead (`LeadMoved`), a question (`Asks`), a call opened, a wake,
a drain and a settling. `NobodyIsStuck` holds in any weather, as does `Fit`;
`ResultsAreTold` states the exception of its property, `startfail` and `backtoback`
(`Odd`), which section 4 explains.

Model-checked only: liveness (`UnusedIsClosed`, `GracefulCloseEnds`, `StopFreesTheRun`,
`RequestsEnd`), which is out of the prover's reach.

## 6. Not modelled, and the plan

Of the modelled components, left out: transcript text, costs, the wire protocol of
each CLI, the rows a turn writes while it works, the badge of work between turns,
the delivery of a follow-up into a running turn, settings.

Of the board: the failure streak (the breaker is a refusal that may come at any
time), worktrees, edits and deletion of cards, merging, problems of a run's target,
failures of the database outside the part of a start that handles them. Of the teams:
what section 2 lists, and everything of a pass but its turns.

What would come next, in this order:

1. `InstanceLock`: launches, crashes and the takeover of a stale lock. Two launches
   never both run; three may, as the code says.
2. `Approvals`, composed with a turn's end, and the cards that block a caller.
3. The stages of a pass over `CallBroker`, with passes that supersede one another and
   wakes at a limit's reset.
4. The off-turn badge, monitors and action presses; the partial stream.
5. `DaemonSupervisor` and the reaper; migrations; the remote gateway.

Every safety and action property of the runs has a theorem. What a next proof would do
is to weaken assumptions: of the board, which acts that overtake a handler do no harm.

Left out for good: the renderer's presentation (a third of the repository), generated
clients, adapters' wire formats, spend and usage arithmetic, shares, sign-in, git and
file operations. They hold little order a model could tell apart, and they are most of
the lines that no module maps.
