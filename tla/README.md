# Bond-OpenAI in TLA+

Bond-OpenAI gives an MCP client four tools with which it has a phone call placed: classify a task,
create it, ask how it stands, cancel it. Behind them are a SQLite table, a carrier (Twilio)
reached directly or through an operator's relay, a callback server the carrier talks to, and a
voice agent (Deepgram) that holds the conversation. This directory models that program in TLA+,
checks it with TLC on small instances and proves with TLAPS, for every value of the constants, all
it checks of safety. Paths below are relative to the repository; `bond_mcp/` and `fredo/` stand
for `src/src/bond_mcp/` and `src/src/fredo/`.

## 1. The system

### Components

| Component | State it keeps | Operations | Correct when |
|---|---|---|---|
| MCP server, `bond_mcp/server.py` | none of its own: one request at a time, with the `PhoneResult` object in hand | `create_phone_task`, `get_phone_task_status`, `cancel_phone_task`, `classify_task` | a key is dialled once at most, one task is active, rows tell the truth, every task ends |
| Task store, `bond_mcp/store.py` | table `phone_tasks`: call id, key, payload, result; a lock for each process | `reserve` (one transaction), `get`, `get_task`, `update` (whole object) | each operation takes effect at once or not at all, keys are bound once, locks come back |
| Task model, `bond_mcp/models.py` | none | task states, terminal states | terminal states are final |
| Callback runtime, `bond_mcp/runtime.py` | one event loop in a thread; for each stream the object its session holds | status webhook, media stream, `/healthz` | late, early and stale callbacks do not falsify a row |
| Providers, `bond_mcp/providers.py` | none | `create_call`, `get_status`, `cancel_call`, on Twilio or on the relay | a failure is told as one |
| Twilio adapter, `fredo/telephony.py` | none | `place_call`, `get_status`, `hangup` | one order for each call of `place_call` |
| Demo relay, `bond_mcp/demo_relay.py` | its own store, a rate limiter | the same three operations over HTTP | one live call for all its clients, no window with too many requests |
| Voice session, `fredo/voice_agent.py` | five asyncio tasks and the flags they share | bridges audio, protects the disclosure, takes the outcome, hangs up | the disclosure and the last words are played, every task ends with the session |
| Silence monitor, `fredo/silence_monitor.py` | attempt, timer task, stopped flag | arm, cancel, reprompt, goodbye and hang up | hangs up on silence only, and never over the last words |
| Policy, `bond_mcp/policy.py` | none | `build_task`, `normalize_phone`, `classify` | only confirmed, allowed tasks are reserved; one task has one spelling |
| Settings, `fredo/settings.py` | environment and `demo/profile.json`, read once at start | `from_env`, `missing_for_real_call` | what the doctor calls ready is enough to order a call |
| Setup CLI, `bond_mcp/cli.py` | the files it writes | `install`, `demo configure`, `doctor`, `serve` | existing configuration is kept |
| Agent prompt, Fredo models | none | texts and value classes | |

### How they interact

The server, the relay and the callback runtime all work the same way: read a row into an object,
await something, write the whole object back. Only `reserve` reads and writes in one transaction.
Several MCP processes share one table (each client starts its own server), and the callback
runtime of one of them writes the same rows from another thread, as the one in the relay's process
writes the relay's. The carrier answers orders and lookups, posts status webhooks and opens the
media stream; the session runs inside the handler of that stream and calls back into it with the
outcome. In demo mode there are two tables, the server's and the relay's, and a task has a row in
each; it passes two policies on its way, each with its own list of numbers, and the relay compares
what reaches it with what it stored. Before any of that, settings come from the environment or,
field by field, from a published profile. The session's tasks share one event loop and interleave
at awaits only; hangups run in threads.

### What is hard

- what was read before an await and is written after it: refresh, cancellation, webhook,
  `create_phone_task` itself, the session's outcome;
- two processes that reserve at once, two threads of one that share a lock, and either of them
  failing, timing out or dying inside the transaction; a host that submits a key again after a
  crash, a timeout or a failure;
- an order the carrier accepts and whose answer is lost; a store error after that, and another
  one when the failure is to be recorded; a hangup that fails, or works and is not confirmed;
- webhooks that overtake each other or the answer to the order;
- a process, the runtime or the relay that dies between two steps;
- in demo mode, a server that stops waiting while the relay goes on, and callbacks that write the
  relay's rows behind its handlers;
- a task that is checked twice and compared in a form nobody typed; settings that the doctor and
  the provider judge by different rules; commands that write a profile at once, or die at it;
- in the session, events of Twilio, Deepgram, timers and threads in any order, around the
  disclosure, `finish_demo`, the silence prompts and the end of the call.

`PROJECT.json` lists these hazards with the lines where they bite and the properties that
watch them.

## 2. The modules

| Module | What it is |
|---|---|
| `TaskModel` | task states, carrier states and the table between them; no state |
| `PhoneTasks` | server processes, store, carrier, webhooks, media handlers: the life of a phone task |
| `CarrierAttempts` | the abstract promise `PhoneTasks` implements: a key is bound once, the carrier asked once |
| `DemoMode` | servers, relay with its callback runtime, and carrier in demo mode, with both stores |
| `AtomicStore` | the abstract store: `reserve`, `get` and `update` take effect in one instant, or fail |
| `SqliteStore` | the store statement by statement, with its locks, timeouts, errors and dying processes |
| `RateLimiter` | `RelayRateLimiter` |
| `SilenceMonitor` | the monitor: its variable, its operations and its timer task |
| `VoiceSession` | the session's tasks, composed with `SilenceMonitor`, Twilio, Deepgram, the caller |
| `Policy` | `build_task` and `normalize_phone` as operators; no state |
| `Admission` | settings, profile, CLI, server, relay: what a payload passes before it is ordered |
| `MCPhoneTasks`, `MCDemoMode`, `MCSqliteStore`, `MCAdmission` | instances for TLC |
| `SetInduction` | the two lemmas on natural numbers that stand for induction in the proofs |
| `PhoneTasks_proofs`, `OneProcess_proofs`, `DemoMode_proofs`, `SqliteStore_proofs`, `RateLimiter_proofs`, `VoiceSession_proofs`, `Admission_proofs` | theorems about the module they are named for; `OneProcess_proofs` is about `PhoneTasks` |

`PhoneTasks` and `DemoMode` take the store for `AtomicStore` and the policy's verdict for a
constant; `SqliteStore` and `Admission` are where those two are earned.

Definitions whose name has an underscore and a suffix (`KeyIsFree_ActiveOnly`) are bugs one
could plausibly write in the definition of the same name. Each property is known to fail for
one of them, so that none holds for lack of behaviours.

### PhoneTasks

`payload[c]` and `result[c]` are the columns of the row with call id c; `worker[w]` is where
process w is in its handler, with the `PhoneResult` it holds; `handlers` are webhooks awaiting
`request.form()`; `media[c]` is the handler of c's stream; `carrier[c]` is the truth about the
call, which the program sees only in answers and callbacks; `dials[c]` counts orders.

An action is what a handler does between two awaits or two store transactions:

| Code | Actions |
|---|---|
| `create_phone_task` (`server.py:72-95`) | `Reserve`, `PlaceCall`, then `CreateReturn`, `CreateFails`, `CreateStoreError` or `WriteFails` |
| `get_phone_task_status` (`:96-101`, `:117-147`) | `GetStatus`, `PollAnswer` or `PollError`, `PollApply` or `WriteFails` |
| `cancel_phone_task` (`:102-111`) | `Cancel`, `CancelHangup` or `CancelError`, `CancelWrite` or `WriteFails` |
| status webhook (`runtime.py:31-58`) | `StatusReceive`, `StatusApply` or `StatusWriteFails` |
| media stream (`runtime.py:60-109`) | `MediaStart`, `MediaRecord` or `MediaWriteFails`, `Outcome`, `SessionHangup`, `SessionClose`, `MediaDrop` |
| the processes die | `Crash`, `RuntimeCrash` |
| Twilio (external) | `CarrierAccept`, `CarrierRefuse`, `CarrierAnswer`, `CarrierEnd` |

Requests that change nothing (unconfirmed, rejected, replayed, busy, unknown id) are stuttering
steps. The call's Twilio SID is written as the call id itself; `NoSecondDial` makes that sound,
since no call id is ever ordered twice. `ringing` stands for Twilio's queued, initiated and
ringing, which every table maps alike. Webhooks are a set: they arrive in any order or never.
The carrier opens a stream when the callee answers; its first message is a "start" for this
call, or the stream is dropped. The callback runtime has one event loop, so `MediaStart` and
`MediaRecord`, two store accesses without an await between them, let other processes in but no
other handler (`LoopIsFree`).

A write of a row may fail wherever the code has one (`store_error`). In `create_phone_task` the first
failure leads to a second write, in the except block (`server.py:91`), which may meet the same full
disk or locked file: `CreateStoreError` is the case where it works, `WriteFails` the one where it
does not, and the row then stays `confirmed` without a provider id (`Stranded`).

### DemoMode

`local` is the status column of the servers' stores, `relay` the relay's rows: their status, and
whether they name the carrier's call. `request` are the HTTP requests under way with what their
handler at the relay holds, `waits` which of them a server awaits, `call` the carrier's truth.
A server that gives up (`GiveUp`, 15 s) takes the request for failed; its handler at the relay goes
on, and the answer is dropped. Each of server and relay may crash. What the server does with an
answer depends on its status name: the relay answers with its own names (`demo_relay.py:130`),
which the server looks up in a table made for both (`server.py:130-144`); `RelayNames` are the
entries of that table the relay uses.

The relay's process mounts the callback runtime (`demo_relay.py:70`), which writes its rows behind
its handlers: `HookReceive` and `HookApply` are a status webhook that reads the row, awaits its form
and writes the object back, `HookAtOnce` one whose form is there when it arrives; `media` is the
stream of each call, with `MediaStart` and `OnOutcome`. `RelayRejects` covers what
`demo_relay.py:108` catches: an order the carrier refused, and one it took or may yet take whose
answer was lost. `mishaps` counts what goes wrong or arrives out of turn and bounds it.
`freed` is history: the keys whose row became terminal while their call was up.

Left to `PhoneTasks`: errors of the stores. A key is submitted from one store, which replays it
itself, so the relay never sees a key twice.

### AtomicStore and SqliteStore

`AtomicStore` has a table and, for each thread, what it asked and was answered. In `SqliteStore`
`disk` is the table as last committed, `draft` as the writing connection sees it, `writer` the
connection with SQLite's RESERVED lock, `mutex[p]` the `threading.Lock` of process p, and
`thread[t]` how far thread t is:

| Code (`store.py`) | Actions |
|---|---|
| `reserve` | `Lock`, `BeginImmediate`, `FindKey`, `CheckActive`, `Insert`, `Commit`, `Committed`, `Return` |
| `update` | `Lock`, `Update`, `Commit`, `Committed`, `Return` |
| `get`, `get_task` | `Select`, `Fetch`, `Return` |
| exceptions, the 5 s of `sqlite3.connect` | `StatementError`, `BusyTimeout` |
| the process dies | `Crash` |

SQLite itself is external and modelled as its rollback journal locks: one writer, any number of
readers, and a commit that first lets no new reader in and then waits for those that are there.
The refinement mapping is `table <- disk, client <- Client`: an operation takes effect when the
commit does, and a reader's or a refused reservation's when it has read.

### RateLimiter

`bucket[c]` is the deque of client c, `granted[c]` every grant ever made to it. Time is in whole
instants and stops at `Horizon`; `allow()` has no await and is one step.

### SilenceMonitor and VoiceSession

`run`, `twilio`, `deepgram`, `duration` and `finish` say where `run()`, its two listeners, the
duration guard and `_hangup_after_playback` are; `timer`, `attempt` and `stopped` are the
monitor's, in `monitor`. `hangups` are the hangups in threads, which outlive the task that asked
for them. The end of `run()` is taken apart as in the code: one of the pending listeners after the
other is cancelled and awaited while the rest go on (`CancelPending`, `CancelDelivered`); the
finally block stops the monitor and cancels the tasks there are at that moment (`CleanUp`);
`gather` waits for exactly these (`gathered`), and only then is the session closed
(`CloseSession`). An exception leaves the loop early, so the finally block may find any task in
any state. Durations are left out: a timeout may fire at any moment its wait is under way, which
covers every setting of the numbers. Audio and text are left out; what is kept is whether the
agent is speaking (`agent`), whether the caller is (`caller`) and whether the caller has been
heard at all. `_silence_hangup` calls `stop()`, which cancels the task it runs in, so its hangup
may be dropped (`SilenceHangup` has both outcomes). The second look at `_stopped` in the monitor's
`_run` can never find it set, because `stop()` cancels the timer; it has no action.

### Policy and Admission

`Policy` writes a number as a sequence of characters, since normalisation and both limits of E.164
are about them, and any other text as its words and whether it has spaces to strip. `Kept` is what
`re.sub` has kept of each beginning of a number, written as a recursive function, which can be
reasoned about by induction over its argument. `BuildTask` is `build_task` with its checks in
their order; the server applies it to what the host sent (`policy.py:37-66`), the relay to what
the server made of it (`demo_relay.py:79`).

`Admission` has the environment, the profile file, the running server's settings, the row of one
key and the orders made. `demo configure` is three steps, since several commands may run at once and
each may die between any two: `ConfigureChecks` reads the profile, `ConfigureOpens` truncates it and
`ConfigureFills` writes it. `Doctor` and `Serve` are the other commands; `CreateTurned` and `CreateNew`
submit the key with payload after payload, and `Verdict` is what the provider, or the relay with its
token and list, says of a reserved task. What an order leads to is left to `PhoneTasks` and `DemoMode`.

A task keeps `timezone` as it came (`policy.py:64`): not stripped, and an explicit null is not the
default. The store compares it with the rest (`store.py:49`), so it decides between a replay and a
conflict. An explicit null `language`, in contrast, is refused.

## 3. What is checked

Every run is exhaustive within its bounds.

| Run | Module and bounds | Shows |
|---|---|---|
| `lifecycle` | `PhoneTasks`, 2 processes, 2 calls, 2 keys, 2 tasks of which 1 allowed, all faults, no callbacks | `NoSecondDial`, `ReservationIsExclusive`, refinement of `CarrierAttempts` |
| `callbacks` | `PhoneTasks`, 2 processes, 1 call, all faults, callbacks | `TypeOK`, `HonestResults`, `CancelledIsHungUp` |
| `one_process` | `PhoneTasks`, 1 process, 2 calls, lost replies and store errors, no callbacks, fairness | `OneActiveTask`, `TerminalIsFinal`, `CorrelationIsKept`, `EventuallyTerminal` |
| `lost_reply` | as above with lost replies only | `OneLiveCall` fails |
| `stale_callback` | `PhoneTasks`, 1 process, callbacks, no fault | `CorrelationIsKept` fails |
| `relay` | `DemoMode`, 2 servers with 1 key each, 2 open requests, one call that is answered or not and one that is not, cancellations, webhooks, a media session, 1 mishap, fairness | `TypeOK`, `OneCallUnlessFreed`, `FreedEarly`, `BothStoresAreHonest`, `OutcomeReachesServer` |
| `relay_declined` | `DemoMode`, 1 server with 2 keys, busy lines, fairness | `OutcomeReachesServer` fails |
| `sqlite_store` | `SqliteStore`, 3 threads of 2 processes, 2 rows, 2 keys, errors, timeouts, crashes, fairness | `TypeOK`, `LocksAreReturned`, `NoCircularWait`, refinement of `AtomicStore`, `EveryCallReturns` |
| `rate_limiter` | `RateLimiter`, 2 clients, 2 requests per window of 3, horizon 7 | `AtMostPerWindow`, `DeniedOnlyWhenFull` |
| `voice_session` | `VoiceSession`, disclosure protected | disclosure, last words, monitor and end of the session |
| `goodbye` | `VoiceSession` | `GoodbyeIsSpoken` fails |
| `admission` | `Admission`, the environments, payloads and profiles of `MCAdmission` | `TypeOK`, replay, enrolment, both policies, the doctor |

### The properties

Under every fault and interleaving (`lifecycle`, `callbacks`):

- `NoSecondDial`: one order per key at most, and only for a confirmed and allowed task.
- `ReservationIsExclusive`: two tasks never wait for their order at once.
- `HonestResults`: whatever stale object is written back, a row never says of its call what
  neither the carrier nor the session did. Rows may be late; they do not lie.
- `CancelledIsHungUp`: a cancelled row that names a carrier call names one that is over.
- `ImplementsAttempts`: seen from a client, all this is `CarrierAttempts`.

`OneActiveTask`, `TerminalIsFinal` and `CorrelationIsKept` (a row that names its carrier call
keeps naming it) hold only of one process that no callback reaches: a second writer with an old
copy brings a terminal row back to life and takes a provider id away, as the `stale_callback` run
shows. `EventuallyTerminal` needs a process that survives: a crash between the reservation and the
answer leaves a row without a provider id, which no lookup ever ends and only a cancellation does.
A process that survives leaves the same row behind when both writes of its creation fail; the
property excepts that case (`Stranded`) and says there is no other. It is a row the repository
promises nothing about, so this is no finding, but it blocks the server until somebody cancels it.

In demo mode (`relay`) two calls can be up at once, and without anything going wrong: `on_outcome`
records `completed` when `finish_demo` is handled, the call goes on through its last words, the mark and
the hangup, and in that interval the relay's store has no active row. The lost answer of `lost_reply`
does the same at the relay. What does hold is that nothing else frees the line:

- `OneCallUnlessFreed`: two calls are up at once only if the row of one became terminal while its call
  was up. Reservation, timeouts of the server, crashes and stale webhooks let no order past an active
  row.
- `FreedEarly`: that happens in three ways only: the session reported its outcome; the order's answer
  was lost; the call was cancelled over a row whose provider id a stale webhook had erased.
- `BothStoresAreHonest` is the counterpart of `HonestResults` for both stores. `completed` may be said
  of a call whose session has told its outcome and which is not over yet.
- `OutcomeReachesServer`: a placed call ends in the server's store too, whichever requests were lost on
  the way, unless a stale webhook takes the provider id from the relay's row.

The store (`sqlite_store`): `ImplementsAtomicStore` is what the comment at `store.py:41-43`
claims, for every interleaving of statements, errors and deaths. `LocksAreReturned` says that no
exit keeps a lock. `NoCircularWait` says that among the threads inside an operation one always
waits neither for its process's lock nor for the file, so that sqlite3's five seconds cut short
slowness and never a deadlock; `EveryCallReturns` is the same as liveness.

Admission (`admission`):

- `ReplaysWhatMeansTheSame`: a key is replayed exactly when the payload means what is stored,
  however its number, texts and language are spelled; its time zone counts to the letter.
- `OnlyEnrolledIsOrdered`: every order has a literal consent and confirmation, and a number on the
  list of the operator who pays for it.
- `RelayAgreesWithServer`: the relay's policy takes a task the server's made for the same task.
- `ReadyMeansConfigured`: what the doctor calls ready is not found incomplete by the provider.

That `demo configure` keeps a profile is no property here: for one command it is the check itself, and
two commands at once can lose a profile, because the check and the write are two steps.

In the session, `MonitorYieldsToFinish`, `SilenceHangsUpOnSilence` and `FinalWordsArePlayed` are about
orders of events, and `FinishCompletes` and `SessionEnds` are liveness.

- `DisclosureIsProtected` is about the audio itself: `opening` says whether Deepgram has begun, and
  finished, sending its first utterance, whatever the session's flags say, and it becomes `cut` when
  Twilio is told to clear meanwhile. Before the deadline that never happens. It is less than that a
  disclosure is always heard to its end: `AgentAudioDone` comes when the audio was sent, and an
  interruption right after it clears what Twilio has not played yet (`voice_agent.py:239`).
- `NothingOutlivesSession`: when `run()` has returned no task is left, although listeners go on until
  their cancellation reaches them and may schedule the final hangup as late as that.

### The bounds, and why they are enough

- Two processes and two calls: processes meet only in the store, in pairs, and a row excludes or
  overwrites another writer of the same row. `lifecycle` has two of each. With callbacks the
  writers of one row are what matters, and handlers of different calls share nothing, so
  `callbacks` has one call, and every writer of it: two processes, webhooks and the session.
- Two keys, two tasks, one of them not allowed: enough for a replay, a conflict and a refusal.
- The endings a run allows are chosen so that each row of the status table is used by some run;
  `canceled` comes with hangups.
- `DemoMode`: two keys, the least for two calls to meet, and one mishap, since each of the ways in
  which a line is freed early needs one at most; two open requests, so that an abandoned request
  runs beside a fresh one or another server's; two servers, so that one is refused because of the
  other. `relay` has the two endings both tables tell apart, a conversation and no answer (one
  key's callee may pick up, `Answering`, neither needs to); the status the server cannot read has
  its own run, `relay_declined`.
- `SqliteStore`: two threads that share a lock, and a third that meets them only in SQLite. The
  server's thread reserves and updates, the callbacks' reads and updates, the other server
  reserves. Two keys and two rows: enough for a replay, a conflict, a busy store and a second row.
- `Admission`: numbers of 7, 8, 15 and 16 digits in two spellings, on one list, the other, both or
  none; payloads that differ from a good one in a field or two, the time zone among them in three
  spellings; each credential missing in turn; every provider, named or inferred; two commands at
  once, at different steps, and four profiles to publish, of which the checks let one pass.
- `RateLimiter`: a horizon of more than two windows lets a bucket fill, empty and fill again. The
  theorems have no bound.
- `VoiceSession` has no bound but its control state; counters stop at the last value told apart.

The proved properties (section 4) hold whatever the bounds.

### Fairness

- `PhoneTasks!FairSpec`: a process finishes the handler it is in (it is sequential and every
  await of the carrier ends); the carrier answers each order and ends each call (`time_limit`);
  the host polls until the row is terminal, which the skill tells it to
  (`src/codex-plugin/fredo/skills/fredo-call/SKILL.md:33`). The polls are strongly fair, because
  the process is busy in between, and so are the lookups' answers: not every one fails.
- `SqliteStore!FairSpec`: a thread inside an operation goes on, or stops waiting for the file
  after five seconds; a process's lock goes in the end to a thread that waits while it comes free
  again and again (strong fairness). No fairness is needed against errors and crashes.
- `DemoMode!FairSpec`: as in `PhoneTasks`, and from some moment on requests do not go wrong any
  more. They may go wrong any number of times before.
- `VoiceSession!Fairness`: the event loop runs what can proceed, timeouts of `run()` and of
  `_hangup_after_playback` fire, threads return, Twilio sends "stop" once the call has ended.
  Nothing is assumed of Deepgram, the caller or the duration guard.

Deadlock is not checked where the system may stop: keys are finite, every call may be over, a
session may be closed. `RateLimiter` checks it, as `allow()` can always be called.

### What the violations show

- `lost_reply`: Twilio accepts an order and the answer is lost. `server.py:88` records FAILED,
  the store is free again, the next task is dialled, and two calls are live, where
  `src/README.md:64` promises one.
- `stale_callback`: a webhook reads the row before `create_phone_task` has recorded the provider
  id, and writes it back after. The id is gone, and with it polling and hanging up,
  until the media route writes it again (`runtime.py:82`), if the callee ever answers.
- `relay_declined`: the relay answers "declined", which the server's table lacks. The server's
  row stays `dialing`, and an active row blocks every later task of that server.
- `goodbye`: the silence monitor asks for the hangup as soon as the goodbye is sent to Deepgram,
  without waiting for it to be spoken.

## 4. What is proved

### PhoneTasks_proofs

For every number of processes, calls, keys and tasks, every set of faults, with and without the
callback runtime, from the assumptions of `PhoneTasks` on its constants alone:

| Theorem | Statement |
|---|---|
| `Invariance` | `Spec => []IInv` |
| `TypeCorrectness` | `Spec => []TypeOK` |
| `AtMostOneDial` | `Spec => []NoSecondDial` |
| `Honesty` | `Spec => []HonestResults` |
| `CancellationHangsUp` | `Spec => []CancelledIsHungUp` |
| `ExclusiveReservation` | `Spec => []ReservationIsExclusive` |
| `Implementation` | `Spec => ImplementsAttempts` |

The properties speak of rows, and none is inductive: a row becomes whatever object some handler
holds. `IInv` therefore says of every object in memory (`WorkerInv`, `HandlerInv`, `MediaInv`)
and of every status on its way (`CallbacksInv`) what the properties say of rows (`RowInv`). It
survives because the carrier only moves forward: what was true of a call when an object was read
stays true (`FaithfulAdvance`), what the carrier said is not taken back (`SaidAdvance`), and the
status table turns a true word into a true status (`MappedIsFaithful`). `KeysApart` and
`CreatorsApart` give the single order per key. There is one lemma for each handler, each carrier
step and each crash; `NextIInv` puts them together. The refinement follows: only `Reserve` and
`PlaceCall` change what `CarrierAttempts` sees, and `IInv` says they do it as it allows.

### RateLimiter_proofs

For every set of clients, `MaxRequests`, `Window` and `Horizon`: `LimiterInvariance`,
`WindowBound` (`[]AtMostPerWindow`) and `NoNeedlessDenial` (`[]DeniedOnlyWhenFull`). The
invariant: a bucket is the end of the client's list of grants, and every grant it no longer
holds has expired. The pruning loop is a least element of a set of numbers (`SetInduction`);
the rest is index arithmetic on that end.

### OneProcess_proofs

These theorems are about what `PhoneTasks` promises of one process that no callback reaches, and
not otherwise.

- `AloneInvariance`, `SingleActiveTask` (`[]OneActiveTask`) and `TerminalStays`
  (`TerminalIsFinal`) assume a single process and no callback runtime (`Alone`); any fault is
  allowed, crashes included. The invariant adds to `IInv` that no callback exists and that a
  process in a handler works on an active row. Each step then writes one active row or adds a
  row to a store without one (`RowsStep`), and both theorems follow from that alone.
- `NoStaleObject` (`[]HoldsTheRow`), under the same assumption: the object a handler has in hand
  is the row it was read from. `CorrelationStays` (`CorrelationIsKept`) follows. The staleness of
  `stale_callback` thus takes a second writer; no fault and no crash brings it about.

That one call at a time is live has no theorem: with the callback runtime `serve` starts in real mode
the row of a call is terminal before the call is over (`runtime.py:88-92`), whatever is assumed of
faults; and without it, `lost_reply` shows it to fall with the first lost answer.

### SqliteStore_proofs

For any threads, processes, keys, tasks and rows: `StoreInvariance`, `TypeCorrect`,
`LocksComeBack` (`[]LocksAreReturned`), `NoDeadlock` (`[]NoCircularWait`) and `StoreIsAtomic`
(`Spec => ImplementsAtomicStore`). The invariant: a thread inside its transaction is the one with
the RESERVED lock, only that one changes the table, so what it has read (no row for the key, no
active row) is true when it commits; its draft is the table with its own row added or rewritten. A
call's step of the abstract store is `Committed`, `Fetch`, or the SELECT that turns it away; every
other step is a stutter.

`NoDeadlock` needs one fact more (`OwnersInv`): a process's lock is held by a thread of that
process. From a waiting thread the proof then follows the locks: who has its process's lock is past
waiting for it; if that one waits for the file, the writing thread does not; and if that one waits
for readers to leave, a reader is there, which waits for nobody. The order in which all take the
two locks is what ends the chain.

### DemoMode_proofs

For any servers, keys, open requests and mishaps: `RelayInvariance`, `RelayTypes`,
`RelayCallsOverlapOnlyIfFreed` (`[]OneCallUnlessFreed`), `RelayFreesEarly` (`[]FreedEarly`) and
`HonestStores` (`[]BothStoresAreHonest`). The invariant has a part for each holder of a fact about
a call: the row (`RowInv`), a webhook that has read one (`HookInv`), a request's handler
(`RequestInv`). A request that creates a task is the only one with its key and knows how far its
order is; any other finds a call that was placed; what was heard of a call stays true of it
(`Keeps`). A row that is terminal while its call is up is in `freed` and came there in one of the
three ways; and of two calls that are up, one is in `freed`, because the relay reserves before it
orders and a reservation finds no active row. There is one lemma for each action of server, relay,
runtime and carrier.

### VoiceSession_proofs

`SessionInvariance`, `SessionTypes`, `DisclosureIsSent` (`DisclosureIsProtected`, an action
property), `MonitorIsSilent`, `LastWords`, `NothingIsLeft` and `OnlyOnSilence` (an action
property), for both values of `ProtectDisclosure`. The invariant is a set of rules between the
session's fields that no single handler enforces: who has to be heard before a field is set, when
the timer may be armed, what an unfinished last utterance says about the flags, and (`Cleared`)
that from the finally block on no task takes a step of its own and each that is not over yet is
waited for. The lemma `Kept` says which fields each rule reads, so that an action is only held
against the rules it touches.

### Admission_proofs

For any payloads, lists, profiles and environments, and numbers of any length:
`AdmissionInvariance`, `OnlyEnrolled` (`[]OnlyEnrolledIsOrdered`) and `DoctorIsRight`
(`[]ReadyMeansConfigured`). The invariant relates a running server's settings to its environment, the
doctor's word to what is there now, and a failed order to a setting the server lacks.

`RecordInvariance`, `AdmissionTypes`, `MeaningIsReplayed` (`[]ReplaysWhatMeansTheSame`) and
`PoliciesAgree` (`[]RelayAgreesWithServer`) are about the task itself. The invariant, `RecordInv`:
a row is the task `build_task` makes of a payload somebody submitted, with its key and a literal
confirmation, and nothing is ordered without a row. What remains is that building a task from a
task gives the same task (`TaskAgain`), hence that normalising a number twice is normalising it
once (`NormalAgain`): what is kept of a number has no separator left (`NormalIsClean`), and of a
number without one everything is kept (`CleanIsNormal`). Both are inductions over the length, and
so is the existence of the recursive function `Kept` itself (`KeptExists`), without which nothing
could be said of its values. The library's induction theorems take a predicate as a parameter,
which these provers cannot supply; `SetInduction` states the same for a set of numbers, from the
library's theorem that `<` on the naturals is well founded.

The model follows one key (the server's table has one row here), so these theorems say what
happens to each key by itself; that keys do not interfere is `PhoneTasks`' and `SqliteStore`'s.

### Only model-checked

Liveness, which is out of the prover's reach: `EventuallyTerminal`, `OutcomeReachesServer`,
`EveryCallReturns`, `FinishCompletes`, `SessionEnds`. Every invariant and every action property a
passing run checks, and both refinements, are theorems.

## 5. What is not modelled

- `classify` (`policy.py`): a list of words looked up in a free text; it changes no state and no
  other operation uses its answer.
- Request authentication and signature checks of the callbacks: they are taken to come from the
  carrier. The relay's bearer token is in `Admission`.
- `bond-mcp install`, which writes one file and without `--force` overwrites none, and what the
  commands print.
- The range of each numeric setting: one flag of the environment says that all are in range.
- Agent prompt and agent configuration, TwiML, URLs, JSON-RPC framing, logging, `/healthz`: texts and
  formatting on which no state depends.
- Errors of the relay's store in demo mode: the handlers are the server's, with whose store
  `PhoneTasks` has them all.
- Starting the callback runtime and binding its port: the constant `Runtime` of `PhoneTasks`.
- Fredo models: value classes.
- Crashes of the session alone: it lives in the runtime and dies with it (`RuntimeCrash`).

Six hazards in `PROJECT.json` have no property, each with the reason beside it: for most, the
behaviour is in a model, but nothing in the repository says what should happen instead.

One thing seen on the way is not a run of its own. In demo mode the doctor calls a setup ready
without `FREDO_ALLOWED_NUMBERS`, as `docs/DEMO-RELAY.md` describes it, while the server's policy
refuses every destination when its list is empty (`policy.py:47`).

## 6. What could come next

Every part that keeps state has its model; what remains would change bounds or the seam between two
models.

1. `callbacks` with two calls: handlers of different calls share only the event loop, and the
   theorems already hold for any number, so this would add time and no case.
2. `PhoneTasks` composed with `VoiceSession` itself. The session reaches a row through its
   outcome, its hang-ups and its end only, and these are actions of `PhoneTasks`. A hang-up whose
   thread outlives the session is no case of its own there: the stream is open only once the call
   was answered, and what it does to such a call `CarrierEnd` does too.
