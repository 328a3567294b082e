# A TLA+ model of AnonX-CPP

AnonX-CPP is a Telegram music bot in C++20. Commands arrive on the receiver
threads of TDLib, a pool of workers carries them out, each playing chat has a
thread that reads PCM from a child process, and the end of a stream enqueues the
next track. This directory models the process from the configuration file to the
last static destructor, down to descriptors and signals where threads meet there,
checks it with TLC, and proves with TLAPS what holds for every size.

    tlc -config DispatcherTurns.cfg MCDispatcher.tla       # a run
    tlapm ThreadPoolProofs.tla                             # the proofs

## 1. Inventory

| Component (source) | State | Operations | Used by |
|---|---|---|---|
| `core::ThreadPool` (`thread_pool.hpp/.cpp`) | `tasks_`, `stop_`, `pending_tasks_`, `completed_tasks_`, `mutex_`, `cv_` | `enqueue`, worker loop, `shutdown` | receiver threads and detached EOF threads enqueue; static destruction shuts down |
| `core::RateLimiter` (`rate_limiter.cpp`) | one bucket per user or chat | `allow` | `dispatch_message` |
| `telegram::CommandDispatcher` (`dispatcher.cpp`) | the pool and the limiter | `dispatch_message`, the handlers, `play_next_in_queue`, the track-ended callback | TDLib, AudioStreamer |
| `audio::AudioStreamer` (`audio_streamer.cpp`) | `sessions_`: chat -> `ChatSession` (state, volume, current track, pipeline) | `play`, `stop`, `pause`, `resume`, `get_state`, `set_volume`, `on_stream_eof` | handlers; readers call back |
| `audio::FFmpegPipeline` (`ffmpeg_pipeline.cpp`) | `is_running_`, `is_paused_`, reader thread, `child_pid_`, `pipe_fd_` | `start`, `stop`, `pause`, `resume`, reader loop | AudioStreamer |
| `audio::NTgCallsClient` (`ntgcalls_client.cpp`) | `active_chats`, `volumes`, `initialized` | `init`, `shutdown`, join, leave, pause, resume, `send_pcm_frame` | handlers, AudioStreamer, readers |
| `database::MongoClient` (`mongo_client.cpp`) | `queues_`, `blocked_chats_` (in memory in this build) | enqueue, pop, clear, get | handlers |
| `telegram::TDLibClient` (`tdlib_client.cpp`) | pending callbacks, listeners, authorization state | `send_request`, receiver loop, `start`, `stop` | main, dispatcher |
| `StreamUrlCache` (in `ffmpeg_pipeline.cpp`) | URL -> (stream URL, expiry) | resolve, clear | nothing in the playback path |
| `core::ConfigLoader` (`config.cpp`) | the configuration | `load`, environment overrides | main |
| `main` and static destruction (`main.cpp`) | `g_running` | start and teardown | |
| Logger, models, build files | | | not modelled: no behaviour depends on them |

What is hard here:

- **Handlers of one chat overlap.** Two workers can be inside `AudioStreamer` for
  the same chat. `sessions_mutex_` covers the lookup, not the work on the session.
- **The end of a stream is an event with three hops**: reader, detached thread,
  pool task. By the time the task runs the chat may be playing something else.
- **`stop()` of a pipeline also produces that event**, because the reader calls
  `on_eof` whenever its loop ends.
- **Joins under ownership**: `play` and `stop` join the reader of the pipeline they
  replace, and the reader takes `sessions_mutex_` on its way out.
- **Check and act are separate** in `enqueue` (capacity), `handle_play` (state) and
  `shutdown` (flag and notification).
- **`pipe_fd_` and `child_pid_` are plain integers** that `stop()` and the reader use
  without a lock; descriptor numbers are reused, and a child inherits whatever is open
  when another reader forks.
- **One queue of updates for two sessions**: `td_receive` serves the whole process, and
  each client takes what it gets for its own.
- **The process ends under its threads**: nothing stops workers, readers and detached
  threads before `main` returns.

What makes each component correct:

- ThreadPool: an exact counter, FIFO, each accepted task once, none lost at shutdown.
- RateLimiter: no window of time exceeds burst plus rate, and nothing is refused without need.
- Dispatcher: queued tracks get played, in order and once; `/stop` silences; `/skip` skips one.
- AudioStreamer: no use of a freed object, a reader is joined before its objects go,
  the reported state agrees with what is being read.
- FFmpegPipeline: the stream of a chat is handed on whole and unmixed, `stop()` returns,
  no descriptor, zombie or process is left.
- NTgCallsClient: in the call exactly while something plays, in none after `shutdown()`.
- TDLibClient: the bot logs in, a message is handled once, none after `stop()`.
- ConfigLoader: each setting comes from where the code says it does, also when the file fails half way.
- Teardown: the process exits.
- Gain: no overflow, no fold-over.

The hazards, each at its line, are listed in `PROJECT.json`.

## 2. Modules

| Module | Models | Built on |
|---|---|---|
| `TaskPool` | what the pool promises: one FIFO queue, each task taken once | |
| `ThreadPool` | `core::ThreadPool`, one atomic access, critical section or notification per step | implements `TaskPool` |
| `ThreadPoolProofs` | its theorems | `ThreadPool` |
| `WindowLimiter` | what the limiter promises, over all windows of time, without buckets | |
| `RateLimiter` | `core::RateLimiter::allow` | implements `WindowLimiter` |
| `RateLimiterProofs` | its theorems | `RateLimiter` |
| `MongoClient`, `NTgCallsClient` | the two stores, one operation per step since one mutex covers each | |
| `PcmStream` | the contract between `AudioStreamer` and a pipeline; each side is checked against it | |
| `Posix` | external: descriptors, pipes, `fork`, signals, `waitpid` of one process and its children | |
| `FFmpegPipeline` | several pipelines of one process: the owner's `start`, `stop`, `pause`, `resume`, and the reader thread | `Posix`; implements `PcmStream` |
| `AudioStreamer` | `play`, `stop`, `pause`, `resume`, the reader thread and `on_stream_eof`, one step per access another thread can see | `NTgCallsClient` |
| `Playlist` | what a chat may expect of its requests, without threads | |
| `Dispatcher` | the commands, the pool as a queue, the handlers, composed with the streamer and the stores | implements `Playlist`, uses `PcmStream` |
| `DispatcherInvariant` | the inductive invariant of `Dispatcher`, part by part | `Dispatcher` |
| `DispatcherSteps` | what each step of `AudioStreamer` does to each variable, and that the steps of calls and readers keep the invariant | `DispatcherInvariant` |
| `DispatcherProofs` | the steps of the dispatcher keep it too; the theorems | `DispatcherSteps` |
| `TurnsInvariant` | what holds besides while the handlers of a chat take turns | `DispatcherInvariant` |
| `TurnsProofs` | every step that keeps the turns keeps it; the theorems about taking turns | `TurnsInvariant`, `DispatcherProofs` |
| `Teardown` | the end of `main` and the static destructors, over a `Dispatcher` that goes on | `Dispatcher` |
| `TeardownProofs` | its theorem | `Teardown` |
| `ConfigLoader` | where each setting comes from | |
| `TDLibClient` | two sessions, their receiver threads, and libtdjson | |
| `Main` | `main` from the configuration to the stop of both clients | `TDLibClient`, `ConfigLoader` |
| `MainProofs` | its theorems | `Main` |
| `PcmGain` | `/volume` and the scaling of a frame | |
| `AudioProofs` | the theorems about pipelines and gain | `FFmpegPipeline`, `PcmGain` |
| `MCThreadPool`, `MCRateLimiter`, `MCDispatcher`, `MCFFmpegPipeline`, `MCMain`, `MCTeardown` | instances for TLC | |

### ThreadPool

`callerPC` runs through `enqueue` (`check_stop`, `check_capacity`, `charge`, `push`,
`notify`), `workerPC` through the loop of the constructor, `ownerPC` through
`shutdown`. `mutex_` is not a variable: a critical section is one step, except that a
worker whose predicate was false holds the mutex until `cv_.wait` has put it to sleep
(`park`). That gap is where `shutdown`, which stores `stop_` without the mutex, loses
its notification. Spurious wake-ups are allowed and never relied on. `offered`,
`executed` and `backlog` are history variables.

### RateLimiter

Time is a counter of ticks, tokens are integers in a unit that makes the rate per tick
and the price integral. The mutex covers the reading of the clock, so one call is one
step. Rounding of `double` is left out. `granted` remembers when commands got through,
`answer` what a call returned: with it, a wrong refusal is a step that `WindowLimiter`
does not allow.

### AudioStreamer

Sessions and pipelines are heap objects; each is named by the track of the `play` that
allocates it, so `Tracks` is also the heap. `call[w]` is the program counter and the
local variables of the operation thread `w` is in: the session it holds (`s`, its
`shared_ptr`) and the pipeline whose member function it executes (`p`). A session is
destroyed when the map and all calls have let go of it, and with it its pipeline.

Of `FFmpegPipeline` this module keeps what its callers can see: `is_running_`,
`is_paused_`, whether the object exists, and the reader thread (`starting`, `reading`,
`held` while it sleeps because of a pause, `ending` on its way to `on_eof`, `exited`
but not joined). The reader's steps are those of `PcmStream`, which `FFmpegPipeline`
implements. That the streamer and its readers keep to `PcmStream` as well is
`UsesPcmStream`: so the two models meet in one contract, checked from both sides.

Undefined behaviour is made explicit. `session->pipeline` is a plain `unique_ptr`:
`if (pipeline) pipeline->stop()` may load it once or twice (`Loaded`), and `reset()` and
the assignment of a new pipeline read the old pointer in one step and replace it in the
next (`Reset`/`Clear`, `Create`/`Install`), so two calls may delete the same object.
Using a null pipeline, or deleting one twice, ends the process (`crashed = "memory"`);
using a destroyed one may end it or may just work. Two threads that join the same
reader make one of them throw; in a destructor that terminates the process, as does
assigning to a joinable `std::thread`. `raced` is a history variable: two calls have
worked on one session at the same time.

### FFmpegPipeline and Posix

`Posix` knows pipe ends rather than numbers where it can: `fd` maps each descriptor of
the process to the pipe end behind it, `holds` gives the ends a child has inherited,
`pipe` counts the units in the pipe, `child` follows a process from `fork` to
`waitpid`. `pipe()` takes the lowest free descriptors, so that a number that was closed
comes back as another chat's pipe, which is what a stale `pipe_fd_` then names. The
decoder (yt-dlp and ffmpeg, one process here) makes its group, closes the read end,
writes `Size` units and exits; a signal or a broken pipe ends it earlier.

`owner[p]` is the program counter of `start()` and `stop()`, `reader[p]` that of
`reader_thread_loop`, each access to `pipe_fd_`, `child_pid_`, `is_running_` and
`is_paused_` a step. `raced` notes that one thread has used `pipe_fd_` between the
`close()` and the `= -1` of the other. `Phase` maps the reader's program counter to
what `PcmStream` knows.

### Dispatcher

The pool is the queue that `ThreadPool` implements; admission counts queued and running
tasks and is atomic here. A worker that runs a handler is in `handler[w]`, and in
`call[w]` as well while inside `AudioStreamer`. `dispatch_message` stands for a command
that is not blocked and that the rate limiter lets through. `queue`, `ping`, `help`
change nothing and are left out, and so are the answers sent to the chat; `volume` is in
`PcmGain`.
`FFmpegPipeline::start` always returns true, so the branches for a failed start
(`dispatcher.cpp:188` and the recursion at `:330`) are never taken. `starts`, `granted`
and `last` are history variables.

`Spec` has every interleaving of the handlers. `TurnsSpec` has those in which no two
handlers of one chat overlap (`TakeTurns`), on as many workers as there are, while handlers
of different chats, readers and detached threads interleave as they like. The code does not
see to it that handlers take turns: the runs `DispatcherStop` and `DispatcherStranded` show
what that costs, and `TurnsSpec` shows that it is the whole cause. What holds of it can go
wrong in the program only after two handlers of one chat have overlapped, and would hold
with a lock, or a queue, per chat.

### Teardown

`main` continues where the signal handler has cleared `g_running`: both clients have
been stopped (their part is in `Main`), then `NTgCallsClient::shutdown()`,
`MongoClient::disconnect()`, and the static objects in the reverse order of their
construction: `AudioStreamer` (whose destructor joins readers under `sessions_mutex_`),
`CommandDispatcher` with the pool, `NTgCallsClient`. The other threads take the steps
of `Dispatcher` in between. A step that needs a mutex the main thread holds, or one that
`join_group_call` has locked twice (`relocked`), waits; a use of a destroyed object, and
an `enqueue` refused by a stopped pool on a detached thread, is a crash.

`~ThreadPool` is three steps, as in the code: `StopPool` stores `stop_`, `NotifyWorkers`
notifies, `JoinWorkers` joins, none of them under `mutex_`. An idle worker is asleep unless
it is in `gap`, between the predicate that was false and its sleep; from the moment before
`stop_` is stored on, `Checks` puts it there. A worker that falls asleep after the
notification is in `missed`: it sleeps until a spurious wake-up, and the join waits for it.
As long as a worker is in its gap it holds `mutex_`, so no `enqueue` pushes.

### TDLibClient, ConfigLoader and Main

`session[c]` is what libtdjson knows of a session, `auth_state[c]` what the client has
noted; `inbox` is the one queue of updates. A receiver takes the oldest update whoever it
is for; `strayed` notes that it was for the other one. TDLib's documentation forbids two
threads in `td_receive` at once, which this program has; the model takes the best case,
in which the calls take updates one after the other. `loaded = FALSE` is the simulated
mode without the library, in which `start()` sets Ready at once.

A setting is the set of sources it was assembled from (file, environment, none): only
`sudo_users` can have both, since the environment is added to the file's. The file gives
each field as absent, good or bad, and a bad one throws, which ends the reading. The
environment cannot set `data_dir` and `downloads_dir`, although `src/README.md:119` says
"All settings can also be overridden".

## 3. Runs

| Run | Instance | Checks |
|---|---|---|
| `ThreadPool.cfg` | 2 workers, 2 callers, 3 tasks, capacity 1 | `PendingExact`, `OvershootBounded`, `DrainedBeforeExit`, `NobodySleepsOnWork`, `ImplementsTaskPool`, `AcceptedRuns` |
| `ThreadPoolShutdown.cfg` | the same | `ShutdownReturns` **is violated** |
| `RateLimiter.cfg` | the limiter of `dispatcher.cpp:57` on a clock of 1/6 s, 8 ticks, and an entity that asks for too much | `EveryWindowBounded`, `ImplementsWindowLimiter` |
| `DispatcherTurns.cfg` | `TurnsSpec`; 2 workers; 3 plays, 2 skips, 1 stop; a pool that is never full; pipe and fork, and joining the call, may fail | `SkipCanAdvance`, `StopSilences`, `ImplementsPlaylist` |
| `DispatcherRest.cfg` | 1 worker; 2 plays, 1 each of skip, stop, pause, resume; a pool of 3; nothing fails | `NoStrandedTrack`, `SessionTellsTruth`, `InCallWhilePlaying`, `OnlyAFullPoolCrashes`, `ComesToRest` |
| `DispatcherParallel.cfg` | 2 workers; at most three of 2 plays, 1 skip, 1 pause, 1 resume; a pool of 2; pipe and fork may fail | `ReadersOwnLiveObjects`, `MemoryErrorsNeedARace`, `NobodyWaitsInVain`, `UsesPcmStream`, `OnlyAFullPoolCrashes` |
| `FFmpegPipeline.cfg` | 2 pipelines of 2 and 3 units, descriptors 3 to 6, frames of 2, pipes that hold 1; pipe and fork may fail; the first can be paused and stopped | `TypeOK`, `StreamsApart`, `NoDescriptorLeak`, `ReapedUnlessStopped`, `OnlyInheritanceBlocks`, `NothingElseBlocks`, `NothingSurvivesStop`, `ImplementsPcmStream` |
| `Main.cfg` | a bot and an assistant, 1 message, files with at most one bad field, no file, no assistant; 4 environments; with and without libtdjson | `SettingsComeFrom`, `ReadyMeansLoggedIn`, `HandledOnceAtMost`, `NoMessageAfterStop`, `BotLogsIn`, `MessagesAreHandled`, `ClientsStop` |
| `Teardown.cfg` | 1 worker; 2 plays, 1 skip, 1 pause; a pool of 3; the first track endless; pipe and fork may fail | `NoCallAfterShutdown`, `TeardownEnds`, `IdleBotExits` |
| `DispatcherSkip.cfg` | 1 worker; 3 plays, 1 skip; streams that do not end | `SkipAdvancesOneTrack` **is violated** |
| `DispatcherStop.cfg` | 2 workers; 2 plays, 1 stop | `StopSilences` **is violated** |
| `DispatcherStranded.cfg` | 2 workers; 2 plays | `NoStrandedTrack` **is violated** |

**Bounds.** With capacity 1 two callers reach the overshoot, and three tasks fill the queue
beyond what two workers hold, so order can go wrong. The limiter's burst of six commands is
used up and partly refilled within eight ticks, so windows that begin before and after the
bucket was empty both occur. Three plays put two tracks in the queue, which is what FIFO
needs; two skips and a stop overlap with the ends of two streams (the second track never
ends on its own in `DispatcherTurns`, so a stream is still playing at some ends). One chat
is enough because chats share only mutexes held for one step and the pool; the handlers of
that one chat alternate between the two workers in `DispatcherTurns`, and what handlers of
other chats do meanwhile is left to `TurnsProofs`. Two workers suffice for every race of two
calls; races of three are left to the proofs. In these two runs the workers are symmetric,
and they check safety only; in the parallel one three commands of four kinds are enough for
every pair of calls to overlap with a third one waiting, and a pool of two is refused and
filled.

Two pipelines are what inheritance and the reuse of a descriptor need: one whose number
comes back, one that gets it. Four descriptors let both have their pipe at once and make
every reuse happen at once. A frame of 2 with 3 units makes a short last frame, one of 2
a stream that ends with a frame; a pipe that holds 1 makes the child wait for its reader.
The second pipeline is never stopped, so that the other's `stop()` meets it at every
point. One message is enough for the startup because a message never meets another
one in any step; files with two bad fields read like those with the first. The
teardown has one worker because the races of two are the parallel run's; with an endless
track, one that ends, and a pause, every phase of a reader is met by every step of main.

**Deadlock** is checked except where the program may really stop: in the parallel run
(after a race a pipeline can be launched between another call's `stop()` and its join,
and when it is paused that join waits for ever), in the pipeline run (streams end and
owners have nothing more to do; what may be at rest is the subject of
`OnlyInheritanceBlocks`), and in the teardown (the process exits or hangs).

**Fairness.** Weak fairness of each thread that can take its next step, which is what
an operating system gives: workers, callers in `enqueue`, the thread in `shutdown`, the
main thread, receivers, detached threads, readers. No fairness for the arrival of
commands, messages and signals, for the end of a stream, for spurious wake-ups or for
shutting down. A receiver never blocks for more than the second its `td_receive` waits.
`Join` is enabled only when the reader is gone, so a thread in a join is not obliged to
advance. The pipeline run states what may be at rest (`AtRest`) instead of liveness: it holds under
any fairness. `AtRest` spells out the guards of the calls that block (a join, a `read()` of
an empty pipe, a `waitpid`, a paused reader, a child that writes to a full pipe), so that it
can be reasoned about; `NothingElseBlocks` checks it against `ENABLED`.

**Conditions.** Several properties hold only up to a named condition, and TLC finds a
counterexample when it is dropped. Each condition is a finding about the code:

- `raced` of the pipeline (`StreamsApart`): a `stop()` that closes `pipe_fd_` while the
  reader is about to read it lets the reader read, or close, the pipe of another chat.
- `Inherited` (`OnlyInheritanceBlocks`, `NothingSurvivesStop`): pipes are made without
  `O_CLOEXEC`, so a child forked by another reader keeps a write end open, and the first
  reader does not see the end of its stream until that child is gone; a `stop()` joins it
  that long. With three chats the two findings add up: a reader that a stale `pipe_fd_` led
  to a second chat's pipe hangs there when the child of a third has inherited it. Two
  pipelines do not show that; the proof for any number of them did not go through without
  the third alternative of `OnlyInheritanceBlocks`, and TLC then found the behaviour.
- `owner = "started"` (`ReapedUnlessStopped`): `stop()` waits with `WNOHANG`, right after
  the signal, and then forgets the pid: its child usually stays a zombie.
- `strayed` (`ReadyMeansLoggedIn`, `HandledOnceAtMost`, `BotLogsIn`, `MessagesAreHandled`):
  when the assistant's receiver takes the bot's `WaitPhoneNumber`, the bot never logs in; a
  message seen by both sessions can be handled twice or not at all; a session can note
  Ready for the other's login. `NoMessageAfterStop` and `ClientsStop` need no condition.
- `relocked`, `JoinsUnderLock`, `raced` and `missed` (`TeardownEnds`): the four ways in which the
  end of the process can hang: a `/play` that is under way joins a call after
  `shutdown()` and locks the same mutex twice (`ntgcalls_client.cpp:187`);
  `~AudioStreamer` joins a reader that waits for the `sessions_mutex_` the destructor
  holds (`audio_streamer.cpp:12`), which is what happens when the bot is stopped while
  anything plays; a `play` that is at work on a session that the destructor has
  just stopped starts its stream all the same; and `~ThreadPool` notifies an idle worker
  between its predicate and its sleep (`thread_pool.cpp:38-42`). The last can keep even a bot
  with nothing to do, so `IdleBotExits` has the condition `missed` as well.
- a `pipe()` or `fork()` that fails (`NoStrandedTrack`, `SessionTellsTruth`,
  `InCallWhilePlaying`): the reader returns without `on_eof` (`ffmpeg_pipeline.cpp:336`), the
  state stays Playing, and the queue waits until somebody skips. That a `/skip` is enough is
  `SkipCanAdvance`.
- handlers of one chat that overlap: `StopSilences` and `NoStrandedTrack` are violated by two
  of them (findings 3 and 4). `DispatcherTurns` checks under `TurnsSpec`, and `DispatcherRest`
  with one worker, where handlers take turns by themselves; the theorems are about any number of
  workers.
- `raced` of the streamer (`ReadersOwnLiveObjects`, `MemoryErrorsNeedARace`,
  `NobodyWaitsInVain`, `UsesPcmStream`, `OnlyAFullPoolCrashes`): two calls on one session
  can use a pipeline that the other has destroyed, or start one between the other's `stop()`
  and its join, which then waits for a stream that nobody has told to end.

### What the runs found

1. **`shutdown()` can hang** (`thread_pool.cpp:38-42`). A worker evaluates its predicate
   to false; the owner sets `stop_` and notifies; the worker goes to sleep and is joined
   for ever. Holding `mutex_` around the store would exclude it. `~ThreadPool` calls
   `shutdown()`, so this can also happen at the end of the process (`missed` in `Teardown`).
2. **`/skip` cascades** (`ffmpeg_pipeline.cpp:405`). `play` stops the old reader, whose
   loop ends and calls `on_eof`, which enqueues `play_next_in_queue`; that stops the
   track just started, and so on until the queue is empty and the bot leaves the call.
3. **`/stop` does not stop** (`dispatcher.cpp:184`). A handler of another worker that has
   decided to play, or has popped a track, plays it after the stop.
4. **A track can be stranded** (`dispatcher.cpp:173-193`). The state is read as playing,
   the stream ends, the empty queue is popped, then the track is queued.

The last two need two handlers of one chat that overlap: while they take turns both
properties hold, on any number of workers (`StopIsObeyed`; `NothingStranded`, where decoders
can be started).

`TypeOK` is in a run of the pipeline only, where it says that no read overruns a frame; the
type invariants of `ThreadPool`, `RateLimiter`, `Dispatcher` and `Main` are proved, for
every instance.

### Mutants

Each property of a passing run is shown to be able to fail: a definition named "Mutant of
X" stands before X and replaces it, and the property is then violated under the same cfg.

## 4. Proofs

**ThreadPoolProofs**, from `PoolAssumption` (finite, non-empty sets of workers and
callers, a natural capacity). `IInv` is the conjunction of

- `TypeOK` and `PendingExact`;
- `Admission`: the capacity bound counts callers between the check and the increment as
  well; `OvershootBounded` alone is not inductive, because `Charge` increments without
  looking;
- `Roles`: where a thread is decides whether it carries a task; no worker has left
  before `stop_`;
- `Fresh`: a task that a caller carries is nowhere else, which is what makes `Push` a
  `Submit` of `TaskPool`;
- `BacklogKept`: no task of the backlog is lost, and none is queued once a worker has
  left.

Each part is preserved action by action (`NextIInv`). From it follow `TypeCorrect`,
`PendingNeverDrifts`, `OvershootIsBounded`, `ShutdownDrains` and `PoolRefinement`.
`NoLostWakeup` counts: while somebody sleeps, the queued tasks are no more than the workers
awake and the notifications on their way. A worker that falls asleep would break that, if it
had not seen an empty queue, to which nobody can add while it holds the mutex
(`SleepsOnNothing`, the strengthening in `WInv`). The notification of `shutdown()`, sent
without the mutex, has no such protection, and is lost (`ThreadPoolShutdown.cfg`).

**RateLimiterProofs**, from `LimiterAssumption` (naturals). Neither the bound on windows
nor the refinement is inductive. `BucketExact` is: the tokens leave room in no window
more than that window has (`Room`), and unless the bucket is full some window has no
more room than that (`Tight`). `RefillExact` carries both over the refill,
`PaysIffConforms` turns them into "the bucket pays exactly when all windows conform",
from which `WindowsStayBounded` and `LimiterRefinement` follow.

**AudioProofs**. For the pipelines, from `PosixAssumption` and `FrameAssumption` (a pipe holds
something, a frame is not empty): any pipelines, descriptors and sizes. `IInv` has

- `Types`: `TypeOK`, and a `read()` that is at work has a pipe end;
- `Descriptors`: an open end of `p`'s pipe is where the thread that will close it finds it,
  in `pipefd` of the reader or in `pipe_fd_`. `NoDescriptorLeak` is its case of a reader that
  has returned. It holds with races because a `close()` of a stale number can only close an
  end too early;
- `Lives`: what has not been started has not happened, `is_running_` is set only between
  `start()` and the end, a reader that nobody stops has its descriptor, and the child is
  there before the loop begins;
- `Reaping`: as long as nobody stops the pipeline, its reader knows the child until it has
  waited for it. `ReapedUnlessStopped` is its case of a reader that has returned;
- `InPlace`: what the place of each thread tells of the pipe and the child: a `read()` has
  room in its frame and the read end of some pipe, a reader in `waitpid` has a child, only a
  child that is alive holds an end, and one past its `exec` not the read end of its own pipe;
- as long as nothing has raced: `OwnPipe` (the numbers in use name the reader's own pipe),
  `Counted` (until `stop()`, every unit the child wrote is delivered, in the frame or in the
  pipe) and `AtEnd` (a running stream ends, for the child and for the reader, after its last
  unit).

`raced` never becomes false again, so the conditional part is preserved step by step. The
refinement needs of all this only what ties `Phase` to `is_running_`.

`OnlyInheritanceBlocks` and `NothingSurvivesStop` follow from `IInv` by asking who waits for
whom (`ChildHeldUp`, `ReaderHeldUp`): a child that is held up writes to a full pipe that its
own reader does not read, yet somebody could read it, which by `Descriptors` and `InPlace` is
a child of another pipeline; a `read()` that is held up waits for the writers of an empty pipe,
and the process itself has none open, nor does that pipe's own child wait. The theorems are
`TypeCorrect`, `NothingLeaks`, `StreamsStayApart`, `ChildrenAreReaped`, `OnlyInheritance`,
`StopLeavesNothing` and `PipelineImplementsPcmStream`. They use `AtRest` as its guards define
it; that these are the places where no step is enabled is `NothingElseBlocks`, which a run checks.

For the gain, from the ranges of a sample and of the volume alone: the product fits an
`int` (`ProductFits`), the shortcut for 100 changes nothing (`ShortcutIsScaling`), the gain
is monotone and stays a sample (`GainKeepsOrder`), and nothing clips up to 100
(`NothingClipsUpTo100`). `VolumeInRange` shows that `/volume` keeps the range assumed.

**DispatcherProofs**, from `DispatcherAssumption` (at least one worker, a natural capacity, and
a natural number of commands of each kind): any sets of chats and workers. None of the theorems is inductive.
`IInv` (module `DispatcherInvariant`) has

- `Types`: more precise types than `TypeOK`, and `Control`, which says what the program
  counters of a worker tell of its other local variables: which operation it is in, and
  whether it has a session and a pipeline;
- `OnceEach`: a track is in one task, in one queue or in the hands of one worker, and nobody
  has it before it was asked for. Since objects are named by the track of their `play`, this
  is also what makes an allocated object a new one;
- `StartedOnce`: a track whose stream was started is nowhere any more, or with the worker that
  started it, whose call is past the launch;
- as long as nothing has raced, `Ownership`: objects that will be allocated are not there yet
  (`Fresh`); a session is at one chat, at work in one call, and a pipeline is in one session
  (`Apart`); what a session owns is live, and so is a session that owns something (`Owned`);
  what a call has read of its session is still so (`Knows`); a pipeline without a session
  belongs to the call that makes or deletes it, and is deleted by one (`Handed`); the
  `volume` a reader points to is that of the session which owns its pipeline (`Readers`); and
  no memory error has happened (`NoMisuse`).

A call takes some twenty kinds of steps, and each can disturb most of these parts, for its own
worker and for the others. `DispatcherSteps` therefore first shows what each step does to each
variable (`LookupDoes`, `HaltDoes`, ...) and then, from these facts alone, that the types stay, and that each part of `Ownership` stays for the worker that moved and for
another one; `DispatcherProofs` does the same for the dispatcher, whose steps carry tracks from
place to place (`Carries`). `raced` is never reset, so `Ownership` may be assumed before a step
that ends without a race. The theorems are `TypeCorrect`, `NoMemoryErrorWithoutRace`,
`ReadersAreSafe`, and `PlaylistRefinement`: where a track is decides its status (`StatusesAre`),
the places exclude each other (`OneStatus`), and every step, with or without races, is one
of `Playlist` or changes nothing that `Playlist` sees (`Noticed`).

`CrashNeedsAFullPool` is the action property `OnlyAFullPoolCrashes`, for any number of workers:
no join is a second one, since that would be a race (`JoinsAlone`), so no call throws or
terminates (`CallsDoNotTerminate`), and the one step that ends the process is an auto-advance
that a full pool refuses.

Two more need `PInv` besides: as long as nothing has raced, a pipeline that is to be made was
never used (`Blank`), and one that a call joins has been told to end (`ToldToEnd`). A call
works on its own pipelines only (`Pipes`, `AtWorkOn`), so no other call takes that back.
`PipelinesAreUsedAsPromised`: each step moves one pipeline by a step of `PcmStream`, or none.
`NobodyIsStuck`: whoever holds `sessions_mutex_` waits for nobody, so a reader that is told to
end gets there, and its join with it; if all the same everybody waits, all workers wait for
a task, and the pool is empty (here the assumption of at least one worker is needed).

**TurnsProofs**, about `TurnsSpec`: any chats, workers, commands and capacity of the pool, as
long as the handlers of a chat take turns. Without that condition the properties are false
(runs `DispatcherStop` and `DispatcherStranded`), and the program does not see to it; the
theorems say that nothing else is wrong, whatever handlers of other chats, readers, detached
threads and failures do meanwhile. `TInv` (module `TurnsInvariant`) is kept by every step after
which the turns are still kept, from a state of `IInv`:

- nothing races, ever: a session is known to the handlers of its own chat only, so a call that
  finds a session finds it alone;
- `Paired`: the handler and the call of a worker belong together, and no join throws;
- `Unmapped`: the session a `stop()` works on is out of the map, and so is its chat;
- `Homed`: a reader that runs belongs to the session its chat has in the map, or to the one a
  `stop()` is at work on. This is why `on_stream_eof`, which marks whatever session the chat
  has, marks the right one;
- `Streaming`: the pipeline of a mapped session, unless a `play` is replacing it, is being
  read, or its reader has returned and an advance of the queue is on its way (`Advancing`: a
  detached thread, a task in the pool, or a handler that has not yet looked the session up);
- `Truthful`: the state of such a session is Paused or Playing as its reader is. The order of
  the last two steps of `play` does not matter, because the advance of a stream that ends
  before Playing is stored is still to come;
- `BrieflyIdle`: such a session is Idle only while its chat advances, whatever has failed;
- `Awaited`: tracks wait only for a chat that has a session, and `/play` decides to queue only
  then; `stop()` is called only with an empty queue;
- `InCall`: the bot is in the call of a chat only if the chat has a session, gets one, or had one
  that a `stop()` works on; and, when joining cannot fail, in each of those;
- `Obeyed`: after a last `/stop` the chat has that `/stop` in the pool with no `/play` or
  `/skip` behind it, or it has no session and nobody will make one.

All but the first four are about one chat (`ChatInv`). A step of one handler is shown to keep
`ChatInv` of its own chat (`Sole`: no other handler is on it), and to leave alone what that of
the others speaks of. When all is quiet nothing is on its way, and the properties are what is left of these parts:
`NothingStranded`, `StateTellsTruth`, `OneCallPerStream`, `StopIsObeyed`. The first three assume
that `pipe()` and `fork()` do not fail (`~SpawnMayFail`), since the reader of a failed start
returns without `on_eof` and nobody advances the queue (`ffmpeg_pipeline.cpp:336`);
`OneCallPerStream` also that calls can be joined, since `handle_play` goes on without one.
What remains when all of these may fail is `SkipStillHelps`: no chat is Idle while tracks wait
for it, so a `/skip` goes on to them and a `/play` does not overtake them.

**TeardownProofs**: any chats, workers, commands and failures, from no assumption at all. That no
call is left after `shutdown()` is not inductive, because a worker may be about to join one.
`IInv` adds that `initialized` stays false: `join_group_call` then calls `init()`, and hangs.

**MainProofs**, from `MainAssumption`, `SettingsAssumption` and `TDLibAssumption` (files and
environments give each field as absent, good or bad, environments a bad one only where a number
is parsed; two different clients, one of them the bot; no message is the name of a state): any messages, files and environments. `IInv` is the
types; `Reading` (while the file is read, the configuration has what the fields before the next
one give, and nothing after a bad one), which is the induction along the fields that
`SettingsAreRight` needs; `OneListener` (only the bot's client listens, and it runs until
`stop()` has joined its receiver); and, as long as no update strays, `TakesOwn` (a receiver
has an update of its own session in hand), `OnceEach` (a message for the bot is unwritten,
once in the queue, in hand, or dispatched) and, with libtdjson, `LoggedIn` (whoever is said
to be Ready, in the queue, in hand or in `auth_state`, is logged in).

**Only model-checked**: every safety property of the passing runs is a theorem above, except
`NothingElseBlocks`, which is about `ENABLED`. Beyond the prover are also all liveness
properties (`AcceptedRuns`, `ComesToRest`, `BotLogsIn`, `MessagesAreHandled`, `ClientsStop`,
`TeardownEnds`, `IdleBotExits`).

## 5. Not modelled

- `StreamUrlCache` and `resolve_stream_url`: nothing in the program calls them; the reader
  hands the query to yt-dlp itself.
- Logger, data classes, build and container files: no behaviour of the program depends on
  them.
- `remove_track_at` and `set_chat_blocked`: nothing calls them.
- The Windows branches of the pipeline, and the loading of the two libraries.
- `send_pcm_frame` reads `active_chats` without the mutex: a data race inside a container,
  which a model of whole operations does not tell apart. The odd byte of a frame that a
  decoder was killed in the middle of is below the samples `PcmGain` works on.
- The answers to requests of TDLib: no caller asks for one.
- Rounding of `double` in the rate limiter; formatting of messages; parsing of commands.
- What libntgcalls, TDLib, yt-dlp and ffmpeg do is external; of them the models keep what
  the code relies on.
- Runs with three workers. What is proved holds for any number of them; what needs a run is
  checked with one or two.
