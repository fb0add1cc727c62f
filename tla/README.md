# A TLA+ model of akari-bot

akari-bot is a chat bot made of several processes: a supervisor (`bot.py`), a *server* that
parses messages and runs modules, one *client* per chat platform, and optionally a WebSocket
*hub*. They talk through the JobQueue (`core/queue`), an RPC and signal bus with two production
backends (a shared database, or the hub) and an in-memory one for tests. The specifications
are about what is hard to test in it: who executes a request when several processes poll the
same table, what survives a crash, a timeout or a restart, what a peer tells the others about
itself and in which order, and how things end when they end in an unlucky order.

Contents: [inventory](#inventory) · [modules](#modules) · [correspondence](#correspondence-with-the-code) ·
[runs](#runs) · [fairness](#fairness) · [proofs](#proofs) · [disagreements](#disagreements-with-the-documentation) ·
[limits](#what-is-not-modelled-and-why) · [plan](#plan)

## Inventory

### JobQueue RPC (`core/queue/base.py`, `database.py`, `core/database/models.py`)

*State.* In each process the dictionary `_pending` of futures, the set `_process_tasks` of
handler tasks, `pause_event`, `_poll_lock`, `_maintenance_lock`, the flags `_registered`,
`_maintenance_active`, `_shutting_down`. In the database the tables `JobQueuesTable` (one row
per request: target, status `pending`, `processing`, or a terminal one, claimer, timestamp) and
`JobQueuePeersTable` (one row per process: service, state, lease).

*Operations.* `call()` resolves its target, sends, waits for a future under a deadline and
abandons the row if it has no response; `submit()` sends only. Every process runs
`check_job_queue()`: a heartbeat, a read of the responses to its pending calls, and a batch of
claims, each of which becomes a task of `_process_task()`. `_start_peer()` and `_stop_peer()`
register and unregister; `expire_stale()` ends what dead peers left; `clear_task()` runs each
hour. Signals (`emit_signal`, `gather_signal`) are best effort.

*Correct when* a request is executed at most once, a result is stored at most once and told to
the right caller, nobody's claim is forgotten, every call ends and every row goes.

*Hard:* several processes poll one table; a crash between claim and answer; a lease that lapses
while its owner still runs; a send, a response or a deletion that fails after it committed;
cancellation of a task before its first step.

### Peer lifecycle (`core/queue/base.py`, second half)

*State.* The locks and flags above, shared by the coroutines of one event loop: the poller, the
handlers, maintenance windows (which handlers open, to reload modules), and the shutdown.

*Correct when* the body of a window runs while no other handler does; claiming resumes after it
however it ended; a peer in maintenance or shutdown is not advertised as ready; the shutdown
ends and leaves no handler.

*Hard:* windows nest and compete; they are cancelled by the deadline of their own handler; each
registry write is an await at which a heartbeat or a shutdown may run.

### WebSocket hub (`core/queue/websocket.py`)

*State.* In the hub: connections with bounded queues, peer records with leases, deliveries
(requests accepted and not answered). In a client: futures of commands, responses read and not
consumed, a bounded queue of incoming requests.

*Operations.* Commands (`register`, `set_state`, `unregister`, `send_many`, `abandon`), the
response frame, connection, disconnection, the expiry loop. A command runs under the hub's lock;
its result is queued in a second section of it.

*Correct when* every delivery is ended exactly once, by its response or by what happened to its
server; a caller never waits for something that exists nowhere.

*Hard:* overload closes connections; clients connect again under the same id; a response passes
the result of the command it belongs to; the hub restarts and forgets everything.

### Execution locks and merges (`session/lock.py`, `utils/union_merge.py`)

*State.* In the server: `ExecutionLockList._list` (the identities each lease covers),
`_reservations`, the event `_changed` that is replaced whenever it is set, and for each command
an `ExecutionState` (token, owner task, subject) that the session of an answer may come to
share. In the database: which account is bound to which *union*. The identities of a user are his
account, its union, and every account bound to that.

*Operations.* `acquire()` reads the identities, looks at the leases and installs one; a command
gives its lease up (`remove()`) while it waits for its user and takes it again; `reserve()` extends
the lease of a merge over both unions and waits for whoever it meets; `refresh()` shrinks it to
the merged union. A callback of the owner task removes a lease nobody gave back.

*Correct when* leases exclude each other, nobody waits for himself or for somebody who waits for
him, no wake-up is lost, no lease outlives its command, and a merge moves only accounts that it
has locked.

*Hard:* identities are read by queries, and are old when the lease is installed; two merges whose
unions overlap in part; a message that answers a command goes on as a command itself, under the
same `ExecutionState`; any await may raise.

### Waiting tasks and callbacks (`session/tasks.py`, `internal.py`, `context.py`)

*State.* In the server `SessionTaskManager._task_list` (a command that waits: flags `active` and
`reply_ready`, its event, its result) and `_callback_list` (functions bound to messages that were sent,
for one run or with a lock), and for each command the contexts it holds. On the platform's side the
contexts of messages and their marks.

*Operations.* `wait_confirm()`, `wait_next_message()`, `wait_anyone()` and `wait_reply()` list a task, send
a prompt and wait for an answer or a timeout. `check()` of every incoming message looks for the task it
answers, holds its context *on the platform*, and hands it over; a message nobody waits for runs a
callback, or goes to the parser. `bg_check()` ends old tasks each hour.

*Correct when* a message is swallowed only by a wait that uses it, contexts are held exactly as long as
somebody uses them, a callback runs alone, and no message is kept waiting.

*Hard:* each hold is a call to another process, during which the wait may time out or be answered by
somebody else; a message may refer to a prompt whose identifier is not known yet; several users press one
button.

### Hot reload (`core/loader.py`, `module_runtime.py`, `scheduler.py`)

*State.* The rows of `ModuleStatus`, the registry with `_db_load`, the jobs of the scheduler with its
entrance (`_accepting_jobs`) and maintenance lock, and for each module a runtime per *generation* with a
flag, tasks and lazily created resources.

*Operations.* `load_module()`, `unload_module()` and `reload_module()` change the four together, inside a
window of the scheduler and, but for a load, a window of the queue; `prepare_reload()`,
`commit_reload()`, `abort_reload()` and `stop()` of the runtimes; `cleanup_sessions()` at the end.

*Correct when* the four agree whenever nobody is at work, no job sees a module that is half replaced,
nothing survives its stop, and everybody gets out of the windows.

*Hard:* every statement and lock is an await at which a deadline cancels; roll-backs are cancelled
too; operations wait for each other's windows; the server stops in the middle.

### Supervisor and alive cache (`bot.py`, `core/alive.py`, `core/queue/base.py`)

*State.* In the daemon the list `processes`, the exit codes of its children, `failed_to_start_attempts`. In every
process the cache `Alive.values` of the peers of other services: a state and the end of a lease for each. The
registry is shared.

*Operations.* `run_bot()` starts hub, bots and server, looks at them each second, restarts a bot that crashed (three
times in a row at most) and leaves when server or hub end; `cleanup_processes()` stops what is left. Ctrl-C does not come
by it: `asyncio.run()` makes of it a cancellation of `main_async()`, which nothing there catches, and what runs is ended by the exit handler
of `multiprocessing`, as the processes are daemonic. A peer emits a
lifecycle signal after each change of its row; who receives it looks the row up before it believes it and writes what
it found; every routing writes what it found as well; `_refresh_peer_cache()` replaces everything every ten seconds.

*Correct when* processes that are stopped are stopped in the order in which they need one another, none survives the
daemon, however it ended, the daemon does not run on for nobody, and the cache comes back to the truth.

*Hard:* the user interrupts in the middle of a start or of the stop; signals are lost, late, or overtaken; an answer of the
registry is old when it is written; states have ranks that never fall unless forced; a new process is a new peer while the row of the old one still has its lease.

### The other parts

| part | state | hard behaviour | status |
| --- | --- | --- | --- |
| `server/*`, `client/init.py` | steps of start and stop | rollback, order of closing | stop: in `ModuleReload` and `PeerLifecycle`; restart: in `Supervisor`; start: not modelled |
| `utils/retired.py` | notices queued and delivered | one notice per scene, under a lock | not modelled |
| `queue/server.py` | hops of a message | a hop that fails in between | planned |
| parser, messages, hooks, configuration, i18n, converter | values | pure or sequential | not modelled |
| platform bots, modules, utilities, tester | of other services | I/O | not modelled |

### How the parts interact

A client's call `ServerAPI.receive_message` becomes a row (or a frame) for the server, whose
handler runs the parser and a module; what the module sends goes back as calls to the client,
which answers while the first call still waits. So both sides poll, call and execute at the
same time. A handler that reloads a module opens a maintenance window in the very loop that
executes it. `DatabaseQueue` and `WebSocketHub` model the two transports *between* processes
and take of the lifecycle only what a transport sees of it (a peer starts, is routed to,
drains, stops, dies); `PeerLifecycle` models the coroutines *inside* one process, and takes of
the transport only that requests come and handlers end. `ExecutionLock` and `SessionTasks` are above
both: their commands and messages are handlers of `receive_message` in the server, each a task of its own,
which meet in class variables, in the bindings of the database, and in the contexts of a platform.
`ModuleReload` is above `PeerLifecycle` too: it composes the runtimes and the scheduler, and takes of the
queue the window that `PeerLifecycle` has in detail (one owner, who waits for the other handlers and cancels
them when he gives up). `Fleet` composes `Supervisor` and `AliveCache`: every start of a bot by the daemon
is a new peer of the registry, its end leaves a row with a lease behind, and the end of the server takes the
cache with it. Of `PeerLifecycle` it takes the order in which a peer writes its row.

## Modules

| module | models | kind |
| --- | --- | --- |
| `RpcContract` | what `call()` and `submit()` promise, whatever the backend | abstract specification |
| `DatabaseQueue` | callers, task table, pollers, handlers, registry, cleaner | state machine |
| `DatabaseQueueProofs` | `TypeOK` of it, its inductive invariant, every safety and action property its runs check, the refinement of `RpcContract` | proofs |
| `PeerLifecycle` | poller, windows, handlers and shutdown of one process | state machine |
| `PeerLifecycleProofs` | `TypeOK` of it, its inductive invariants, the safety and action properties its runs check | proofs |
| `WebSocketHub` | hub, connections, callers and servers | state machine |
| `WebSocketHubProofs` | `TypeOK` of it, its inductive invariant, the ends of deliveries, the refinement of `RpcContract` | proofs |
| `WebSocketHubAnswers` | what becomes of each response: one at most, none lost, none left behind; on top of the former | proofs |
| `ExecutionLock` | leases, commands and their answers, merges of unions | state machine |
| `ExecutionLockProofs` | `TypeOK` of it, its inductive invariant and every safety property its run checks | proofs |
| `ModuleRuntimes` | generations, tasks and resources of modules | component of `ModuleReload` |
| `SchedulerLifecycle` | jobs, entrance, windows and shutdown of the scheduler | component of `ModuleReload` |
| `ModuleReload` | load, unload, reload and the stop of the server | state machine, composes the two |
| `ModuleReloadProofs` | `TypeOK` of the three, their inductive invariant and every safety property their run checks | proofs |
| `SessionTasks` | waiting commands, their answers, callbacks, held contexts | state machine |
| `SessionTasksProofs` | `TypeOK` of it, its inductive invariant and the safety properties its run checks | proofs |
| `Supervisor` | the daemon and its processes | component of `Fleet` |
| `AliveCache` | the cache of the server, the registry and the lifecycle signals | component of `Fleet` |
| `Fleet` | restarts by the daemon, and what the server knows of the bots | state machine, composes the two |
| `FleetProofs` | types and inductive invariant of the daemon within `Fleet`, and the order of its stops | proofs |
| `MC…` | the instances TLC checks | model checking |

Every state machine ends in its properties; the bounds are
`MaxFaults` (failures in one behaviour), `FaultyTasks` (on how many requests), `MaxRequests` (how many are
under way together), `BatchSize` (rows of one `receive()`), `QueueSize`, `Generations` (how often a module is
reloaded) and `Users` (which modules spawn tasks and open resources); `Failures` says which kinds of failure
a run admits, `MaxExits`, `MaxCrashes` and `MaxEvents` how often processes end and peers do what is rare, `MaxSignals` and
`MaxAnswers` what is under way at once, `Traffic`, `Reach` and `Refers` which messages come in together and what they may be about,
`Replies` and `Regex` which messages may be answers and which are no commands. One bound is in an action, `PassesOver`: a process that the
clean-up skipped does not live on beside its successor. Definitions that differ from another one by
one slip, and are used by no action (`ClaimRowUnfiltered` beside `ClaimRow`, `ReopenIfStarted`
beside `Reopen`), are the plausible bugs each property is tried against: replaced for the real
one, the property named with it must fail.

## Correspondence with the code

### DatabaseQueue

| variable | code |
| --- | --- |
| `row`, `age` | the row of a task in `JobQueuesTable` (status, target, claimer) and how old it is, in three steps: fresh, past the retention of an hour, past the two hours of `ACTIVE_TIMEOUT_SECONDS` |
| `reg`, `lease` | the row of a peer in `JobQueuePeersTable` |
| `phase`, `reply`, `cleanup` | where a coroutine of `call()`/`submit()` stands between two awaits, its future in `_pending`, and the task of `_abandon_with_timeout()` that may outlive it |
| `proc` | where `check_job_queue()` of a peer stands |
| `job` | each peer's copy of a request, from the batch that was read to the response under way |
| `starts`, `returned`, `expired`, `answer` | history: handler entries, handler returns, deadlines that passed, what callers were told |

`Fetch` (the SELECT of `receive()`) and `Claim` (the conditional UPDATE of each row) are separate,
since other pollers run in between; `Spawn` makes the tasks of a batch, and `StartHandler` is the
first step of one, where it reads the deadline. `Respond` is `respond()`, which updates only
rows that are not terminal; `RespondFails` commits and raises, or only raises. What the code does
in one transaction (`unregister` with `fail_peer_deliveries`) is one action.

### PeerLifecycle

A step is what a coroutine does between two awaits. A statement sent to the registry is *in
flight* in one state of its coroutine and *committed* in the next (`CommitStarting`, `Renew`,
`CommitMaintenance`, `CommitResume`, …), so that every other coroutine may run between the
commit and what its author does next. `window[m]` is the program counter of
`maintenance_window()` in worker `m`: a handler, or a task outside the queue (`Outsiders`).
Locks are variables (`pollLock`, `windowLock`) with the name of the holder.

`Failures` names the kinds of failure: `poller` (an exception ends the poller), `deadline` (that of a request cancels its
handler), `database` (a statement is refused, or raises although it committed: `EnterFails` takes both, so that a row may say
`maintenance` while `_maintenance_active` does not, until a heartbeat registers the peer again), `slow` (a window
does not have the poll lock, or its operation done, in time), `stubborn` (the same for a shutdown), and `early` (the process
shuts down while its peer is starting, which `_start_peer()` allows as it does not take the poll lock).

### WebSocketHub

Frames of different requests commute, so the frames under way are kept per request: `up` (to the
hub), `down` (to the caller), `back` (a response on its way from a server). A request on its way
to a server is `job = "queued"`; then `incoming` (the client's queue), `spawned`, `running`, and so
on. Handlers of the hub are atomic, as they hold its lock; `due` is the result of a command that
the second locked section has yet to queue. `Enqueue` models a bounded queue by the choice the
environment has: whether a frame fits (`Losses` says which subsets of the frames may not), and
what does not fit closes its connection. `conn` and `link` are the two ends of a connection; they
change separately, and a break is seen by the client (`LinkEnds`) and by the hub (`Disconnect`)
in either order, or one of them by the other's next connection.

Callers and servers are different processes in this module, though every process is both in the
code; their queues are independent (one for incoming requests, one map of responses) except for
the connection, whose end the model lets happen at any time.

### ExecutionLock

| variable | code |
| --- | --- |
| `union`, `next` | `SenderUnionBind`; a union id not in use, in the order in which they are generated |
| `exec` | `_execution_state` of the session: its own, or that of the command it answers |
| `snapshot` | `session_info.sender_union_info`, read when the message came in |
| `lease`, `reserved`, `owner` | `_list`, `_reservations`, `lock_owner_task`; a token is the `ExecutionState` that has it, which has one at most |
| `holding` | the tasks in `reserve()` and `refresh()` whose local `token` is still in `_list`: a task of the same `ExecutionState` may have removed it, and taken a new one |
| `pc`, `goal` | the await at which the task stands, and what `acquire()`, `refresh()` or a wait was called for |
| `seen`, `keys`, `plan`, `anchor` | locals of `_current_keys()`, `acquire()` and `reserve_sender_merge()` |

`ReadBind` and `ReadIds` are the queries of `_current_keys()`; what follows the last of them up to the
next await is one action (`Install`, `Block`, `Refuse`, `Refresh`). `Woken` is
`_notify_changed()`, and part of each action that calls it. A body is a nondeterministic
choice: it waits (`Sleep`), unbinds an account (`Unbind`), plans a merge and waits for its
confirmation (`Plan`), or ends. `Fail` is an await that raises, wherever one may.

`Answer` is a message of `Replies` that a wait of another command takes and the parser goes on with
(`allow_wait_fallthrough`, of `wait_next_message()` and `wait_anyone()`; the latter takes it from anybody): as a command, one that merges
included, or as a message that regular expressions are tried on (`Regex`). From there on both use one `ExecutionState`, and
`remove()` of either takes the lease, and the reservation, of the other (`Leave`, `Sleep`). `Leave` is the `finally` of a
command, after which the message ends, or of one regular expression, after which `_execute_regex()` may try the next; `NoMatch` is
an expression that does not match, which goes the same way. A merge whose lease is gone takes one
again in `reserve()` (`Reacquire`) and shrinks none (`NoRefresh`).

Abstractions: the two lookups of `Replan`, and the two lists of `Relist`, are one step each; the
questions about conflicting data, for which the lease is kept, are part of the wait in `Plan`;
the messages that answer `wait_confirm()`, `wait_reply()` and `sleep()` are consumed by it and are
no more than `Resume`. Between the acquisition of a lease in `reserve()` and its extension there is no await: `Install` and
`Reserve` are two steps all the same, which allows more interleavings and not fewer. Merges of *targets* take no lock and are left out.

### ModuleReload, SchedulerLifecycle and ModuleRuntimes

| variable | code |
| --- | --- |
| `current`, `staging`, `active`, `spawned`, `resource` | `ModuleRuntimeManager._current`, `_staging`, and of each runtime its flag, its tasks and one `ModuleResource` |
| `stopping` | the runtimes that one caller's loop of `await runtime.stop()` has still to do |
| `accepting`, `owner`, `saved`, `shuttingDown` | `_accepting_jobs` with the state of the APScheduler, the holder of `_maintenance_lock`, `old_accepting`, `_shutting_down` |
| `installed`, `executing` | `_job_specs` and `_active_tasks`, by the generation whose code the job runs |
| `status`, `loaded`, `registered` | `ModuleStatus`, `Module._db_load`, the generation in the registry |
| `pc`, `cancelled`, `undo`, `oldLoad` | where an operation stands, a cancellation that waits to be delivered, and the locals a roll-back goes back to |
| `torn` | history: a roll-back was itself cut short, or came after the commit, where the code promises no more |

An operation takes the window of the queue (`TakeQueue`), drains the others (`Drained`; or `DrainTimesOut` cancels
them), then that of the scheduler (`TakeWindow`), waits for the jobs it cancelled (`StartSwitch`, `Prepare`), and works
through its statements one by one. A cancellation is delivered where the operation awaits: what that means
depends on the place, and is one disjunct of `Cancelled` for each (`asyncio.shield` keeps the first cancellation
of a commit or a `stop()` back, and not the second). A statement that was sent commits whatever
happened to its sender.

Abstractions: the runtimes of a package are stopped one after the other, in any order; a `get()` that waits for
the resource lock fails or succeeds at its factory; the database context of the models is an await and no state; an exception
raised by `commit_task` or by the activation of a runtime (`loader.py:886-910`) is not among the failures, cancellation there is.

### SessionTasks

| variable | code |
| --- | --- |
| `wait` | where a command stands in its `wait_*()` |
| `active`, `order`, `ready`, `known`, `flag`, `result` | the fields of its entry in `_task_list`; `sequence` numbers them, and the oldest that fits wins |
| `held` | `ExecutionState.held_contexts` |
| `check`, `chosen`, `pending` | where a message stands in `check()`, the task it was matched with, the prompts it waits for |
| `registered`, `once` | `_callback_list` and those in it that are for one run |
| `context`, `marks` | `ContextManager.context` and `context_marks_hold` on the platform |
| `lost`, `consumed`, `runs` | history: marks a failed call left behind, messages kept from the parser, runs |

`Look` is `check()` up to its first await, in its three rounds: the prompt that is referred to, prompts that are
still unsent (`LookAgain` when one of them is), then the plain waits. `HoldAnswer` is the call to the platform and `Adopt`
what follows it, which must look at the task again. `DropContext` is the platform at the end of its message.
Who can answer which wait (unions, channels, sender) is the constant `Reach`.

### Supervisor, AliveCache and Fleet

| variable | code |
| --- | --- |
| `daemon`, `again` | where `run_bot()` and the loop around it stand; `RestartBot` was raised |
| `embedded`, `processes` | whether the hub is a process of the daemon; the list of that name |
| `child` | of each process: running, or its exit code (0, 33, 78, any other) |
| `asked` | the process `terminate_process()` waits for |
| `interrupts` | how many SIGINTs this `asyncio.run()` has had: none, one, or more |
| `attempts`, `recent` | `failed_to_start_attempts`: a count, and whether its time is less than a minute ago |
| `life`, `reg`, `lease` | where a peer stands in its own life, the state of its row, and whether its lease lies ahead |
| `signals`, `answers` | lifecycle signals on the way, and answers of the registry that are not in the cache yet |
| `round` | the locals of `_refresh_peer_cache()` between its two queries and `replace_peers()` |
| `cache` | `Alive.values` of the server: a state, and whether the copy of the lease lies ahead |
| `peerOf` | which peer the running process of a bot is |

One look of `run_bot()` at its processes is one action up to the first that has ended, where the loop breaks.

The first Ctrl-C only cancels the main task (`Interrupt`). Where `run_bot()` awaits, the `CancelledError` passes every `except` of
`main_async()` (`bot.py:450-460`) and the clean-up with it (`Cancelled`); where it does not await, it goes on to its next await or, on an error,
to the clean-up. A further one is a `KeyboardInterrupt` on the spot: in `run_bot()` it is caught at `bot.py:453` (`InterruptAgain`), in
`cleanup_processes()` it ends that (`CleanupInterrupted`) or, while `terminate_process()` waits, makes `close()` raise `ValueError` in its
place, which is caught, so that a process that runs is skipped (`PassesOver`). What is left, the exit handler of `multiprocessing` ends
(`ExitTerminates`), in no order.

`Refreshed` is `refresh_peer()` with its ranks, `Replaced` is `replace_peers()`. The age of an entry, which lets it be dropped after two
minutes, is a choice (`aged`). The life of a peer is that of `PeerLifecycle` without its locks: windows begin, end and may be
followed by a drain; a late heartbeat is a lease that lapses under a process that runs.

## Runs

| run | instance | question |
| --- | --- | --- |
| `queue_faults` | one call, two symmetric peers, any two failures | executed at most once, the first result stands, an unfinished call is left alone, the contract |
| `queue_live` | a call and a submit, one peer, batches of two, two failures on one of the requests, fairness | every call ends, every row goes, nothing is forgotten without a failure |
| `peer_windows` | two handlers and one outsider, all opening windows, every failure | the body is alone, flags have owners |
| `peer_shutdown` | two handlers opening windows, statements that are refused or raise although they committed, windows that time out, a shutdown at any time of the peer's start and after it, fairness | claiming is restored and resumes, a row leaves maintenance, draining stands but for what was in flight, the shutdown is quiet and ends |
| `peer_deadline` | one handler, a deadline | (violated) claiming is restored |
| `hub_faults` | one request, a call or a submit, one server, queues of one, any two of seven kinds of failure, fairness | sent deliveries are in hand, one response each, accounting of waiters, the contract, an answer in any case |
| `lock_merge` | three accounts, two of them in one union; two merges and a command together, of which one merge may be the answer to the command; or a command and a message for regular expressions, each of which may answer the other; fairness | leases exclude, no wake-up and no lease is lost, merges move what they have locked unless one was an answer, commands of a user are serialised but for answers, `reserve()` ends |
| `lock_replies` | three commands of one user, one of them an answer | (violated) one command of a user at a time |
| `reload` | a load, an unload and a reload of one module beside another module, one failure of any kind, the stop of the server, fairness | the four records agree at rest, no job in a window, nothing outlives its stop, every operation ends |
| `reload_commit` | the same for a package of two modules, a deadline | (violated) a commit is final |
| `session_answers` | a wait for the next message beside one for a reply, a callback, two messages, one failure, fairness | what is swallowed is an answer, holds are balanced, a callback is alone, every check ends |
| `fleet` | two bots, the server and perhaps a hub, three of which end with any code, under a user who may interrupt once or more; or the two peers of one bot, which crashes or is restarted with all, one further event, one signal and one answer under way at once; fairness | processes stop in order, a daemon without bots ends, the cache settles |

*Why these bounds are enough to be interesting.* Competition for one row needs two pollers and one
request; what a batch adds, a second request and one poller. With two failures every pair of
failures meets on one request (a crash during the recovery of another one, a lost response after
a lost lease); for more, the safety properties of the queue and the hub are proved. Windows
compete from two handlers on, and the outsider is the one kind of task that is no handler
(`loader` on start). The run of the hub has one server: two of them differ only in which one
a request is routed to, and the proofs are for any number. It has one request; two at once,
without a failure, satisfy the same invariants in a run of 961 091 states that is too long to repeat each time,
and the proofs do not bound them. Ages and timeouts are not counted:
a deadline may pass at any time, and an age grows by steps that order them. With three accounts, two
in one union, the two merges of `lock_merge` overlap in full or in part, a third command is both
among those they wait for and the one that moves accounts away under them, and, as every await may
raise, each of them may stop anywhere. A body unbinds once at most, which bounds `next`;
`Traffic` says which messages come in together, the two merges with the third command or that with the message for regular
expressions; `Replies`, `Regex` and `Traffic` are bounds of the run, and the proofs hold for any of them. With the other merge among
the answers, which comes from another user and so answers a `wait_anyone()`, the same properties hold in a run of 625 007 states
that is too long to repeat.

A reload meets a load and an unload of the same module, which is what makes each of them roll back to
something the other has changed; a package of two modules with one failure (2.2 million states), and one
module with two failures, were run once without an error and are too long to repeat. One answer is given
twice, or passed from a wait for the next message on to the parser and to the wait for a reply, as
soon as there are two messages and two waits; `wait_confirm()` differs from the former only in swallowing what
it takes, as the latter does.

Two bots are what it takes to have one restarted behind the server in `processes`, and three ends to have one crash
too often or both leave. In `fleet` a behaviour is either about the processes or about the peers and the cache
(`traffic`, a bound): what the former adds to the latter is only when a peer is replaced, and a crash at any time and a
restart of everything are in both. One signal and one answer under way meet the reconciliation in every order; two answers
(848 300 states) were run once without an error.

The runs of the queue, the peers, the hub, the reloads, the sessions and the fleet do not check for deadlocks: a finite set of requests, operations, messages or restarts
ends, and the system then rests. Those of the locks do, as a system that rests takes the step
`Stopped`; but a command that waits may always be cancelled, so that it is `NoLostWakeup` and
`ReserveEnds`, which no cancellation helps, that rule out a wait for ever.

What the runs show, beside the obvious: a claim that is forgotten always has a failure behind it
(`OrphanNeedsFault`), with the exception of a shutdown that ends it; the wait of two handlers for
each other's window, possible because each drains the other, is ended by the timeout around the
drain and by nothing else (`ClaimsResume`); a caller of the hub is answered after any failure
without its deadline (`AnsweredInAnyCase`), since the hub fails what a server leaves behind and a
client fails what its connection leaves behind; the responses put aside are removed but for an
abandon command that itself ran into its timeout (`NoStrayResponse`). A merge keeps its barrier against
whatever third parties do to the two unions while it waits (`MergeBarrier`), since unions that it
read only lose accounts; but once it is over, `refresh()` asks nobody before it installs the
identities of the sender, who may have left the union in the meantime, so that this lease may meet
another one: `LeasesDisjoint` and `MergeBarrier` except a merge that is over (`Merged`), and no other
command. The barrier does not survive that a merge comes in as the answer to a command: it uses the lease of that command, whose end
removes it with the reservation, and merges without. `MergeBarrier` speaks of behaviours where no merge was an answer
(`NoMergeAnswers`), since an unguarded merge moves accounts under the others as well; the other safety properties
hold with them. For the same reason `ReserveEnds` lets go of who has lost his lease while he waits in `reserve()`: anybody may then take a
lease that crosses his between two of his looks, again and again.

`OperationsEnd` holds only because a drain gives up and cancels whom it waits for: a reload in the queue's window
waits for an unload that waits for the same window. `AgreeAtRest` holds after every single failure and cancellation
but those of a roll-back itself (`torn`), and `StoppedIsClosed` shows that a resource whose creation is under way when
its runtime stops is closed all the same. The proof of the latter found one exception that two failures are needed for
(`Overlooked`): an unload of a module that was not loaded is cut short by a second cancellation while its `stop()`
waits, and its roll-back suspends the runtime again (`loader.py:667`), which by now has nothing but a resource that is
still being made. `stop()` counts it as not initialized and returns at once (`module_runtime.py:252-257`), so the
resource outlives this stop. `Undone` counts this as a roll-back that was cut short. In `session_answers` two messages race for one wait: the loser goes on to the
callbacks and the parser, and its hold is undone.

`CacheSettles` holds because the reconciliation forces what it finds and drops what it does not: an entry that says
`stopped` or `draining` for a peer that came back is stuck for everybody else, as no signal and no routing may lower its
rank. `OrderedStop` needs that a restarted bot is put among `processes` again, behind the server, and that the stop sorts by name and
not by place. It speaks of those who are asked to stop. After Ctrl-C nobody is asked, and all it says is that nobody is left running
when the daemon has ended; after a second one, which may make the clean-up skip a process, it claims no order either.

## Fairness

*Database queue:* the event loop of the **caller** runs its coroutines, time passes (deadlines
and ages), and the server's hourly job runs. Nothing is assumed of the peers that execute:
they may stop at any point. This is what `asyncio` and `hourly_background_task()` give.

*Peer lifecycle:* each coroutine that can run does. Strong fairness stands for `asyncio.Lock`,
which is first-in first-out, so a window gets the poll lock although the poller takes it again
and again; and for heartbeats, that come due again and again. Bodies of windows and handlers end,
as the deadline of each request makes them.

*Hub:* coroutines of hub, callers and servers run, broken connections are noticed (the websocket
library's ping), handlers return. Deadlines and the hub's expiry loop need **not** come: that is
the point of `AnsweredInAnyCase`.

*Locks:* the event loop runs every task that can run, and queries come back (weak fairness of each
command's `Step`). A body ends or waits, and a wait for the user ends by its timeout, as `wait_*()` have
one. Failures (`Fail`) need not happen.

*Reloads:* operations, jobs, tasks, factories and the steps of the shutdown go on (a job and a task end when they
are cancelled, a factory has a timeout, a window gives up by its own timeout). Beginnings, launches, failures
and the stop of the server need not happen.

*Sessions:* a prompt is sent or times out, a wait times out, calls to the platform return, callbacks end
(weak fairness of `WaitStep` and `CheckStep`). `CheckEnds` states that all checks are over at some time, so that even a
message whose prompts are never sent must have been released by the ends of their waits; nothing is assumed
of users, the hourly check or the platform's dropping of contexts.

*Fleet:* the loop of the daemon runs; a bot that runs registers, ends its maintenance and sends heartbeats
(`check_job_queue()`); the lease of a dead process runs out; the server reconciles again and again
(`base.py:92`, every ten seconds). No signal needs to arrive and no answer of a routing to be written. Processes
need not end.

## Proofs

All proofs are checked by TLAPS (SMT, Zenon, PTL) from the named assumptions on the constants
(`ConstantsAssumption`, and `SessionAssumption`, `ReloadAssumption`, `SupervisorAssumption`, `FleetAssumption` where a module has its own:
finite or infinite sets of requests, peers and commands, any `MaxFaults`, any
`BatchSize` and `QueueSize`; any sets of handlers and outsiders and any `Failures`; a finite set of
accounts, any initial bindings, any `Replies`, `Regex` and `Traffic`; any waits, messages and callbacks; any modules, packages, operations and generations;
a finite set of bots). Every safety property and every action property of a passing run is proved.

**Database queue.** `AtMostOnce` is not inductive: it needs that a row still pending was never
started, that only one peer gets past a claim, and that a claimed job has not started yet. The
invariant is `IInv` = `TypeOK`, `ExclusiveClaim`, and for each task `CallInv` (before its INSERT a
request has left no trace), `ClaimInv` (the above) and `ResultInv` (what a row or a future says
has happened). The proof is per task `u`: a statement on the table either lets the row of `u` fade
(`RowFades`: unchanged, deleted or failed), which no conjunct minds, or is an INSERT, a claim or a
respond on `u` itself. `Refinement` follows: each action answers, begins, returns, expires, or
stutters.

The action properties are about one row, and one lemma serves them (`RowMoves`): in any step of the queue the row of a
request stays, is inserted by its own send, is claimed while it is pending, becomes terminal while it is not, or
is deleted, and that of an unfinished call only by the call's abandon. `UnfinishedCallKept` is read off this, and
`FirstResultStands` with `CallInv` for the one point that is not in the step itself: a call that still sends has no row
yet, so an insert replaces none. `StopEndsDeliveries` has one step to look at, `Unregister`, which `unregister()` and
`expire_stale()` share. `OrphanNeedsFault` is not inductive, as a claimer may drop a copy of the row that it merely has in a
batch: `OrphanInv` says that it *holds* the request, which it gives up only with a result, a failure or in a shutdown.

**Hub.** `DeliveryHasEnds` and `DeliveryInHand` are proved by `IInv`, again per request. Its
parts: `DeliveryInv` (a delivery has both ends, and on a whole connection its server has the request
or the response is back), `RequestInv` (a request is sent to the hub once, and its abandon comes
after it), `JobInv` (the handler is where its job says) and `ResultInv` (wherever a response is, on
the way or put aside, what it says has happened). Most steps are of one of few kinds: they *keep*
the delivery of `u` (`Keeps`), leave its request `Undisturbed`, or add responses that are already
true (`True`, with `Grows`: what has happened stays so). Since `done` is only ever true after the
handler returned, the refinement of the same `RpcContract` follows; the acceptance a
caller cannot know (`unknown`) counts as an error.

*What becomes of a response* is a second invariant over the first (`AnswerInv`, per request). `OneResponse` counts
answers in four places, the queue of frames, what is put aside, the future, and the delivery, of which one can be made;
`OneAnswer` says that no two of them are filled, and that none is before the handler's job exists. It is inductive
only with `AbandonLast`: the result of an abandon command comes after every response that was queued before it, so that a call
which takes that result may drop what it has and need not look again; this is why `NoStrayResponse` holds (`GoneQuiet`). And
`WaiterAccounted` needs, besides the places, that the result of a command which is `due` has not yet been passed by the response itself
(`Awaited` speaks of a call from its send command on, while the property speaks of it only from the result on), that nothing is on the way
to a caller the hub does not know (`CutOff`), and that a client which lost its connection has told all its calls
(`Unavailable`). The proof goes by what a step is for `u`: a frame more, a frame less, a delivery ended, a connection ended.

Both backends thus implement one specification, for every number of requests and processes.

**Locks.** Every safety property of `lock_merge` is proved, from one invariant, `IInv`, for any number of
accounts, merges and commands, any of which may be answers. Its parts: `RootInv` (an `ExecutionState` is that of one
command, and the command whose state an answer uses is no merge), `PhaseInv` (only a merge is in `reserve()` or `refresh()`), `TokenInv` (a reservation, and
the token a task goes by, is that of a lease), `OwnerInv` (a lease has an owner task that has not ended), `UserInv` and `SendersDiffer`
(a lease has the account its command came from, and no two leases have the same), `CrossingsWait`, `ReservationsDisjoint`,
`NextIsNew` and `BarrierInv` (what a merge has read is older than any union to come), and, as long as no merge came in as an
answer, `LockedInv` (what is to be merged is in the lease). `LeasesDisjoint` and `NoLostWakeup` are consequences of them or inductive only with them:

* Two merges cannot wait for each other, as `reserve()` gives up when it meets a reservation
  (`ReservationsDisjoint`); whoever else it meets has no way to extend its lease without meeting it. A lease shared with an answer may be
  extended twice, so "somebody waits" is not enough: where two leases cross, one has a task that waits with *all* of it and whose token is
  still good (`Witness`, in `CrossingsWait`).
* `MergeBarrier` needs an argument about time. Between the two queries accounts may leave a union
  that was read, and none may join it: new unions take new ids, and `u < next` for each `u`
  read. So what `Relist` found to be in the lease is still all there is when `Merge` runs, and
  the accounts of the merged union are these. That nobody removes the reservation in between is `MergeAlone`: where no merge is an answer,
  nobody else uses its `ExecutionState`.
* A wait that begins is a wait for a lease that exists; each action that takes a lease away is one
  that wakes everybody (`Woken`), except those that have no lease to give back.
* `OneCommandPerUser` follows from `UserInv` (a command at work holds a lease with its
  sender's account unless its `ExecutionState` is shared) and `SendersDiffer`.

**Peer lifecycle.** `BodyAlone` rests on three facts about the locks (`LockInv`): a worker is inside its window exactly
while it holds the maintenance lock, the poller in a round exactly while it holds the poll lock, and a worker in a nested upgrade
holds it instead. With `FlagInv` (claiming stays suspended while a window is open, a shutdown under way suspends it too) no round that
claims can begin once a window has suspended claiming, and `PassBarrier` waits for the last one: from there on the handlers that run are
among those it waits for (`DrainInv`), so that only its own is left in the body. `QuietShutdown` is the same argument for the drain of a
shutdown, under the assumption that it does not run out of time (`"stubborn"` is no failure); `ClaimingIsRestored` follows the `finally` blocks
of a window, under the assumption that no deadline cancels them: `peer_deadline` shows that it fails with one.
`DrainingStandsButForInFlight` says which step may follow the announcement of a shutdown, so it needs to know that no other is under
way then: `AdvertInv` says that the poller has no renewal of its lease under way while the row says `draining`, or is about to. What else
writes `ready`, a window on its way out and the last statement of a start that the shutdown overtook (`"early"`), are the
two exceptions the property names, so that it holds with every kind of failure.

**Module reload.** `AgreeAtRest` speaks of the moments when nobody is at work, so its invariant has to speak of all others. `AgreeInv`
says for each place of an operation what the row, the registration, the job and the runtime of every module of its scope say
there (`BodyAgrees`, by phase: switching, building, committing, restoring), and that all other modules agree. That only one operation at a
time can be between two such moments is `LockInv`: who is past the scheduler's window has its lock, the shutdown takes
it as well, and after that everybody who still waits is cancelled. `GateInv` and `JobInv` (no job is launched inside a window,
since the shutdown began, or of a module that is not installed) give `WindowQuiet` and, with `StopInv` and `ClosedInv`, `QuietAfterShutdown`.
`StopInv` says whose runtimes a loop of stops has still to do, so that a cancellation that breaks it off can leave only those; `ClosedInv` that a runtime
which is neither active nor being stopped is closed, but for what such a cancellation left to the roll-back (`Broken`). Steps are sorted twice: by
what they do to the windows (`Inside`, `Enters`, `Leaves`, `StaysOut`) and by what they do to the records (`SwitchMove`, `ReloadMove`). Where
the code gives its promises up, `torn` becomes true, and `AgreeInv` and `ClosedInv` claim nothing from there on; windows and
locks are as safe as before.

**Fleet.** `OrderedStop` is about who *runs*, and the code orders who is *listed*. `SupInv` links the two: every process that runs is in
`processes` (`LookedAfter`, which is what a restart has to keep that removes a bot and appends it again), unless the daemon has left it to the
exit handler, or a second Ctrl-C has made the clean-up skip it (`Abandoned`, which no restart follows); the list is empty whenever
the daemon starts anew (`ListGrows`), who is asked to end has the lowest rank of those left (`AskedFirst`), and when the
daemon has ended the exit handler has left nobody (`NobodyOutlives`). The lemmas about lists,
`Without` (remove the first occurrence), `Joined` and `Added`, keep it without repetition; `Enabled` does so for the bots in any order. Every step of
`Fleet` is one of the daemon's, the end of a process, or leaves the daemon alone (`StepOfFleet`), so the peers and the cache need no look.
`Fleet`'s own `TypeOK` is not proved, since its peers are enough for all starts only in the instance (`NewPeers` chooses fresh ones).

**Sessions.** A task takes a result only while it is active, and only once; a message that is a result has left the checks
for good, so no other task and no check has it in hand (`WaitInv`, `AnswerInv`). Then marks can be counted (`MarkInv`): those a
failed call left behind, one if a task keeps the message, one if its check holds it. The counting of `HeldContexts`
needs that the set of tasks that keep a message has one element at most. A callback for one run is taken from the list by
the message it is given to, so that as long as it is listed it has neither run nor been given away (`CallbackInv`).

**Only model-checked:** liveness (`CallEnds`, `RowsCollected`, `ReserveEnds`, `ClaimsResume`, `ShutdownEnds`, `MaintenanceEnds`,
`AnsweredInAnyCase`, `OperationsEnd`, `CheckEnds`, `EmptyFleetEnds`, `CacheSettles`; out of the prover's reach, like `ENABLED`), and what the
violated runs refute. The inductive invariants, and `DeliveryHasEnds`, are proved and not repeated in a run.

## Disagreements with the documentation

Shown by a run that must fail:

* `peer_deadline`: `pause_event.set()` (`base.py:1614`) follows an await in the same `finally`; a
  deadline that cancels the handler there skips it and the peer never claims again.
* `lock_replies`: two commands of one user run at once. A message that answers `wait_next_message()` shares
  the `ExecutionState` of the waiting command (`internal.py:115-121`) and goes on as a command or a
  regular expression; whichever of the two ends first removes the lease both rely on
  (`message.py:536`, `message.py:837`). `lock.py:1` says the lock prevents several commands of one user
  from running at once; what holds is `OneCommandPerUser`, which excepts the commands
  answered this way.
* `reload_commit`: between `commit_reload()` and `committed = True` (`loader.py:911`) a reload waits for the poll lock
  (`loader.py:898`); cancelled there, it restores the old registrations, statuses and jobs under the new
  runtimes. The comment at `loader.py:871-872` calls the commit irreversible.

Met while modelling, and modelled as the code has it, with no run of their own:

* a handler that raises `RpcTimeoutError`, from a call of its own, is reported as the timeout
  of the request itself (`base.py:1112` against `errors.py:34`), so `RpcContract` allows "timeout"
  once a request has begun;
* a command to the hub that times out raises a subclass of `RpcTimeoutError` before the deadline
  of the call (`websocket.py:1221`); `RpcContract` sees the answer "unknown";
* a heartbeat between the commit of `maintenance` (`base.py:1632`) and the flag that suspends heartbeats
  (`base.py:1641`) registers the peer as ready, so that a body may run on an advertised peer
  (`MaintenanceIsHidden` in `PeerLifecycle` does not hold), though `core/queue/README.md:116-117` says it leaves the
  stable routes;
* `_end_maintenance()` may register the peer as ready after a shutdown wrote `draining`
  (`base.py:1659`), and so may a peer that is starting while the process shuts down (`base.py:1391`); `DrainingStandsButForInFlight` admits
  exactly these two steps;
* a merging command (`bind`) that is typed as the answer to a `wait_next_message()` loses its barrier: it shares the `ExecutionState` of the
  command it answers (`internal.py:115-121`, `message.py:218`), whose end removes the lease and the reservation (`message.py:536`,
  `lock.py:231-239`) while the merge waits in `reserve()` or is past it. `internal.py:648-649` says that a merge of unions must keep the lock
  once the barrier stands. The merge goes on without it, so `MergeBarrier` without its premise does not hold, and in `reserve()` it may
  wait as long as others come in;
* Ctrl-C keeps no order of stops: the comment at `bot.py:429` wants bots first, then the server, then the hub, and `bot.py:453` catches
  `KeyboardInterrupt` for it, but the first SIGINT reaches `main_async()` as `CancelledError`, which is caught by none of
  `bot.py:450-460`; `cleanup_processes()` is not called, and the exit handler ends the processes as it finds them. A second one during the clean-up
  may make it skip a process;
* a wait that timed out stays listed while its prompt is deleted (`internal.py:688-693`), and an answer that comes
  then is swallowed, or held, by a command that has given up: `ConsumedIsAnswer` speaks of results and not of use;
* a message that lost a race for one wait is not offered to the next one (`tasks.py:375-416`, where the loop ends with the first match);
* `clear_task()` counts the retention of a result from the creation of its row (`models.py:1554`), so
  the result of a handler that ran for over an hour may be deleted before its caller, still within
  its deadline, reads it, while `core/queue/README.md:72` says the cleaner is for what abnormally ended
  callers left behind; `UnfinishedCallKept` is about calls without a result;
* with an embedded hub the daemon never comes to "All bots exited unexpectedly" (`bot.py:401`): it counts processes, and hub and
  server are two; `EmptyFleetEnds` excepts it;
* a hold that fails after it took effect on the platform leaves a mark for ever (`lost`).

## What is not modelled, and why

* *Contents* of requests, results, records and frames, codecs and error texts: no property here
  depends on them; a message is its task.
* *Signals* that are not about a lifecycle, and the receipts of `gather_signal()`: they are best effort and nothing waits
  for them beyond a timeout.
* *Retired-client notices*: a scene is admitted once per process, the queue is behind a lock, and what was
  delivered is written as one snapshot.
* *The start of a server or client* with its rollback: a list of steps in one coroutine, undone in reverse.
* *Authentication, TLS, size limits and handshakes* of the hub.
* *Clocks*: leases, deadlines and ages are events that may happen, not numbers.
* *Loss inside the database*: a statement commits or does not; `RespondFails` and others model a
  connection that fails before or after the commit.
* Parsers, messages, modules, platform bots and utilities: sequential code or requests to other
  services.

## Plan

Done: `RpcContract`, `DatabaseQueue`, `PeerLifecycle`, `WebSocketHub`, `ExecutionLock`, `ModuleReload` with its two
components, `SessionTasks`, `Fleet` with its two components, and the proofs above. Next, in order of importance:

1. What the alive cache promises in every state, as an invariant with a proof (what an entry says was the state of a row once),
   and its types under the assumption that there are peers enough.
2. The hub under a peer whose lifecycle sends `set_state` and `unregister` from two tasks.
3. `post_next_hop` of `queue/server.py`: a message that fails on one hop goes on with those that remain.
4. A hot reload of two modules at once, and nested windows of the scheduler.
