# A TLA+ model of aegis.cpp

aegis.cpp is an asynchronous C++ library for Discord bots.  It keeps one
websocket per *shard* to the Discord gateway, turns gateway events into a cache
of guilds, channels and users, and sends REST calls through a rate limiter.
Everything runs on one `asio::io_context` served by a pool of threads.  There
are no tests in the repository, and almost all of the difficulty is in the order
in which handlers, timers and threads run.

## Inventory

| part | code | state it keeps | operations | what is hard |
|---|---|---|---|---|
| shard manager | `shards/impl/shard_mgr.cpp` | `_shards_to_connect`, `_connecting_shard`, `_connect_time`, `_last_identify`, `_status` | `start`, `ws_status` (100 ms timer), `connect`, `queue_reconnect`, `close`, `_on_connect`, `_on_close`, `_on_message`, `shutdown` | fields shared by the timer, the strands of all connections and the thread pool with no lock; 20 s and 6 s timeouts |
| shard connection | `shards/impl/shard.cpp` | `connection_state`, `_connection`, `_strand`, `zlib_ctx`, `session_id`, timers, write queue | `do_reset`/`_reset`, `connect`, `set_connected`, `start_heartbeat`, `send`, `process_writes` | resets and dials are posted to a strand and run later, against whatever connection the shard has then |
| gateway protocol | `impl/core.cpp` 798-1117, 1594-1653 | `session_id`, `_sequence`, `_heartbeat_status` | op 1/7/9/10/11, READY, RESUMED, IDENTIFY, RESUME, heartbeats | READY and RESUMED are posted to the pool, not to the strand |
| event dispatch | `impl/core.cpp` 847-876, `ws_*` | the caches | one handler per gateway event | events of one shard are posted as independent tasks: two threads may run them out of order |
| cache | `impl/guild.cpp`, `impl/channel.cpp`, `impl/user.cpp`, `impl/core.cpp` | guilds, channels, users, members, roles under shared mutexes | create/load/remove | lock order and lifetime |
| permissions | `impl/guild.cpp`, `permission.hpp` | none | `base_permissions`, `compute_overwrites` | the order of overwrites; bit masks |
| rate limiter | `ratelimit/bucket.hpp`, `ratelimit/ratelimit.hpp` | per-bucket `limit`, `remaining`, `reset`; the global limit | `post_task`, `get_bucket`, `can_perform`, `perform` | threads that sleep with a bucket's mutex; the server's clock against the bot's; a bucket map with no lock |
| REST | `rest/impl/rest_controller.cpp` | none beyond one socket per call | `call`, `execute` | parsing of the answer, the server's clock |
| API calls | `impl/guild.cpp` 575-1123, `impl/channel.cpp`, `impl/message.cpp`, `impl/core.cpp` | none of their own; replies enter channels into the cache | the check of permissions, the request, the reply | the cache changes between the check and the request; replies race events |
| futures | `futures.hpp` | promise/future state and continuation | `set_value`, `then`, `get`, destructors | hand-over between the thread that fulfils and the thread that attaches |
| bot lifecycle, clusters | `impl/core.cpp` 64-216, 478-690, 1125-1200; `core.hpp` | status, threads, shard vector | constructors, `run`, `yield`, `shutdown`, destructor, `async`, `get_shard` | shutdown against running handlers and sleeping ones; shards of a cluster indexed by position |
| gateway objects and events | `gateway/objects`, `gateway/events`, `ws_*` | none | `from_json`, `to_json`, the callbacks of the user | keys that are null or missing, and what is done by then; callbacks that throw or ask |
| utility | `utility.hpp`, `snowflake.hpp`, `config.hpp` | none | formatting, clocks | no protocol |
| websocketpp, asio | `lib/` (empty submodules) | connection states, strands, timers | open, close, post | external; modelled as the code uses them |

Correctness of the parts: the manager must never lose a shard, dial one shard
at a time, pair every open socket with one shard, recover from every fault, and
stop when it is told to; the dispatch and the cache must end in the state the
gateway's order of events implies; the limiter must never send a call a bucket
has no room for and must answer every future; a future must be fulfilled and
observed exactly once; a check of permissions must decide as the server will; an
object must survive its own text and a callback be told what the cache was; a bot
that is shut down must end, and no thread of its own outlive it.

## Modules

| module | what it is |
|---|---|
| `ShardMgr` | the shard manager, its shards and their connections |
| `ShardLifecycle` | the abstract specification: a shard is down, attempting or up |
| `ShardMgrRefinement` | the refinement mapping from `ShardMgr` to `ShardLifecycle` |
| `MCShardMgr` | constants for TLC |
| `ShardMgr_proofs` | theorems about `ShardMgr`, whatever goes wrong and when handlers are punctual; that it then implements `ShardLifecycle` |
| `Ratelimit` | REST calls under the rate limiter, with the server that enforces the limits |
| `MCRatelimit` | constants for TLC |
| `Ratelimit_proofs` | theorems about `Ratelimit` |
| `Cache` | the handlers of gateway events and the cache of guilds, channels and users they change |
| `MCCache` | constants for TLC |
| `Cache_proofs` | theorems about `Cache`, for any number of threads |
| `CacheSerial_proofs` | theorems about `Cache` for one thread; it extends `Cache_proofs` |
| `Permissions` | pure operators: a member's permissions as the code computes them, and the rule |
| `Requests` | a table of every call of the API: what it checks, what it fails with, what it returns |
| `Api`, `MCApi` | a call from its check to its reply, between the server and the cache; it uses `Requests` |
| `Api_proofs` | theorems about `Permissions` and `Api` |
| `Futures`, `MCFutures` | promises, futures and continuations on the threads of the pool |
| `Futures_proofs` | theorems about `Futures`, crossed or not |
| `Classes` | a table of the conversions of every class of `gateway/objects` |
| `Loads` | a table of what the loads of the cache read of a payload for themselves |
| `Objects` | what `from_json` and `to_json` make of a whole payload or object by the one table, and the loads of a payload by the other |
| `Events` | the course of the handler of every gateway event, for any payloads, loads and conversions |
| `Payloads`, `MCEvents` | the payloads, their conversion by `Objects`, and the copies: the parameters of `Events` |
| `Events_proofs` | theorems about `Events` |
| `Bot`, `MCBot` | the bot from its constructor to its destructor, its threads, its clusters |
| `Bot_proofs` | theorems about `Bot` |

Components meet through a few facts.  What `Ratelimit` leaves to the caller, a reply or a
failure, is where `Api`'s `Perform` begins; how that reply travels to the application is
`Futures`.  What `Cache` does to its tables step by step, `Events` keeps as one flag
(`effect`) and `Api` as one step per event.  `ShardMgr`'s shutdown ends what
`Bot` starts.  `Requests`, `Classes` and `Loads` are tables that the operators of `Api` and
`Objects` interpret, one row per call or key, so that a line of the code is one entry.

## ShardMgr: how it corresponds to the code

One handler of the program is one action.  asio runs the tasks of a strand one
after another, so a task is atomic with respect to its strand; the manager's own
fields are shared by all strands, and the model interleaves whole handlers on
them, except for READY and RESUMED, whose three assignments to the manager
(core.cpp:1596-1598, 1624-1626) may also be torn by another thread
(`TearEvent`).

| variable | field |
|---|---|
| `status` | `core::_status` and `shard_mgr::_status` (core.cpp:601 and shard_mgr.cpp:99 set them one after the other; one variable stands for both) |
| `io` | whether the `io_context` still runs handlers |
| `shardsToConnect`, `connectingShard`, `connectTime` | `_shards_to_connect`, `_connecting_shard`, `_connect_time` (only whether it is set) |
| `shard[s]` | `connection_state`, `_connection`, `zlib_ctx`, `session_id` (whether set), `_heartbeat_status`, whether `keepalivetimer` and `delayedauth` are armed |
| `con[c]` | one websocketpp connection object: its state, the shard its callbacks are bound to, and what the gateway at its far end last heard |
| `strand[c]` | the tasks posted to the connection's strand: `connect` (shard_mgr.cpp:417), `dial` (shard.cpp:101), `reset` (shard.cpp:43) |
| `pool` | READY and RESUMED handlers posted to the `io_context` (core.cpp:847), a set since any thread takes any of them |

| action | handler |
|---|---|
| `WsStatus` = the heartbeat loop with `LoopOnly`, `ConnectTimeout`, `DialNext` or `PopConnected` | `ws_status` |
| `RunStrand` = `ConnectTask`, `DialTask`, `ResetTask` | the tasks of a strand |
| `OnConnect`, `OnClose` | `_on_connect` with `set_connected` and `core::on_connect`; `_on_close` |
| `Hello`, `Answer`, `Ack`, `InvalidSession`, `ReconnectRequest`, `CorruptPayload` | `_on_message` and `core::on_message` for op 10, READY/RESUMED, op 11, op 9, op 7 and a payload that cannot be inflated |
| `RunPool` = `HandleEvent`, `TearEvent` | `ws_ready`, `ws_resumed` on a pool thread |
| `KeepAlive`, `DelayedAuth` | the two timers |
| `ShutdownBegin`, `ShutdownStop` | `core::shutdown`, `shard_mgr::shutdown` |
| `Unbound`, `DialFails`, `LinkDies` | the environment: a socket with no callbacks, a failed dial, a silent peer |

**Time.**  The code compares clocks; the model leaves the outcome of a comparison
open.  Many orders the code relies on are enforced by nothing: that a posted task
runs before the next 100 ms tick, that READY comes within 20 s of the open, and so
on.  Each is a name in the constant `Hazards`; absent, the environment is punctual
in that respect, present, it need not be:

| hazard | what may happen |
|---|---|
| `slowStrand` | a tick of `ws_status` runs before a task posted to a strand |
| `slowPool` | a tick or a close handler runs before a posted READY or RESUMED |
| `slowReady` | 20 s pass between the open of a socket and its READY |
| `lateOpen` | a socket is still opening 20 s after the dial |
| `liveInvalidSession` | op 9 hits a shard that is online |
| `tornReady` | another thread runs between the assignments of READY/RESUMED |

**Left out.**  Payloads, the sequence number, byte counters and statistics; the
write queue (a greeting is written when it is queued); op 1 and op 9 with `d` true,
which change none of the modelled state; an incomplete zlib frame, which is dropped.

## Ratelimit: how it corresponds to the code

A REST call is a task on the `io_context`; the thread that runs it finds the call's
bucket, takes the bucket's mutex, sleeps until the bucket admits it, exchanges one
request with the server, perhaps sleeps and repeats it, stores the limits of the
answer and fulfils the call's promise.  Nothing else happens to a call, so the model
has one process per call, in a phase between two of these points.

| variable | field |
|---|---|
| `queue` | the tasks posted to the `io_context`, started in order when one of `Workers` threads is free |
| `phase`, `timer`, `reply` | the local state of `bucket::perform`: where the thread is, how long it sleeps, the last `rest_reply` |
| `bucketOf[c]`, `buckets[p]` | the bucket `get_bucket()` returned, and the entry of `_buckets`; a bucket is named by the call that created it |
| `bucket[b]` | `limit`, `remaining`, `reset` and the holder of `m` |
| `clock`, `server`, `global` | the server: its clock within a second, its window of each name and of the whole bot (external) |
| `effects` | history: how often the server carried a call out |

| action | code |
|---|---|
| `Post` | `post_task` (ratelimit.hpp:87-129) with `core::async` |
| `Start`, `Emplace` | `get_bucket` (76-85): the find, and the emplace when nothing was found |
| `Lock` | `lock_guard` (bucket.hpp:100) |
| `Check`, `Wake` | the loop at 101-110 |
| `Call`, `BackOff`, `Retry` | the request (111), the sleep after a 429 (113-124) and its repetition (125) |
| `Finish` | the stores at 130-139, the return and the release of the mutex |
| `Tick` | time |

**Time** is kept as the number of ticks until an instant, 0 once it has passed; no
clock grows and no bound on time is needed.  The server ends its windows by its own
clock and announces the end in whole seconds (`Second` ticks); the bot compares that
with a clock `Skew` ticks ahead.  `_now` (112) is read once, after the first
answer, so that the window of a bucket with `reset_bypass` counts from there even after
a retry (`Received`).

**Hazards**: `lostReply`, an exchange fails before or after the server has handled it,
and `execute()` returns zeroes; `mapRace`, two threads change `_buckets` at once;
`global`, the server also limits the whole bot.  The variable `hazards` is the choice of a
behaviour among the sets in the constant `Hazards`, so that one instance has behaviours with
and without each and a property can say what it holds under.  The race is modelled by its
benign outcomes (either entry is lost), a corrupted map is beyond it.

**Left out.**  `ignore_rates` and `global_limit`, which nothing sets; the status codes other than 200 and 429, which are stored
like a success; the conversion of the reply by `post_task` (`Api`'s `Outcome`).
`reset_bypass` is set for the reactions of a channel before the call is posted
(channel.cpp:443, 458): it is a constant of the bucket's name.

## Cache: how it corresponds to the code

The server changes a guild and tells the session; `on_message` posts every event as a task
of its own (core.cpp:847), and any thread of the pool takes the next one.  A thread runs
one handler at a time.  A handler waits only for mutexes, so its steps end where it does:
`thread[t].step` names the next mutex it waits for.  `std::lock` takes all or none, one
step.  A mutex that is held while another is awaited is kept as a holder
(`_guild_m`, `_channel_m`, the mutex of a guild and of a channel); the mutex of a user and
`_user_m` never are, so what they protect is done in the step.

| variable | field |
|---|---|
| `server`, `link`, `gone`, `events`, `kicks`, `outages` | the server (external) and the bounds on what it does |
| `tasks`, `thread` | the events posted and what each thread is doing: event, step, the guild and channel pointers it holds, the members or channels still to do |
| `guilds`, `channels` | the ids in `core::guilds` and `core::channels` |
| `staleGuilds`, `staleChannels` | the object of each id in `stale_guilds`, `stale_channels` |
| `guildObj[g]`, `channelObj[c]` | every object that was made for an id: a pointer is a number into it, 0 is `nullptr`, and an object in neither map is destroyed |
| `users`, `info` | whether a user exists and has a name; `user::guilds`, the roles of a user in a guild |
| `holder` | who holds `_guild_m` and `_channel_m` |
| `fault` | whether a handler dereferenced `nullptr` or erased `end()` |

| action | code |
|---|---|
| `Take` | the posted task starts (core.cpp:847-876) |
| `Ready` | `process_ready` |
| `Create`, `Find`, `CreateChannel`, `FindChannel` | `guild_create`, `find_guild`, `channel_create`, `find_channel` at the start of the handlers, with their early returns and without the checks two of them lack |
| `Load`, `NextChannel`, `LoadChannel`, `Loaded` | `guild::_load`, with the mutex of the guild held throughout |
| `Mark`, `RemoveGuild` | `ws_guild_delete` before and after its callback |
| `Link`, `Update`, `LockChannel` then `Erase` | `ws_channel_create`, `ws_channel_update`, `ws_channel_delete` |
| `Join` | `_load_nolock` under both mutexes: member add, update, chunk, presence |
| `LockGuilds` then `RemoveMember` | `ws_guild_member_remove`, `_remove_member`, `leave` |
| `Message`, `Add`, `JoinUser` | `ws_message_create`, `ws_message_update`: the author of a message |
| `LoadRole`, `RemoveRole` | `_load_role`, `_remove_role` |

**Left out.**  Names, nicknames, voice states, emojis and the status of users; private
channels, bans, reactions; the user callbacks; GUILD_DELETE and READY entries for outages
of the server, which change nothing modelled; the torn writes of `ws_channel_update` and
`_load_role`, which take no mutex of the guild.  GUILD_ROLE_UPDATE is GUILD_ROLE_CREATE of
a role that is there.

## Permissions, Requests and Api: how they correspond to the code

A bitmask is the set of its bits.  `BasePermissions`, `ComputeOverwrites` and
`GetPermissions` are `guild::base_permissions`, `compute_overwrites` and `get_permissions`
(guild.cpp:210-335); `HasBase` and `Granted` state the rule they stand for, one bit at a
time, without their order of evaluation.

A row of `Requests` is one way the arguments of a call make it behave: whose permissions
it looks at, which it needs, what it does for a private channel or one the cache lacks,
what it fails with by itself, and what it returns.

| variable of `Api` | what it is |
|---|---|
| `server`, `events`, `changes` | the guild as the server has it, the events on their way, the bound on its changes (external) |
| `cache` | roles, overwrites, the bot's own entry; which channels are known (`core::channels`), in the guild's table (`listed`) and point to it (`linked`) |
| `readers`, `waiting` | who holds the guild's mutex shared; whether a handler waits for it |
| `private` | `user::dm_id` is set |
| `call[c]` | a call: its row, what it has computed, and as history what the bot was granted meanwhile |
| `late` | history: channels whose reply came after their deletion |

`Begin`, `ReadBase`, `ReadEntry`, `ReadRole`, `ReadOverwrites`, `Decide` are the steps of the
check, one for each lock the code takes and drops; `Perform` is the exchange and the
server's decision, `Finish` the continuation on the pool thread.  Events are handled in
order by one thread; `Cache` is about the others.

What the models show and no property is about: `modify_guild` documents `owner_id`
(guild.hpp:358) and refuses every change of it (guild.cpp:591); `explicit_content_filter`
is read from `verification_level` (guild.cpp:606); the continuation at guild.cpp:662
captures `this` by reference; `create_guild` reads the reply whatever its status
(core.cpp:2217); two calls of `create_dm_message` may both open the private channel.

## Futures: how it corresponds to the code

| variable | field |
|---|---|
| `posted` | the handlers posted to the `io_context` |
| `prom[i]` | `promise`: whether it exists, `_future`, where `_state` points, `_local_state`, `_task` |
| `fut[i]` | `future`: `_promise`, `_local_state`, the holder of its mutex |
| `global` | the holder of `_global_m` |
| `thr[t]` | where a thread is in `get`, `then`, `forward_to`, a move or a destructor |
| `bare` | futures whose `_global_m` is null: those of `make_ready_future` and `make_exception_future` |
| `carried` | promises of continuations that were posted with the state of theirs |
| `stray` | threads that keep the address of a state that has been moved since |
| `made`, `taken`, `crossed` | history: what each call was to return, what its consumer got, whether a consumer met the producer half way |

A promise and its future share a number and keep it when they move; a step ends where a
thread waits for a mutex or drops one, and where it keeps a pointer it will use later.  Four windows
in which consumer and producer meet without a common lock are named in `Cross`: the address
`state()` has returned and the promise that is moved before it is read (558-598, 739-748, `stray`), a
pointer to a promise that is about to go (738), a state found unready and a continuation not yet
attached (975), and a future moved with its mutex held while the other side holds the global one
(845).  There the outcome is undefined or a deadlock, and the properties speak of everything else.

Two faults need no second thread and are named in `Alone`.  `get()` locks `*_global_m`, which is
null in a future made ready or exceptional (695, 713-725, 915-917), as every refusal of a call
for want of a permission is: `NoMutex`.  And the continuation of `then_wrapped()` on an unready future
captures `this` and reads two members through it when it runs (1030-1032), after that future,
a temporary or moved from by then, is gone: `LostThis`.  Either ends the model's behaviour, as
undefined behaviour may.
With `Void = TRUE` TLC finds `SameValue` violated at once: `future<void>` forwards only
the state `exception_min` as a failure (1320).

## Objects and Events: how they correspond to the code

A row of a class in `Classes` says how one key is converted: of which kind, whether
it is read without asking, when it is there, or when it is there and not null, and when it
is written.  `Decode` and `Encode` of `Objects` interpret the rows; what a field holds is "set" or not.
A row of a load in `Loads` says the same of what `channel::_load_with_guild_nolock`, `guild::_load`,
`user::_load_nolock`, `process_ready` and the handlers themselves read while they change the cache.
`Events` takes one event through its handler: `Begin`, `Lookup` (the early returns and
null pointers), `Load` (the change of the cache), `Convert`, `CallRaw`, `CallTyped`, and
`RemoveGuild` for GUILD_DELETE, which changes the cache last.  Its other machine is `Copy`:
an object is written and its text read again.  The hooks are drawn when they are due (`Draw`):
none, one that returns, one that throws, one that asks the cache.

A load goes key by key and changes as it goes, so that one that fails has changed something: `Load`
sets `effect` and ends the handler.  What the failure is depends on who reads: an exception
is logged by `on_message` (857-870); one inside `_load_role`, `_load_emoji`, `_load_presence` or
`_load_voicestate`, which are `noexcept`, terminates the program (`terminated`); a key that is not there,
read from a const object, is undefined (`fault`).

The course of a handler depends on a payload only through the keys it asks for and through how the
load and the conversion end.  So `Events` takes the jobs, `Payload(_)`, `Loading(_, _)` and `Reading(_)`
(a value, an exception, the end of the program or an undefined read) as parameters, and `Payloads` gives
them: `AllJobs`, and the readings themselves, `DecodeAs` and `DecodeRows` by the rows.

The conditions the properties name are facts about the code: classes that cannot read
their own text (`Breaks`: emoji, invite, reaction, message; a party with sizes; a channel
made by the bot, whose id is never written), fields their writer leaves out (`Unwritten`)
or ties to another (`MayLose`), seven handlers that change the cache and then fail to
convert a null (`FailsLate`), nine that fail while they change it (`FailsLoading`).  Others the models show: `voice_state` writes
`chanel_id`; `owner_id` of a channel is written if `bitrate` is set; `presence_update`
never sets the status; messages of webhooks are told to nobody; a message of an
unknown private author, and MEMBER_ADD, ROLE_CREATE and ROLE_UPDATE of an unknown
guild, dereference null; CHANNEL_UPDATE and CHANNEL_DELETE index `guild_id` without asking
(1711, 1747); fields without initialiser (`_limit`, `_allow`, `_deny` of the requests,
`instance` and `flags` of an activity) hold anything when they are absent.

## Bot: how it corresponds to the code

| variable | field |
|---|---|
| `main`, `joined` | where the thread of main is: constructor, `run`, `yield` (looked, asleep), destructor; how many threads it has joined |
| `status`, `valid` | `_status`, `state_valid` |
| `external`, `stopped`, `work`, `queue` | whose the `io_context` is, whether it has been stopped, `wrk`, what is posted |
| `pool` | `threads`: idle, in a handler or a timer's callback, inside `shutdown()`, waiting in `get()`, over |
| `outsider` | a thread of the user's that calls `shutdown()` |
| `lookup` | a lookup of a shard by a handler: of which process, the id, what was found |

`Construct`, `Run`, `Look`, `Sleep`, `Destroy`, `Join`, `Free` are main's;
`Interrupt`, `Outside`, `Inside` are the three steps of `shutdown()`; `Take`, `Leave`, `Return`,
`Throw` the life of a pool thread; `SetTimer`, `ReduceThreads`, `AddRunThread`, `Ask`
(`async(...).get()`) and `Find` what user code does in a handler.  `WakeUp` is the spurious
end of a wait without predicate.  A bot with a bad configuration does not run and sleeps in
`yield` for ever.  `Shards` is the loop that fills the vector of shards (shard_mgr.cpp:71-79) as a recursive
function, one entry per round.  `shard_mgr::shutdown` stops an `io_context` of the user's as well.

## Runs

### ShardMgr

All instances have the bounds `Shards = {s1, s2}` (one shard can be dialled
while another is queued or online: the manager treats all others alike),
`Conns` of two or three identities reused when nothing refers to them (a shard
can have a new socket while its last and that of the other shard linger), and
`MaxFaults` of one or two disturbances.  Identities of connections are
interchangeable, so the safety runs may use them as a symmetry set; the shards are
ordered by `StartOrder` and are not.

| run | hazards | faults, conns | checks |
|---|---|---|---|
| `punctual` | `tornReady` | 2, 3 | `TypeOK`, `NeverLost`, `DialIsHead`, `NoRuntimeError`, `OpenIsOwned`, `LeavesListOnOpen`, `ImplementsLifecycle`, `EventuallyOnline` |
| `late` | `slowStrand`, `slowPool`, `lateOpen`, `liveInvalidSession` | 1, 2 | `QueueNoDup`, `ConnectingHasShard`, `ShutdownIsFinal` |
| `ready_timeout` | `slowReady` | 1, 3 | `NeverLost` is violated |

The punctual run says that the bookkeeping of the manager is right as long as
handlers run in time: no shard is lost, the socket being dialled is the head of the
list, every open socket has a shard and an inflate context of its own, and the
manager implements `ShardLifecycle`: one attempt at a time, a shard up only through
its own attempt, nothing new after shutdown; after the last fault every shard comes
online and stays online.  The `late` run adds what does not need punctuality; `slowReady`
is left out of it because it multiplies the states past reach (two million with it in
place of `lateOpen`, where the same properties hold), and the theorems below cover
every choice of hazards.  The violation says what it costs when an order fails: in
`ready_timeout` the connect timeout (shard_mgr.cpp:359-366) pops the head of the
list for a shard whose open handler has already taken it off.  The head is
another shard, and it is never queued again.

More orders matter, as the model shows.  `shutdown()` stops the `io_context` before it posts
the resets that would close the sockets (shard_mgr.cpp:100-102), so none runs, though
shard_mgr.hpp:106-107 says otherwise.  With `slowStrand`,
`LeavesListOnOpen` fails: `_on_close` queues the shard at once but posts its reset, and a
`ws_status` in between still sees it as connected and drops it from the list.  With
`liveInvalidSession`, `NoRuntimeError` fails: READY clears `_connecting_shard` and
`_connect_time` whoever they belong to, so that when op 9 makes a live shard identify again
while another is dialled, the other one is dialled twice.

**Fairness.**  `EventuallyOnline` assumes weak fairness of the handlers that are ready (the
event loop runs what is posted, `ws_status` re-arms itself at line 412, an armed
timer expires), of open and close handlers (websocketpp bounds the dial and
the closing handshake) and of the answers of a living gateway.  Nothing is assumed of
faults, of a failing dial or of shutdown.  Faults are bounded by `MaxFaults`, and the
property says what follows once they are over.

### Ratelimit

Three calls of two names, one of which has `reset_bypass`, one call per window: the second call
of a name already meets an exhausted bucket, the third keeps the other name busy.  A window of
three ticks against seconds of two makes the announced end differ from the real one.  Two
threads are enough for every pair of interleavings, and for all threads to be asleep.

| run | instance | hazards, skew | checks |
|---|---|---|---|
| `rate` | 3 calls, 2 names, 2 threads | `lostReply` alone or all, 2 | `TypeOK`, `NeverRefusedTwice`, `OneAtATime`, `AtMostOnce`, `EveryCallAnswered` |

When the clocks agree and no answer is lost the limiter is exact, which is proved
(`Admission`): between exchanges a bucket is never more hopeful than the server, and no call
is refused.  Whatever goes wrong, no call is carried out twice and every call is answered.
A clock that is ahead gets calls refused, since a window ends early (bucket.hpp:80-93) and
the correction the code computes (138) is commented out where it is needed; but with neither
a skew nor a lost reply is a call refused twice.

Three more facts show in the model and are not worth a run.  `global_limit`
(ratelimit.hpp:134) is never set after the constructor, so `is_global()` is false even
while every call is refused.  With `mapRace`, two calls of one name may hold different
buckets and exchange at once, so that `OneAtATime` keeps for the bucket only, and a retry may
find its window used up.  And with two threads the second call of a name may
take the mutex before the first, so that sleeping with it does not keep messages in order
as the comment at bucket.hpp:103-105 would have it.

**Fairness.**  `rate` assumes weak fairness of `Start` (a free thread takes the
next task), of time, and of the steps of each call (a running thread proceeds, the
exchange ends: `execute()` reads until the server closes).  A `std::mutex` need not be
fair; weak fairness of each `Lock` is enough since every call takes a mutex once, so
that it is free for good when the others are done.

### Cache

One guild: no handler relates two.  Two channels and two users let one of each be
handled while the other is being loaded; three changes of the server suffice to
create, change and remove one thing, or to remove the guild, add it again and
change it.  `Offline` is a user GUILD_CREATE does not list, as in large guilds.

| run | threads | events | checks |
|---|---|---|---|
| `cache_serial` | 1 | all kinds, 3 changes, 1 removal, 1 lost session | `TypeOK`, `NothingExtra`, `Complete`, `NoFault` |
| `cache_threads` | 2 | `MCCalm`, 3 changes, 1 removal | `PointersValid`, `MembersHaveInfo`, `AllHandled` |
| `cache_stale` | 1 | all kinds, 2 removals | `PointersValid` is violated |

With one thread the cache follows the server: when all events are handled it has the
server's guilds, members, roles and channels, tied together, and no handler misses what it
looks for.  After a lost session it still has all of that (`Complete`), but keeps
what was removed meanwhile, because GUILD_CREATE only adds (`NothingExtra` speaks of no
outage).  The pool never has fewer than four threads (core.cpp:93, 123, 157),
so that this is not the usual case.  With two threads:

* `NothingExtra` and `Complete` fail: a GUILD_DELETE may be handled before the
  GUILD_CREATE that precedes it ("this should never happen", core.cpp:1471), and the guild
  stays.
* `NoFault` fails with all kinds of event: GUILD_MEMBER_ADD and GUILD_ROLE_CREATE do not
  check `find_guild`, and a channel made but not loaded yet is taken for a private one, whose
  author is not checked (core.cpp:1299).
* CHANNEL_DELETE deadlocks with a GUILD_CREATE or GUILD_UPDATE of its guild: the one holds
  the channel and `_channel_m` and waits for the guild, the other the reverse.

`cache_threads` leaves these events out (`MCCalm`) and shows that there is no other such
wait among the rest: every event is handled.  `cache_stale` needs no
second thread.  A guild the bot leaves for the second time is destroyed, since
`stale_guilds` holds one object per id, and its channels keep pointing to it.  A deleted
role is taken out of a copy of each member's entry (guild.cpp:344); `Complete` speaks of the
roles a member has and so holds, and what the role left behind costs is
`DecidesLikeServer` and the theorem `UnknownRoleLosesBase`.

**Fairness.**  `AllHandled` assumes weak fairness of each thread: it runs a task if there
is one and gets a mutex that is free.  Nothing is assumed of the server.

### Api

| run | instance | checks |
|---|---|---|
| `api_calls` | one caller, the guild's role and one more, one channel, two masks, two overwrites, two changes of the server, one call of each kind in `MCAsked` | `BetweenViews`, `DecidesLikeServer`, `ChannelsSettle`, `NoTerminate`, `Answered` |

One caller suffices: calls meet only in the cache and in the shared mutex, and a second reader
changes neither.  Two changes are the fewest that let a check see the one and not
the other: then it may compute a mask that was never the bot's, and `BetweenViews` says what is
left: no bit that no role granted at any moment.  `MCAsked` has one call for each way rows
differ; the other rows are the same ways with other bits.  `DecidesLikeServer` excludes what
the code cannot know, a server that changed meanwhile, and one case it gets wrong: a deleted
role still in the bot's entry, which takes away every permission that no overwrite allows.  `Answered` holds but for
`Nested`: a handler that wants the guild's mutex between the two times `get_permissions`
takes it shared stops both, where a waiting writer goes first (`WriterFirst`, as in a
`std::shared_mutex` that prefers writers).  `NoTerminate` names the three ways in which a call
ends the program: an exception in a `noexcept` constructor of `message`, for a reply
without content or a channel that is gone, and in `create_message` for a private channel.

**Fairness.**  Weak fairness of the gateway's handlers and of each call once it has begun:
threads run, and the exchange ends.  Nobody has to call, and the server need change nothing.

### Futures

`futures_pool`: one handler of the application on two threads, four promises, so that a
continuation can return a future, be chained to and be forwarded: `TypeOK`, `NoFault`, `AtMostOnce`,
`SameValue`, `Answered`.  Two threads make every crossing of a consumer with a producer; the third
promise is the one a continuation makes, the fourth the one that takes its place.
`AtMostOnce` holds without exception; `SameValue` holds unless `crossed`; `NoFault` also leaves the
two faults of `Alone`, and `Answered` every thread polling in `get()`.  **Fairness**: each thread of the pool keeps running.

### Events

`events`: all 33 events (a private message is one of its own), each with its whole payload and with every single key null or missing,
known and unknown guilds, channels of a guild and private ones, both callbacks absent, returning,
throwing or asking, and copies of every class with each field set or not: `RoundTrip`, `ToldWhatChanged`, `EffectDespiteHooks`, `Completes`.

`ToldWhatChanged` names what the code gets wrong: with the raw callback or without, an event that changed
the cache is told to both or, when the load or the conversion of one of the named handlers failed, to
neither.  A channel's null `position` or `nsfw` is enough (channel.cpp:76-87, rethrown at 138-141), or the
null `status` of a presence (core.cpp:1231), which in GUILD_CREATE ends the program (guild.cpp:125).
`Completes` excepts GUILD_MEMBER_ADD alone, whose callbacks, the raw one too, run with two mutexes held.

One odd key at a time suffices, since a conversion stops at the first that throws.  TLC
also evaluates `LoadingAssumption` and `ConversionAssumption`, which the proofs rest on, by reading
every payload.
**Fairness**: a handler runs on; nothing makes the bot shut down.

### Bot

`bot`: a pool of two threads that may grow by one, three posted tasks, one
thread of the user's, a bot of one process: `OutlivedByNone`, `Finishes`.  A second thread lets a
handler wait in `get()` and another answer it, or both wait; the third is the one added while the
destructor joins.  The pools of the code have at least four threads (core.cpp:123, 157, 184): two
wait for each other as four do.  A bot that is shut down ends, but not when the call falls between
`yield`'s look and its wait, or comes before `run()`, or when a handler waits in `get()` for what the
stopped `io_context` will not run.

`bot_clustered`: the same with processes of bots of two and three clusters: `FindsShard` is violated.
`core.hpp:785` and `:792` document a lookup by the shard's id and by a guild on it; a
shard is found by its position in the vector (shard_mgr.cpp:483), which in a clustered bot holds only the
shards of the process (`core.hpp:140-148` numbers them across the processes).  TLC has the first of two
processes, with shards 0 and 2, look for shard 2.  The runs may end:
`CHECK_DEADLOCK FALSE`, as in `futures_pool`, `api_calls` and `events`, where all calls may be over.
**Fairness**: main, the user's thread in `shutdown()`, and each thread of the pool go on and
handlers return; nobody has to call `shutdown()` or to wake spuriously.

## Proofs

`ShardMgr_proofs` proves, for every set of shards, every number of connection
objects and faults and every choice of `Hazards`:

* `TypeCorrect`: `Spec => []TypeOK`.  `TypeOK` is inductive; there is one lemma per
  group of handlers and one per operation they share.
* `ListHasNoDuplicates`: `Spec => []QueueNoDup`.  Inductive on top of `TypeOK`:
  `ListStep` says a handler leaves the list, pops it, or applies
  `queue_reconnect` to it or to its tail, and both keep a list without duplicates.
* `ClockHasShard`: `Spec => []ConnectingHasShard`.  Not inductive by itself: a torn
  READY waiting in the pool has cleared the shard and not yet the clock.  The
  strengthening is `WholeEvents`: without `tornReady` no event is torn.
* `ShutdownFinality`: `Spec => ShutdownIsFinal`, an action property, from `TypeOK`
  and `WholeEvents`.

They rest on `ShardMgrAssumption` only: the start order lists every shard once and
the null values are no shard and no connection.

Its second half proves what holds when handlers are punctual, again for every set of
shards, every number of connections and of faults: `SteadyThroughout`, from which
`NoShardLost` (`Spec => []NeverLost`), `DialsTheHead` (`[]DialIsHead`), `NoNullPointer`
(`[]NoRuntimeError`), `OpenSocketOwned` (`[]OpenIsOwned`) and the action property `LeavesOnOpen`
(`LeavesListOnOpen`) follow.  Each has the hypothesis `Punctual`: no hazard but
`tornReady`.  That is not the prover's wish: with `slowReady`, `slowStrand` or
`liveInvalidSession` TLC finds one of them violated, as said above.  None of
these properties is inductive.  That the dial is the head of the list depends on
the shard at the head having no socket left, which depends on who may still post a reset, and so on.
`SteadyInv` closes the circle, while the `io_context` runs, with eight parts: what may wait on a strand (`StrandInv`), that a
connection belongs to one shard (`ConnectionInv`), what an attempt holds: the clock, the head of the list
and no READY on its way (`AttemptInv`), that an open socket is the only one of a shard that is off the list
(`LiveInv`), that a queued shard has nothing left of its last connection or will have
before the list is looked at (`QueueInv`), that one READY waits at most and its clock still runs
(`EventInv`), that a dial that failed is still that of the head (`ClockInv`), and `NeverLost`.

Its last section proves `Refinement`: under the same hypothesis `Spec` implies
`Lifecycle!Spec`, the safety of `ShardLifecycle` under the mapping of `ShardMgrRefinement`.
`SteadyInv` lets the phase of every shard be read off its socket alone (`PhaseRead`).
`DialNext` is a `Begin`, READY and RESUMED a `Succeed` (`Answer`), a
failed dial or a close an `End`, `ShutdownBegin` a `Close`; every other handler stutters.
Only `EventuallyOnline`, liveness under fairness, is beyond the prover.

`Ratelimit_proofs` proves, for every set of calls and names, all limits, windows and
seconds, any number of threads:

* `TypeCorrect`: `Spec => [](TypeOK /\ HasBucket)`: no call is at a mutex
  without a bucket, whatever the hazards and the skew.  The arithmetic it
  needs is the lemma `RoundUp`.
* `Exclusion`: `Spec => []OneAtATime`.  That a call that exchanges holds the mutex of its bucket
  (`Held`) is inductive whatever goes wrong.  Without `mapRace` the inductive invariant `Excl`
  adds that the task queue holds each posted call once and that a name has one bucket
  and its calls that bucket (`Buckets`, `Found`).
* `Admission`: `Spec => [](InSync => NeverRefused /\ Mirrored)`, where `InSync` is a skew of at
  most 0 and no hazards.  Neither is inductive: `IInv` adds `Excl`, that
  an answer on its way to the bucket still knows the server's window (`Answered`), that a
  call admitted stays admitted until it is sent (`Admitted`), and that no window of the
  server is longer than the names say (`Fits`).  `Accepts` is the heart: what `can_perform()`
  admits, the server accepts.

* `AtMostOnceEver`: whatever the hazards and the skew, `Spec => []AtMostOnce`.  The invariant `Once` adds
  that a call still to be sent, or to be sent again, has had no effect at all (`Pending`).
* `RefusedOnce`: for any skew, with lost replies, `Spec => []NeverRefusedTwice`, which speaks of
  behaviours in which emplaces do not race and the server does not limit the whole bot.  The invariant says that the window that refused a call ends no later than its sleep (`Waited`);
  with `Excl` the bucket's mutex keeps every other call of the name from filling the next.

They rest on `RatelimitAssumption`: positive limits, windows, seconds and threads, and
every call has a name.  Model-checked only: `EveryCallAnswered`, which is liveness.

`Api_proofs` proves, first, about the operators of `Permissions`, for all guilds, members, roles,
channels and overwrites, without assumptions on the constants of any module:

* `PermissionRule`: for a member who is neither owner nor administrator and whose roles are
  known, `GetPermissions` grants a bit exactly when the rule `Granted` does.  The code applies masks one
  after another; the lemmas (`ApplyBit`, `OverwriteBit`, `RoleOverwritesBit`, `BaseBit`, `FollowBit`)
  follow a single bit through them.
* `UnknownRoleLosesBase`: for a member with a role that is gone but still in the entry, what
  the roles grant is lost: a bit is granted exactly when the overwrites of the channel grant it by
  themselves (`GrantedByOverwrites`).
* `SetNeverGrants`: `permission::set_...` clears every other bit and sets none.

Then, about `Api`, for any callers, roles, masks and overwrites, any way of calling in the table
of `Requests`, any number of changes of the server, and events in flight without bound:

* `ApiTypes`: `Spec => []TypeInv`.  `Fits` adds to the type that a call is checked only
  against what its row names, and that one that opens a private channel is posted for its message only
  once the channel is known.  The rows themselves are checked group by group (`AllRows`).
* `NothingElseTerminates`: `Spec => []NoTerminate`.  A result stays what it is, so the heart is
  that a channel deleted from the cache before the reply stays deleted (`MainStaysGone`).
* `ChannelsCatchUp` and `GuildCatchesUp`: `Spec => []ChannelsSettle`, and the same of the roles, the
  bot's entry and the overwrites.  What is true once the queue is empty has to be
  carried while it is not.  Instead of induction over the queue the invariants speak of one subject at a
  time, a channel, a role, the entry, the overwrites: the last event about it in the
  queue says what the server has (`LastWord`), and where there is none (`Silent`) the cache has it.
  `AppendWord` and `TailWord` are all that is needed of sequences.  A reply that
  beats its CHANNEL_CREATE adds `Announced`: the creation of a channel that is gone is
  followed by its deletion.
* `ChecksLikeServer`: `Spec => []DecidesLikeServer`.  `QuietInv` says how far a call that nothing
  disturbed has come: what it has read is what the cache has, only channels being created
  are in the queue, and one that was posted is permitted.  `InStepSame` turns the two invariants of the
  queue into equality with the server, and `InStepGrants` that, with `PermissionRule`, into agreement on each bit.
* `ChecksBetweenViews`: `Spec => []BetweenViews`.  A view is what the overwrites make of the masks
  read so far; it adds some bits and takes others away whatever the base is (`ViewForm`), so it
  grows with the base (`ViewGrows`) and is made of the views of single bits (`ViewSingles`).  The
  first half of the property follows bit by bit.  For the second, `Completed` is what the check will have read if
  nothing more changes: when the one change comes, the role is either still to be read, and that is
  the base after the change or more, or already read, and it is the base before.

They rest on `ApiAssumption`: the ids are distinct, no caller's channel is Main, and masks are
sets of bits.  TLC checked each of these invariants on the instance of `api_calls`, and
`ViewInv` with two roles besides everyone's, before it was proved.  Model-checked only:
`Answered`, which is liveness.

`Bot_proofs` proves, for a pool of any size, any number of posted tasks and any processes:

* `PoolCorrect`: the inductive invariant of the bot's life (where main is allows what the
  threads may do; a thread that was joined is over), and from it
* `Outlived`: `Spec => []OutlivedByNone`.  It asks that the pool be finite, as `BotAssumption` says.
* `ShardFound`: `Spec => [](FindsShard <=> lookup = None \/ Alike(...))`: a lookup finds its shard exactly
  when the bot has one process or the shard is 0, so that what `bot_clustered` shows of one process
  holds of all.
* `OneProcess`: each shard of a clustered bot is run by exactly one of its processes.  What the loop of `shard_mgr::start` leaves in its vector
  is followed round by round (`Round`): after k rounds it holds, in order, the ids below k that the
  process owns.  The library's induction takes an operator, which no installed
  prover can instantiate; `NatSet` states induction of a set instead, and is proved from the
  well-foundedness of `<`.

`Futures_proofs` proves, for any pool, any number of calls and either kind of future:

* `TypeCorrect`: `Spec => []TypeOK`.  The type alone is not inductive: `TypeInv` adds what a thread has
  in hand at each place of its program (`Equipped`), and that the numbers kept
  for calls that have begun do not run out (`Budget`, a sum of cardinalities), so that
  the bound `Ids` keeps calls from starting and stops none.
* `HandedOverOnce`: `Spec => []AtMostOnce`, crossed or not.  `TokenInv` treats a future as a token: one thread
  has it in hand (`OneHand`), or one posted continuation (`OnePost`) or one promise
  (`OneLink`) was chained to it, or its result was taken, and never two of these
  (`Apart`).  Every step passes one token at most (`Passes`).

Its second half follows a promise through the hands of the threads, which takes an
invariant of its own:

* `NothingGoneIsUsed`: `Spec => []NoFault`.  `Uncrossed` says, as long as nothing is crossed: a promise
  has one maker (`MakerInv`), the thread that is to fulfil it, a posted handler or a promise
  whose continuation will, so that nobody fulfils or destroys it twice; a future and its
  promise point at each other (`Linking`); a promise with a maker is there (`Alive`) and is set
  exactly when its maker is past `set_value` (`Content`); and what a thread has seen of a
  future before it let the locks go still holds (`Sound`).  The last part is where each of the four
  crossings would break it.  A fault of `Alone` ends the behaviour (`AloneBreaks`).
* `ResultsArriveUnchanged`: `~Void => (Spec => []SameValue)`.  `Meant` follows a value from where it is
  made to where it is taken: what is held in a promise, its local state or its
  continuation (`Sealed`), in a thread's future (`Held`) or in a posted continuation (`Tells`) is what the
  call it stands for was made to return; no two live promises answer for the same call, and
  one that is not set yet answers for a call nothing was made for, so that a value never
  has two sources.  TLC checked `crossed \/ Meant` on the states of `futures_pool` before it was
  proved.  Futures without a value are left out because for them it is false: `forward_to()` of
  `future<void>` takes no failure for one.

They rest on `FuturesAssumption` and on `NoContinuation`: nullptr is no continuation.  Model-checked
only: `Answered`, which is liveness.

`Cache_proofs` proves, for any number of threads, any finite set of guilds, any channels, users and
roles, and all kinds of event, those `cache_threads` leaves out included:

* `TypeCorrect`: `Spec => []TypeOK`.  `TypeInv` adds what the type needs to be inductive: the server
  puts into an event what the handlers of its kind read unchecked (`WellFormed`); a handler has the
  guild and the channel that its place in the code uses (`Equipped`); the stale maps hold objects
  that were made (`GuildPart`, `ChannelPart`); `_guild_m` and `_channel_m` are held by the thread
  that waits for another mutex with them, and the guild a member is removed from is the one in the
  map (`LockPart`).
* `MembersEntered`: `Spec => []MembersHaveInfo`.  A step adds members to a guild (`Grows`) only with
  their entries, or with a handler at `joinUser` that will make them; it takes an entry
  only with the member (`EntriesKept`).  A handler in between keeps its place while others run.
  RemoveMember is where it could fail: it takes the entry of the id and the member of the object
  it found, and `LockPart` says that these are of the same guild object.
* `PointersStay`: `MaxKicks <= 1 => (Spec => []PointersValid)`.  The pointers themselves are kept by
  every step that does not destroy an object (`PointersKept`): a handler's come from a map or from a
  channel object, a channel object's from a handler.  Two steps could destroy one, GUILD_DELETE and
  CHANNEL_DELETE, if the stale map already had an object of the id.  `LeftOnce` and `ErasedOnce` say
  it has none: while such an event is on its way or being handled, it is the only one of its
  kind (`Single`) and the stale map has no entry.  For channels this follows from ids that are never
  used again (`gone`), for any number of deletions; for guilds, which can be joined
  again, it is the hypothesis, and `cache_stale` shows that it is needed.  TLC checked
  `TypeInv`, `LeftOnce`, `ErasedOnce` and the pointer invariant with two threads and all kinds of event before they
  were proved.

`CacheSerial_proofs` proves what the cache is worth when one thread runs the `io_context`, again for
any guilds, channels, users and roles, all kinds of event, any number of changes and of lost sessions:

* `NothingLeftBehind`: `Spec => []NothingExtra`, `NothingMissed`: `Spec => []Complete`, and
  `NoFaultSerially`: `Spec => []NoFault`.  Each has the hypothesis `Threads = {me}`: with two threads
  TLC finds all three violated, as said above.  The cache lags behind the server by the events that wait, so that no
  relation of the two is inductive.  `SerialInv` names what lies between.  There are stages, what the
  server was between any two waiting events (`History`): each event brings the server from one stage to the
  next (`After`), says what is so at the later one (`Says`) and changes only the guild it is about (`Turns`);
  the last stage is the server of now as long as the session lives; and after a READY the server may
  be anything that a lost session could leave, but forgets no id that was used (`Grown`).  The cache is
  the first stage, but for what the handler at work has yet to do (`Matches`): it has the members with
  their roles, the roles and the channels of every guild that was described in the session (`HasAll`), and
  as long as no session was lost it has no others (`HasNoMore`).

  A handler's step keeps the stages and does some of what was left to do: there is one lemma per step
  (`LoadCarried`, `JoinCarried`, ...).  Taking a task drops the first stage (`TakeCarried`); a
  change of the server appends one (`FitsGoes`, one lemma per change for what its event says); a
  new session appends one per guild (`IntroducesChain`).  No induction over the queue is needed, since
  the stages are a function on its positions.  Once all events are handled the one stage left is the
  server.  Three things the proof needs are worth a reader's notice: a removed role stays in the
  entries of members, and does no harm only because the ids of roles are never used again (`RolesSeen`);
  CHANNEL_UPDATE, which sets no `_guild`, finds the channel entered by an earlier event; and the
  entry that ws_guild_member_remove erases unchecked is there by `MembersEntered`.  TLC checked
  `SerialInv`, with the stages kept as a variable, before it was proved.

They rest on `CacheAssumption`: GuildOf names the guild of each channel, the guilds are finitely
many (a greeting lists them), and Null is no thread and no id.  Model-checked only: `AllHandled`, which is
liveness.

`Events_proofs` proves, for any jobs, any payloads and any callbacks, known and unknown guilds:

* `ToldSafely`: `Spec => []ToldWhatChanged`, and `EffectSafely`: `Spec => []EffectDespiteHooks`.
  Neither is inductive, since both speak of the end only.  `Course` says what a handler has changed and whom it
  has told at each stage: before the load nothing; between the load and the callbacks what
  the event is to change (`Changing`), and then only if the lookup let the payload pass
  (`Passed`); between the callbacks what the raw one was told, and that it did not throw
  (`Telling`); before a guild is removed, both.  TLC checked `Course` on the run `events` before it was proved.

They rest on `JobsAssumption` (every event has a handler), on `LoadingAssumption` (a load comes to its
end, or fails in a way that `FailsLoading` names for its handler) and on `ConversionAssumption` (a
payload that passes the lookup of a handler that changes the cache converts, or throws in one
of the seven handlers of `FailsLate`).  The last two are facts about the tables of `Loads` and
`Classes`, which TLC establishes for every odd payload.  Model-checked only: `RoundTrip`, because `Objects` and `Payloads` use
RECURSIVE operators (classes contain classes), about which nothing can be proved; and
`Completes`, which is liveness.

## Plan

Every invariant and action property that a run checks is proved, but for `RoundTrip`, each under the
hypotheses its paragraph above names.  What is left is to model more: the
private channels and USER_UPDATE of the dispatch, and the write queue of a shard.

## Not modelled

* The write queue of a shard (`send`, `process_writes`, shard.cpp:125-270).  Its tasks run on the strand
  of a connection, `send_now` does not, and a message queued before a reset may be
  sent after the next open.  What it would add is a matter of data races on `std::queue`, whose
  outcomes are not a finite set.
* Sockets, TLS, HTTP headers and DNS of the REST controller: one exchange is one step.
* The text of paths, bodies and messages; names, nicknames, voice states and emojis in
  the cache; what each key of `config.json` sets, beyond whether it can be read.
* Utility functions, snowflakes, logging: formatting and clocks.
* Torn writes of containers that two threads change without a lock: each write is taken as
  atomic, and where it is known to race the README or a hazard says so.
* websocketpp, asio, nlohmann::json, spdlog, zstr: the submodules are empty; they are modelled where
  the code uses them, as external definitions.
