# A TLA+ model of NAGUS

NAGUS is a server for Myst Online: Uru Live: one Python process, one asyncio
event loop, one SQLite database. This directory holds specifications of its
stateful parts, instances of them for the model checker TLC, and proofs checked
by TLAPS. The specifications are translated from `src/nagus/*.py`; the
documentation and the comments in the code are used as claims to compare with.

`PROJECT.json` lists the runs, the source lines every definition stands for, a
mutation for every property that is checked (a plausible bug the property
catches), the findings, the hazards and the theorems.

## Inventory

**Auth sessions** (`auth_server.py`, parts of `state.py`, `console.py`).
*State:* `auth_connections` by token, `auth_connections_by_ki_number` by
avatar; per session an `AuthClientState` with `usable`, `ki_number`,
`cleanup_handle`; the event loop's timers; background tasks.
*Operations:* `read_connect_packet_data`, `account_set_player_request`,
`kick_async`, `handle_disconnect`, `_clean_up_now`, `set_avatar_offline`, the
console's `kick`. *Interaction:* handlers share the dictionaries, a kick
reaches into another connection, the clean-up is a timer, offline updates are
tasks that call the vault. *Hard:* a reconnect against the timeout, a kick in
the middle of a handler's await, broken sockets, late tasks. *Correct when:*
the dictionaries agree with the sessions; an avatar has one player; a session
that ended cannot come back and leaves nothing behind; avatars go offline.

**Message replay** (`AuthConnection.write`, `read_connect_packet_data`).
*State:* `messages_while_disconnected`. *Operations:* a failed write remembers
its message, a reconnect sends what was remembered. *Hard:* the replay's own
writes can fail and append to the list it is consuming; other tasks write
meanwhile; a client can come back again while an older replay is suspended;
sockets fail in several ways. *Correct when:* the server loses or doubles nothing
unless two replays overlap, and the replay ends.

**Vault database** (`Cursor`, `Database` and the vault methods of
`ServerState`). *State:* one sqlite3 connection with its transaction, an
executor with one thread, the tables `VaultNodes` and `VaultNodeRefs`.
*Operations:* create, update and delete a node, add and remove a reference,
each a series of jobs for the thread. *Interaction:* every connection's
handler calls them, and nothing keeps two calls apart. *Hard:* calls overlap
between their jobs and share the transaction; a call may raise; the process
may die. *Correct when:* what was reported as done is committed and stays so;
references lead from node to node.

**Vault notifications** (`ServerState.update_vault_node` and others,
`cares_about_vault_nodes`). *State:* per session the nodes its client is told
about. *Hard:* the server iterates over `auth_connections` and awaits in the
loop; a client starts to care before or after it reads. *Correct when:* a
client that has read a node learns of every later change.

**Avatars and ages** (`create_avatar`, `delete_avatar`,
`create_age_instance`, static instances, `set_all_avatars_offline`). *State:*
trees of vault nodes. *Hard:* a check and the creation are many awaits apart;
an avatar is about thirty transactions; a crash or an error can come between
any two. *Correct when:* names and instance UUIDs are unique but for
requests at the same time, what is reported as created is complete, every start
provides the static instances, a deletion gets to its end.

**Game server** (`game_server.py`, parts of `state.py`). *State:* per connection
the joined age, its prefix and the locks; in the database the SDL states of ages
and objects. *Operations:* join an age, change a state, ask for all states, lock
and unlock, load a clone, relay messages of the engine. *Interaction:* handlers
of several connections call the database between each other's calls. *Hard:* an
SDL change is fetched, applied and saved in three steps; a request reads row by
row while others save. *Correct when:* a change is lost only to one it overlapped
with, or to the set-up of the age; a request gets all that was saved when it came,
and the right count; a client that keeps to the order of a real one is cut off only
for a blob that cannot be guessed.

**SDL records** (`sdl.py`). No state; the server lays a change over a saved
record without knowing the descriptor that says where a variable ends. *Hard:*
the end is guessed from what looks like the start of the next variable. *Correct
when:* no wrong guess is saved, and a change is only refused for the reasons the
documentation gives.

**Connection set-up** (`base.py`, `__main__.py`). *State:* the stage of a
connection, its cipher. *Operations:* connect packet, negotiation of the
encryption, dispatch by message type, the errors that end a handler. *Hard:* the
combinations of configuration and client. *Correct when:* both sides agree on
the encryption or the connection ends.

**Game messages and messages of the engine** (`game_server.py`,
`pl_messages.py`, `structs.py`). Eighteen classes of messages that clients and
server exchange, of which the game messages wrap one of another eighteen, made of
tasks, brains, animation stages and twelve kinds of events. *Hard:* flags that say
which fields there are, optional and repeated parts, values that are refused,
exceptions that one layer raises and another does not expect. *Correct when:*
what is sent back is what came in, and an error in a message of the engine harms
nobody.

**Numbers** (`structs.py`). A location's number holds an age's prefix and a
page's suffix, with reserved ranges. *Correct when:* making and splitting are
inverse, and the AgeSDLHook is placed in the age of the client.

**Auth requests** other than the above read, call the vault and answer. The
gatekeeper and status servers are stateless; configuration, client
configuration, keys and RC4 are input, formatting and arithmetic without a
protocol.

## Modules

| module | models | with |
|---|---|---|
| `AuthSessions` | sessions, kicks, timers, tasks | `AvatarOwnership` as its abstract specification |
| `Replay` | one session's remembered messages over its connections | |
| `VaultDb` | overlapping vault calls on the shared connection | |
| `VaultNotify` | who is told of a change of the vault | |
| `VaultTrees` | the vault calls of which avatars and age instances are made | |
| `AvatarLifecycle` | those calls of several clients and starts, interleaved | `VaultTrees` for its scripts |
| `AgeState` | connections that share an age: its SDL states, requests for them, locks | |
| `SdlBlob` | reading, writing and changing a record by guesses, byte for byte | |
| `SdlStore` | the saved blob of an object, and the changes that clients send | `SdlBlob` |
| `SequenceNumbers` | prefix and page in one number | |
| `Layouts`, `NetMessages`, `PlMessages` | what binary structures and messages consist of | |
| `Streams` | how what a layout describes is read and written | the layouts |
| `GameWire` | one connection to the game server from its first byte on | `Streams`, `SequenceNumbers` |
| `MC...` | values for the constants and symmetry for TLC | |
| `..._proofs` | the theorems | |

### AuthSessions

The event loop runs one step at a time, so an action is what happens between
two awaits. What methods do to the server's state are functions on one record,
`srv`, named after the methods (`CleanUpNow`, `HandleDisconnect`, `Kick`,
`Claim`), because one step of the loop often runs several of them: a set-player
message that kicks another client, raises half way and ends its handler is one
action. `account_set_player_request` awaits the vault when it drops an avatar;
it is cut there into `SetPlayer`, `SwitchVault` and `SwitchResume`. A raised
`KeyError` or failed assertion ends the handler (`End`), or the callback, with
whatever was done before it.

`switch` is the handler that waits, `closing` and `offline` are the tasks
`_get_kicked` and `set_avatar_offline`, `timers` are the scheduled callbacks and
`handle` is the attribute `cleanup_handle`, which outlives its timer. A token is
named after the connection that got it.

The constant `Disturbances` says what the environment may do: reconnect before
the server noticed the loss (`halfOpen`), send messages after a kick
(`kickedTalks`), kick from the console while a handler waits for the vault
(`kickMidMessage`), break a socket while it is closed (`reset`). The properties
that hold in every environment are checked and proved for every value; those
that need an orderly environment are checked and proved for `{}`, and the runs
that expect a violation switch on one disturbance each, or none.

`AvatarOwnership` is what this promises: an avatar belongs to one session at a
time, taking it from somebody ends that session, and a session that ended stays
ended. `ImplementsOwnership` maps a session to the token of a connection that is
entered for the avatar.

Simplifications: a client asks for avatars from `KI`, of which only `Avatar`
exist; the online state of an avatar is one bit; errors of the database while an
avatar is set offline are left out (they end the task); the kick inside
`delete_avatar` is in `AvatarLifecycle`.

### Replay

One session's connections in turn. `link` says what the transport and its reader
know: a client can have left unnoticed, a failed send makes the transport close,
one turn of the loop later the reader has the exception. `drain` raises that
exception at once, or yields and then raises `ConnectionResetError`; only the
latter is caught by `AuthConnection.write`. Whether a write gives up the event
loop matters, so `turn` is the handler that has it: as long as its writes do not
suspend, nothing else runs. `ReplaySuspends`/`ReplayResumes` and
`Send`/`WriteResumes` are the two halves of a write that does.

`received`, `gone` and `sent` are what happened to each message; a message given
to a dead socket is gone, which the code cannot know. Messages are small, so
the transport's buffer never fills up and flow control never pauses a writer.
`handle` is `cleanup_handle`, which is made when the server first notices a loss and
never unset. A client that comes back before that fails with an `AttributeError`
(`ConnectTooEarly`; `AuthSessions` has what happens to the session). From then on a
client that comes back takes the session over whatever its older connections are
doing, so two replays can loop over one list. `overlapped` is a history variable: a
client has come back while a replay was suspended in a write. `LossNeedsOverlap` says
that only then a message can be lost or doubled, `Conserved` what holds even then.

### VaultDb

The executor's queue and the event loop are both first in, first out and a call
has one job at a time, so `queue` holds one entry per call. `work` is the vault
as the connection sees it, `saved` what is committed, `open` the transaction.
The five methods differ in the statement (`Succeeds`, `Execution`) and in
whether a row is fetched. `insert ... returning` is in progress until its row is
fetched, and SQLite refuses to commit meanwhile: `Connection.__exit__` then
rolls back and raises (observed with Python 3.11 and later on the shipped code).
`writes` and `company` are history variables: whose statements are in a vault,
and which calls overlapped. A crash loses the transaction and the queue.

Calls that only read are left out: they change nothing, and they are run by the
same thread between the steps of others. The contents of a node are one write.

### VaultNotify

The four methods that announce a change end with the same loop over
`auth_connections.values()`, so one loop stands for the four; a `change` is an
update or a change of the references of a node, a `delete` makes the client
forget the node. `slots` is the dictionary as CPython has it, keys in the order of
insertion with holes where they were deleted, because the loop iterates over it
while it changes: the iterator raises if the size is not the one it started
with (`Changed`, `CutShort`), and a replaced value keeps its slot. A full
dictionary is rebuilt by an insertion without its holes, and a suspended iterator
then continues at the wrong place; `lost` marks the calls this happened to
(observed with Python 3.11), and the properties except them.

The await of a message yields only if the client's transport is closing. `turn`
is the call that runs without yielding, `Suspends`/`Resumes` are the halves of a
write that does. `Told` is what the server does for a client: the message is
written, or remembered for a reconnect, or given to a socket that is dead;
`Replay` has what becomes of it.

A client cares `before` its read (`vault_node_fetch`, `vault_node_save`, ...) or
`after` it (`vault_fetch_node_refs`); `view` is what was read for it last, compared
with the node. Calls on different nodes share only the dictionary and the event
loop, so one node is enough. The jobs of a call are one action, `Write`; what
overlapping calls do to each other's writes is in `VaultDb`. Sessions come and go
as in `AuthSessions`, reduced to what the dictionary and the transport show of it.

### VaultTrees and AvatarLifecycle

`create_avatar`, `create_age_instance`, `delete_avatar` and `setup_database` are
straight series of awaited vault calls. `VaultTrees` gives each as a script, a
sequence of steps that name nodes by role (`<<"relto", "ageInfo">>`); the folders
and lists of a tree, which differ in nothing but their type, are the constants
`PlayerLists`, `AgeLists` and `InfoLists`. `AvatarLifecycle` runs the scripts: a
task has what is left of its script in `todo`, the nodes it has found in `found`,
and a node is named after the task that made it and its role, so node IDs never
coincide (`VaultDb` shows when they may). Any step of one task can come between
two of another.

One vault call is one step; what overlapping calls do to each other inside is
`VaultDb`. `find_unique_vault_node` takes any of several matches, the code the
first one SQLite returns; an [auto] age takes any public instance, the code the
oldest. `unlink` and `next` are the generator in `delete_avatar`: the cursor
steps over the rows while they change, so it may or may not come to a new one.
The jobs of clients are the constant `Load`, so a run can give several small
situations instead of one large one. `company`, `met`, `late` and `meddled` are
history variables.

A restart begins the set-up again with what is in the vault. Of what the server
keeps in memory, `instance` is the UUIDs that the last start chose; they are kept
in the variable until the next start chooses, for `AutoIsStable` to compare.

`SetupEnsures` says what the docstring of `setup_static_age_instance` does, with two
exceptions: clients may make an instance private after the start, and a static
instance whose first start died while it was made is found by later starts and
never completed. `SameNameMeansOverlap` and `SameInstanceMeansOverlap` are what the
checks before a creation give: no uniqueness, but duplicates only from requests
that overlapped.

### AgeState

A connection handles one message at a time; every call of the database is a step,
so that `handler` has a stage per await and the local variables that live across it.
`objs` is the table `AgeInstanceObjectStates`, `nodes` and `refs` are the SDL nodes below
the Age Info node, the first of which two clients may create at the same time. A
blob is the values of variables, a value is the connection that set it; how bytes
become values is in `SdlBlob`. Here a change's `blob` is parsed, refused with the
`ValueError` that is logged and ignored, or raises another exception, which ends the
connection; so may laying a parsed one over what is saved (`Fetched`). `end` says why a
connection ended; `blob` are those exceptions, `uncaught` all others.

The age begins absent. `SetUpAge` are the steps of `create_age_instance` until it can be
joined; then `CreateOwnNode` and `RefOwnNode` make and link the auth server's own, empty
SDL node (`own`), whatever the clients have made by then. A crash stops the set-up
(`building`) for good, with any part of it done.

`RequestComplete` compares what a request has sent with `owed`, what was saved when it
came. `ChangesNeedCompany` is the answer to the question what is lost when a change
is fetched, applied and saved in three steps: a value that was saved disappears only
when a handler saves whose work overlapped with the one that had saved it. The one
exception is that link of the auth server's node, when it is older than the one that
a change was saved in.
`OrderlyClientsSurvive` is about clients that join, load their avatar and then do
anything that is legal: nothing but the guesses at blobs ends their connections. The table's cursor reads rows in the order of its key, sees
changes of rows ahead of it, and a crash ends all connections and keeps what was saved.

### SdlBlob and SdlStore

`SdlBlob` is `GuessedSDLRecord` on sequences of bytes, with the names of its exceptions.
`LookAhead` scales down the 128 bytes in which the end of a variable is looked for. The
module was compared with the shipped parser on 1200 blobs, valid, damaged and random,
in value and exception.

`SdlStore` adds clients that know the descriptor. They write a `Change` the way the
game client does, and they can tell what a blob means: `BlobsOf(told)` are all the
blobs that say what the saved changes said. `SavedMeansTold` is therefore about the
guesses at what `Guessable` allows: data that looks like the start of a variable or of a record
(`GuessableChanges` has both) may be cut in the wrong place, and the comparison of the
re-parsed record must find that. `LostNeedsBadLuck` is the other half: the check is not
so strict that it refuses plain changes. Strings whose first byte is above 0x7f
do not survive being written (`read_safe_string` takes them for flipped), and a record
without any variable cannot be parsed; hints are no part of comparisons, and the
game client writes neither. All changes are of one descriptor (`AgeState` has two).

### SequenceNumbers

Sizes and offsets are constants, so that the theorems hold for 32 bits and TLC can use
8 pages and 16 prefixes. `Splits` and `Makes` are the conditions under which the code
raises no error. VeeTsah's prefix, the exception among the unsafe ones, can be made
and split but is never learnt from a spawn point (`FindsPrefix`), so an age with that
prefix has no AgeSDLHook.

### Layouts, NetMessages, PlMessages, Streams and GameWire

A stream is a sequence of tokens, each with the format that `struct` would use, and the
layout of a class is the sequence of its fields. Reading with a layout that does not
fit finds a token of another format: `Misread`, which is in no set of errors that
`TypeOK` allows. Values are only what readers tell apart: zero or not, legal or not, a
flag or none, a number at each boundary. A string is whether its first byte has the
high bit and which way round it is, a bit vector is its words, a time may
overflow, data can be compressed, broken or too short. The layouts and readers were
compared with the shipped classes on 7230 buffers from these instances: outcome,
exception, prefix and echoed bytes agree.

An item may consist of other items and a message of the engine of other messages. The
readers are therefore a recursive function of how deep calls may still go: `Readers(s)[n]` maps
every item and position to what is read there if `n` calls fit on the stack, and with no
call left it raises `RecursionError`, as Python does at its limit, `Nesting`. `Rank` is how
deep the calls for an item go if there is no message in it, at most `MaxRank`; what ends the nesting of messages
in messages is only that the stream does. In this form, and with the items as
constants (`NetItems`, `EngineItems`), the modules can be proved about.

`GameWire` is a connection: the stages of the setup with what can end them, then
messages. `Handle` has a disjunct per kind of handler. What a message does to the age is
in `AgeState`, and a join is taken for granted. `EchoFaithful` reads what was sent
with the client's eyes: whether it is encrypted when the client thinks so, and
whether every field is what the server has read, although times, flags, truth values
and bit vectors are normalised when they are written. `OnlyCulpritsEndIt` says that no
error in a wrapped message ends a connection but the ones it names. `HookInAge` connects
the wire with `SequenceNumbers`.

## Runs

| run | instance | checks |
|---|---|---|
| `auth_orderly` | 3 connections, 2 avatars, orderly | `TypeOK`, `RegistryConsistent` (the dictionaries agree with the sessions, one player per avatar), `TimersSound` (the assertions of the clean-up hold), `NoSessionLeaks`, `ImplementsOwnership` (refinement), `AvatarsGoOffline` (liveness) |
| `auth_disturbed` | the same, all disturbances | `TokenResolvesUsable`, `DiscardedForGood` |
| `auth_kick_reconnected` | 2 connections | violates `KickedGetDisconnected` |
| `vault_calls` | 3 calls of all kinds, 1 crash | `TypeOK`, `LossNeedsRefusal` (an answered write is lost only to a refused call it overlapped with), `NothingLingers` (no transaction outlives the calls), `RefsResolve`, `SavedForGood`, `CallsReturn` (liveness) |
| `vault_lost_creation` | 2 calls | violates `AnsweredIsSaved` |
| `replay_broken` | 3 messages, 3 connections, every error | `TypeOK`, `LossNeedsOverlap` (every message is in one place, unless replays overlapped), `Conserved` (their number stays right even then), `ReplayYields` (liveness) |
| `replay_reset` | 1 message, 2 connections | violates `ReplayEnds` |
| `vault_notify` | 2 sessions, 2 calls, 1 node | `TypeOK`, `AnsweredMeansTold` (whoever cared is told before the answer), `KnowsOrTold` (what a client read is current or it was told, if it cared before it read and no loop failed) |
| `avatars` | 6 loads of up to 3 requests and 2 starts | `TypeOK`, `SameNameMeansOverlap`, `SameInstanceMeansOverlap`, `ReportedIsWhole` (what a client was told exists has all its parts), `DeletionsFinish` (rival deletions do not all fail), `GhostsAreLate` (who plays a deleted avatar chose it late), `SetupEnsures`, `AutoIsStable` |
| `age_state` | 2 connections of one age from before it is set up, 3 messages each of 17 kinds, 1 crash | `TypeOK`, `RequestComplete`, `OrderlyClientsSurvive`, `ChangesNeedCompany` |
| `sdl_store` | 3 changes of 2 simple and 2 nested variables | `TypeOK` (what is saved can be parsed), `SavedMeansTold`, `LostNeedsBadLuck` |
| `wire` | every setup; every message with every single deviation | `TypeOK`, `EchoFaithful`, `OnlyCulpritsEndIt`, `HookInAge` |

The names of bounds: `MaxCrash` is the number of crashes, `MaxSent` the number of
messages; `MaxMessages` is per connection, `MaxChanges` per blob; `Depth` in `MCGameWire`
is how deep structures in structures deviate, `Nesting` how deep readers can call readers (30 in the run, so that the
messages in messages that are just short enough and one too deep are there; 1000 in Python); `Conn`, `Session` and `Call` are used once per element, so a run has as
many connections and calls as these sets have.

Bounds and why they are enough. Two avatars, of which one exists, cover a
switch between avatars and one that fails; three connections are a client that
reconnects and another client that takes its avatar, or two reconnects. Three
messages over three connections let writes be remembered before, during and
after a replay. Three vault calls have one that fails and two that commit around
it, with every kind of statement; every property speaks of one call and those
that overlap with it. One crash at any point suffices since a crash leaves
nothing but `saved`. Avatars and instances are made by two requests at a time and
deleted by one or two, which is what a race takes; a third request and the second
start come to what they left. Of two static ages one has a fixed and one an
[auto] UUID. The lists of a tree are reduced to the one that others refer to.
Two connections to an age with three messages each have a change of one client
between any two steps of another's change or request. Three changes of a blob are
the first one, one laid over it, and one laid over a result; two simple and two
nested variables are what it takes to have a last one and one before it. On the
wire one thing differs at a time, since the reader of a field does not know what
other fields hold, except where the code says so (flags, compression, the kind of
a variable's value, the wrapped message), where all combinations are there.
TLC explores all states of these instances; connections are
permuted as symmetric only in runs without liveness.

The system may stop (clients may do nothing more), so the runs do not check
deadlock; that the server's own work ends is stated by the liveness properties.

Fairness. The event loop runs every ready callback and every due timer, the
executor's thread runs every job: weak fairness of each of those steps, which are
enabled until they are taken. The handler of a closed socket notices the end of
the stream, hence weak fairness of `c \notin up /\ HandlerEnds(c)`. Nothing is
assumed of clients, the console, the network or the failing of sockets.

## Findings

Each is a run that expects a violation, and cites the claim it contradicts.

* `auth_kick_reconnected`: `kick_async` takes the existence of `cleanup_handle`
  for "is disconnected"; a client that has reconnected once still has one and is
  not disconnected when it is kicked.
* `vault_lost_creation`: a call that was answered with success loses its write to
  another valid creation that overlaps with it. A call that fails does the same to
  those it overlaps with (`LossNeedsRefusal` is what is left).
* `replay_reset`: a client that is reset while its messages are replayed makes
  the loop spin without ever yielding, and the server stands still. In the
  counterexample this is the final stuttering: with one message a round of the
  loop removes and appends that very message, so the state stays the same.

The last two were also observed by running the shipped classes.

Observations that have no run of their own:

* A set-player handler that waits for the vault while its connection is kicked
  enters the kicked connection into the dictionary afterwards
  (`auth_server.py:572`), an error of `wait_closed` skips setting the avatar offline
  (`auth_server.py:355`), and a late offline update undoes what the next player has
  saved (`auth_server.py:551`). `AuthSessions` has the steps; the run of orderly
  clients leaves the first two out, and `AvatarsGoOffline` allows the third.
* `OnlyCulpritsEndIt` names what ends a connection although `game_server.py:1245` says
  that parsing a message of the engine "can never truly fail": broken zlib data
  (`zlib.error` is no `ValueError`), an event of a kind that is not supported
  (`NotImplementedError`), the offer of a linking book (`from_stream` is called with
  the type for the stream, `pl_messages.py:1251`), a spawn point in the first unsafe
  prefix, from which no number can be made, and messages in messages that are nested deeper
  than Python's calls can be (`RecursionError`). Parsing only what is necessary does not
  help against the events: the message that loads an avatar may hold a trigger message, which
  may hold an event of any kind. The attempt to prove the property found that one, which the instance
  had not had. A delivery time that overflows ends it
  when the message is written.
* A change of an SDL state is logged and ignored if it cannot be parsed or applied,
  but only a `ValueError` is caught (`game_server.py:1007`, `1063`, `1090`). Truncated
  blobs raise `EOFError` and some wrong guesses `AssertionError`; both end the
  connection (`Disconnect` in `SdlStore`, `blob = "raises"` in `AgeState`).
* Two replays of one session can overlap (`auth_server.py:283`). With `[m1, m2]` in
  the list and both suspended in a write of m1, the failed write of the first appends
  m1 and pops m1; the second's then appends m1 and pops m2. The list is `[m1, m1]`:
  m2 is lost and m1 arrives twice. `LossNeedsOverlap` names the overlap as the one way
  to lose a message.
* `create_age_instance` links its SDL node (`state.py:1487`) after the age can be joined
  (`state.py:1465`). A change of the AgeSDLHook in between makes a node of its own and
  saves in it; if the auth server's node is older, its link hides the saved state, since
  `find_unique_vault_node` takes the first. `ChangesNeedCompany` has this as its one
  exception.
* From Python 3.11 on, `structs.py:74` replaces `IntFlag` by a class for which
  `flags & ~supported` finds no flag above the supported ones, so that the checks for
  unsupported flags of object IDs and SDL records never fire. `Replaced` chooses.
* A change in which nested variables have indices and come after other variables is
  guessed wrong, as two FIXMEs in `sdl.py` say; with those `SavedMeansTold` would not
  hold. The instance leaves them to `Guessable`.
* `ClientInfo.write` leaves out empty fields whose flag it sets, and the write
  method of `VariableEvent` uses a key that is not set; nothing calls them with
  such values.

## Proofs

The theorems hold for every value of the constants that satisfies the named
assumptions: `ConstantsAssumption` (AuthSessions: `None` is no connection and no
avatar, the disturbances are known ones), `RequestsAssumption` (VaultDb: requests
are well formed and the initial vault is, with finitely many nodes), `ReplayAssumption` (Replay: `None` is
neither a connection nor a message, and the errors are known ones), `NamesAssumption` (VaultNotify and
AgeState, each its own: `None` is no name; in AgeState also the objects are numbers from 1
and the hook is none of them), `TreesAssumption` and `LoadAssumption` (VaultTrees and AvatarLifecycle:
lists name a folder once and no folder twice, none of them is a node that the methods make apart from
the lists, an Age Info node has a list of owners, static ages have names of their own, the starts are
other than the requests, and a request to delete an avatar names one).

* `AuthSessions_proofs`. The type invariant is inductive. `TokensResolve` and
  `DiscardedNeverReturn` rest on `TokenInv`: a registered connection carries a
  usable session whose token is its key. This needs no orderly environment: every
  path that makes a session unusable removes its key in the same step.
  With no disturbance, `OrderlyInv` adds what the properties
  alone do not say: where the handler that waits for the vault is entered, which
  timers belong to which connection, and that a kicked client's handler does not
  act. From it follow `DictionariesAgree`, `CleanUpsAreDue` and
  `SessionsAreKeptOrServed`.
  With no disturbance, too, each action is a step of `AvatarOwnership` or leaves the
  owner and the ended sessions as they were; `OrderlyInv` gives the owner's place
  in the dictionary.
* `VaultDb_proofs`. `LossInv`: two calls under way have met, so the one whose exit
  rolls back is in the company of all whose statements are in the transaction.
  `LingerInv`: a transaction is open only while a call with an executed statement
  is under way. `RefsInv`: foreign keys hold in the transaction and in the file. For
  `TypeOK` the nodes must be finitely many, since a created node's identifier is one more
  than the largest (`MaxIsLast`).
* `VaultNotify_proofs`. `NotifyInv`: whom a loop has not told is ahead of it in
  the dictionary or the client it is writing to, unless its node was deleted.
  Without the clause on who still cares the invariant is not inductive (a client
  could be passed by), and that clause needs that a node is deleted once
  (`Deletions`) and a token used once (`Tokens`). `EveryoneIsTold` and
  `NotifyTypes` follow. `KnowInv` adds that whoever was sent a node cares about it unless
  it was deleted, and that a client whose view is old still cares while a loop has to come
  to it, failed or lost the message: `ReadersAreTold`.
* `GameWire_proofs`, of sequence numbers. Making and splitting are inverse for all sizes that satisfy
  `NumberingAssumption`, with one exception that the code has: the first pages of the
  first unsafe prefix can be split but not made. `HookKeepsAge` is the same for the
  AgeSDLHook. The lemmas are on quotients and remainders of a product and a rest.
  `HookIsInAge` carries it over to what a connection learns.
* `GameWire_proofs`, of readers. The streams are any that consist of well-typed tokens, of any
  length and with any number of messages in messages. `EngineResult` and `NetResult` say for
  every item, place and depth which errors its reader can raise, that it never goes back
  and what it never writes. They are induction on the depth; what makes the step work is that a part is
  of a smaller `Rank` than the whole or behind a class index that the whole has read, so that
  `RecursionError` needs many class indices in the stream (`TooDeep`). `SpawnPointNumber`
  follows a location from the stream into the fields of a message. On these rests `WireInv`:
  `TypeOK`, `OnlyCulpritsEndIt`, configurations and clients of the known kinds, and that a message is
  remembered only while it is answered or when it ended the connection. It gives
  `WireTypes` and `OnlyCulpritsEndConnections`. The assumptions are `StreamsAssumption` (the numbers are
  positive, the limit of calls is not below `MaxRank`), `ItemsAssumption` (what layouts consist of; TLC
  evaluates it for the layouts of the code), `FieldsAssumption` (names of fields of net messages) and
  `BuffersAssumption` (clients send tokens of the format that the reader asks for: what bytes
  of one format look like to a reader of another is not in the model).
* `GameWire_proofs`, of echoes. The client reads with the same readers what the server has written of what it
  read, so the question is whether what is written, normalised as it is, is read as the same values again.
  `NetBack` says for every item of a net message, place and depth: in any stream that has what
  its reader has written at some place, a reader with enough depth left gets the same value there, writes the
  same again and ends after it. It is an induction on the depth like `NetResult`; its cases (`ItemBack`) are the
  lemmas on flags, truth values, bit vectors, times, strings and structures, each of which shows
  that a normal form stays what it is (`HeldApart` cuts the stream where the reader does).
  From it follows `EchoBack`, for the header, with the time that the server puts in, and the fields.
  `TestAndSetBack` and `MembersBack` do the same for what the server makes itself: the object in the answer
  to a TestAndSet is what was read and written again (`ReplyRead`). `EchoInv`
  adds to `EchoFaithful` that before messages are read there are none, and from then on the cipher is there
  for those who expect it (`AgreeKept`): `EchoesAreFaithful`.
* `Replay_proofs`. The invariant is `TypeOK`, `Order`, `LossNeedsOverlap` and `Conserved`.
  `Order` says that, until replays have overlapped, there is one at most and a suspended
  one writes the message that is first in the list: without it, `pop(0)` could remove
  another message than the one that was written, and `LossNeedsOverlap` would not be
  inductive. `Accounted` counts each message in the list, at the client, in the dead
  sockets and in the suspended writes; the lemmas say what appending, popping and rotating
  do to the count. `Conserved` counts the messages of all places together and needs nothing
  of `Order`: a failed write appends before anything is popped. What it needs is
  `WritesSent`: a message that is sent next is in no write yet.
* `AgeState_proofs`. `Sound` is `TypeOK` with what it does not say: which work belongs to
  which stage, and from which stage on there is a node. `Overlaps` is `Met` (of two changes
  of the same target under way, each knows of the other) and `Current` (of a change that
  has met none, the node is the one that the next handler would find, or the auth
  server's hides it, and what it fetched is still what is saved): without it a save could
  go over another's. `OwnNew` says that the auth server's node holds nothing and no
  handler has it until it is linked, so that linking it loses something only where it hides
  a later node. From them follows `ChangesNeedCompany`. `Polite` (a loaded avatar has shown
  its prefix, an orderly client joins an age that exists) gives `OrderlyClientsSurvive`. `Asked`
  says of a request under way that what it owes is sent already or still ahead of
  the row it reads, and that it has counted what it sent: at the end nothing is
  ahead, which is `RequestComplete`. The rows are read in the order of their keys;
  that a set of keys has a first one is the lemma `MinIsFirst`, from the
  well-foundedness of the strict subsets of finite sets.
* `AvatarLifecycle_proofs`. What a step of a method does depends on the list of steps it
  has left, so the types alone are not inductive: `Scripted` says that a creation
  has its first check or steps that build a tree left, a deletion a rest of its script or
  steps that unlink the avatar, and everyone else steps that never make a Player node. The
  lemmas on scripts show it of the methods, whatever folders, lists and static ages there
  are. From `Scripted` follow `TypeCorrect`; `Names` (whoever has passed the check of a
  name and whoever made an avatar of that name have met), which is inductive with
  `Overlaps` (all calls under way have met, mutually) and `Created` (only a creation that
  has begun has a Player node), and gives `NamesakesOverlapped`; and `KickedByThen` (from the
  kick on, who plays the avatar selected it late), which needs `MetByThen` and gives
  `OnlyTheLateAreGhosts`. `InstancesMet` says that whoever made an instance and whoever
  goes on to make one with the same key have met: only a search that found nothing adds
  an instance to what a call makes, each call makes Age Info nodes of its own trees only
  (`Tidy`), and no call is under way while the server starts (`StartsAlone`). It gives
  `InstancesOverlapped`. `Choice` says that the public instances of an [auto] age that a
  start chose have one key, the chosen one, and that they are the start's own while it
  goes on to make one; from it follows `StartsAgree`.
* `AvatarTrees_proofs`. The types of `Scripted` do not tell a script that makes all that it
  links from one that does not, so the invariant looks into the lists. The lemmas on scripts
  (`AgeScriptSteps`, `AvatarScriptSteps`, `SetupScriptSteps`) state of each script, for any
  folders, which nodes it makes and links, that each node is searched or made
  before it is linked, and never searched again (`Ordered`, `Clear`). `TreeInv` has, for
  every call: what is left lies within its script (`Scoped`); each tree of an age is either
  found or built by it, never both (`Phases`), so that a role does not come to mean another node
  (`AtStays`); what it has found exists (`Finds`); and every link of a tree that it has begun
  is made or still left to do (`Wholes`, `Avatars`). With nothing left all links are
  made: `ReportsAreWhole`. The System node and the list of all players exist once
  (`OneVault`), and only a Player node is ever deleted (`Kinds`). `EnsureInv` adds that
  a start still has to look for an instance, has to publish it, or has it: `StartsEnsure`.
  `DeleteInv` is about one avatar and any number of deletions. A deletion goes through seven
  stages (`Stages`, `Move`). `Promising` says, per stage, that it will get to the
  end if it is left alone; `OnePromises` that one of them always does: whoever makes
  another's step fail has removed a child of the avatar itself, so it is in its own loop and
  promising. This needs that a deletion that found the avatar began after it was finished or
  overlapped with its creation (`MetSince`), that a cursor comes to every child that was there when it was opened (`Covered`), that nobody but its
  creator and its client links anything to a Player node (`PlayerLinks`) and that nothing
  refers to one (`Childless`). An avatar that is still there has a deletion that is
  still running: `DeletionsComplete`.
Liveness under fairness is beyond the prover, and so is what recursion computes
for every input.

## What is only model-checked

Liveness (`AvatarsGoOffline`, `CallsReturn`, `ReplayYields`) and the violations
stay with TLC, and of the safety properties those of `SdlStore` (`TypeOK`, `SavedMeansTold`,
`LostNeedsBadLuck`). `SdlBlob`, on which `SdlStore` rests, is recursive, as the format is, and works
byte by byte on what it has to guess; it is therefore out of the prover's reach: what it
computes for every input is an induction over data.

## Plan

In order of importance; every module is written to be proved about, with
constants, named assumptions, one action per operation and no recursive
operators.

Done: `AuthSessions`, `AvatarOwnership`, `VaultDb`, `VaultNotify`, `Replay`, `AgeState`,
`AvatarLifecycle`, `GameWire` and `SequenceNumbers` with proofs of all their safety
properties; `SdlStore` with a run. Left, in order of importance:

1. The online state after a crash and a restart, together with `AuthSessions`.
2. Log-in and the other requests of the auth server.
3. Relaying messages between the clients of an age, once the code does that.

## Not modelled

Not yet: the requests of the auth server that only read or that log in. Of the parts
that are modelled: the kick inside `delete_avatar` in AuthSessions, errors of the
database while an avatar is set offline, the online state after a crash, calls that
only read, the tables outside the vault except `AgeInstanceObjectStates`, the header of an
SDL blob except its version, the SDL classes for known descriptors (which nothing uses
yet), the write methods of messages that the server only reads.

For good: the gatekeeper and the status server answer from the configuration and
keep no state. Configuration and the client configuration generator read and
print. Keys and RC4 are arithmetic on 512 bits and a stream cipher, which TLC cannot
explore and whose correctness is no matter of states. SQLite, asyncio and CPython are
modelled from how the code uses them and from what they were observed to do.
