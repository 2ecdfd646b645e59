# Home Edge in TLA+

A specification of the Home Edge controller (`src/crates/controller`): TLA+
modules for the parts whose behaviour depends on order (who wrote a file last,
what a handler read before it waited, what survives a restart), TLC runs over
small instances, and TLAPS proofs for every value of the constants.

Paths below are relative to `src/crates/controller/src/` unless they start with
`docs/` or `tests/`.

## The system

One process serves a Home Assistant compatible API (HTTP, REST, WebSocket,
mobile webhook), keeps its state in JSON files under a data directory, and talks
to a Zigbee bridge. `main.rs` starts a `current_thread` tokio runtime: all
handlers and background tasks share one thread and interleave at their awaits
only. File access runs on the blocking pool, outside that thread, and goes on
when the future awaiting it is dropped (the client disconnects).

| Component | State | Operations | What is hard, and what must hold |
|---|---|---|---|
| Durable file writes, `storage.rs` `save_bytes_atomic` | the final path, its one temporary name, page cache and medium | create, write, sync, rename, sync the directory | Overlapping tasks share the temporary file; power may fail between any two calls. The final path is always a complete document and never older than the last acknowledged one. |
| Token store, `ha_auth.rs` `TokenStore` | tables of codes, refresh tokens, access tokens; `tokens.json` | issue, exchange, refresh, revoke, validate, save, load | Snapshots are written outside any lock. A code opens one session; sessions and revocations that were answered survive; revocation reaches every token; lifetimes hold across restarts and clock changes. |
| Onboarding and account, `core.rs`, `storage.rs`, `auth_store.rs`, `ha_auth.rs`, `http.rs` | `onboarding.json`, `auth_user.json`, the runtime mode | the setup steps, first-boot authorize form, login, password change, migration | Checks are made on reads without a lock; the owner is in two files. Setup is never undone, the mode never runs ahead of the file, the user step runs once, a hashed password is not replaced by plaintext, the account in force is the one last confirmed. |
| Login flows, `ha_auth.rs` `LoginFlowStore` | flow id to client | create, look up, finish | Submissions to one flow overlap at their awaits. A flow that was answered with a code is gone, and its codes are its client's. |
| Instance id, `storage.rs` | `instance_id` file | load or create | One id for good, under Storage's mutex. |
| Long-lived tokens, `long_lived_token_store.rs` | table, file | create, revoke, load | Written in place under a read guard that a dropped request gives up, and a parse error counts as an empty store. What was answered is in memory and file as long as no write was cut off. |
| Cached registries, `area_registry_store.rs`, `label_registry_store.rs`, `zone_store.rs` | file, cache, mutex | create, update, delete, list | A write that fails after the rename leaves file and cache apart; a deletion goes through several stores. What was answered stays true, ids are unique, items carry labels that exist, no entity is lost from the dashboard with its area. |
| Mobile devices and entities, `mobile_device_store.rs`, `mobile_entity_store.rs`, `ha_mobile.rs`, `ha_webhook.rs` | registrations, entities, webhook ids | register, re-register, sensor updates, rename, labels | Re-registration keeps webhook id, secret and edits; one record per app and device; ids that lists show lead to their records; a batch does what its answer says, item by item. |
| Persons, `person_store.rs` | persons, tracked states, zones | location update, remove | A person's place comes from a device it tracks; a device that registers moves somebody; apps know the zones persons are placed in. |
| State bus, `state_store.rs`, `app.rs` | states, broadcast channel of 256, logbook and history tasks | set, remove, subscribe | A slow receiver loses the oldest events and goes on; removal announces nothing. The events of an entity form a chain that ends in its state. |
| WebSocket sessions, `ha_ws.rs` | phase, subscriptions, outgoing queue | authenticate, subscribe, unsubscribe, commands | Each subscriber hears each change once and in order, or lagged past it; a mirror is current when nothing is on its way; only tasks whose id a later subscription took outlive their subscription. |
| Services, `service.rs` | states | call over several targets, by three transports | Partial application; what the catalogue promises; transports that parse differently; numbers that no parser reads. |
| Runtime mode and policy, `core.rs` | mode | policy, execute | What each mode admits. |
| Zigbee, `zigbee_integration.rs`, `zigbee_device_store.rs`, `zigbee_entity_store.rs` | devices, entities, join window, bridge events | join, leave, report, command, restore | Lazy loading without a lock; cache before disk; deletions and restores with the event loop between their awaits. Edits survive rejoins, states belong to entities and entities to devices, restored values give way to reports, disabled entities publish nothing; the page shows the window the bridge has. |
| History and logbook, `history_store.rs`, `logbook_store.rs` | ring buffers, windows | record, aggregate, query, restore | Database jobs in any order, failing, or lost at exit; a logbook with two writers; behaviour at capacity and at the edge of a bucket. Ring, rows and five-minute statistics agree. |
| Pages, templates, configuration, zeroconf, wire types, xtask | none that outlives a call | render, parse, announce | Presentation and pure I/O. |

How they interact: handlers call `AppCore` and the stores directly; stores call
`save_bytes_atomic`; every state change goes through the state bus, from which
WebSocket sessions, logbook and history receive; the WebSocket and HTTP handlers
delete labels across several registries; the mobile webhook and the Zigbee event
loop are the sources of states. `PROJECT.json` lists every component with its
status, and the hazards at their lines.

## Modules

### DurableFile, AtomicSave, AtomicSaveProofs

`DurableFile` is what a caller of `save_bytes_atomic` wants: a register whose
value is replaced as a whole, whose acknowledged value survives any failure,
and where a save that was not acknowledged may or may not have taken effect.

`AtomicSave` is the routine itself. Each save is a caller (`awaiting`) and a
blocking task (`step`), and one action stands for one system call. The file
system has inodes with a cached content (`page`) and a durable one (`disk`), the
two names `tmp` and `final`, and `entries`, the inodes that the final name may
lead to if the power fails before the directory is synced. Two constants choose
the surroundings: `SharedLock` (callers hold a mutex, as in `storage.rs` and
`auth_store.rs`, or none, as in `TokenStore::save_persisted`) and `Cancellable`
(the caller's future may be dropped, which releases the mutex but not the task).
Versions are numbers in the order of the saves; contents are a version, `Blank`
or `Torn`. `Overlay` says what writing from offset 0 makes of a longer file.
`met` is history: the saves that had the temporary file open, not yet renamed,
while another had. It is what harm takes: a rename moves whatever the temporary
name leads to, which may be the inode of another save.

The file system is external code: `Remains` and `PowerLoss` take from it only
that fsync makes content (of a file) and names (of a directory) durable, and
that a rename is atomic. Without fsync any of the old, the new and a torn
content may be found.

### TokenStore, TokenStoreProofs

The inner mutex is only ever held without an await, so on one thread it is never
contended: a request changes the tables and takes its snapshot in one step. The
save is a second step, the end of the blocking task, and `Slots` saves may be
under way. A save that overlaps another (`shared`) may leave the file with its
own document, with the other's, unchanged, or without a complete document: these
are the outcomes AtomicSave has for overlapping tasks. Save errors are logged
and the request is answered all the same, which is what `FinishSave` does.
`uptime` stands for `Instant::now()` and `wall` for `now_unix_secs()`; `Tick`
moves both, `SetClockBack` only the second, and a restart neither. Codes live in
memory by `uptime`, access tokens in the file by `wall`. Tokens are model values
that `new_token()` gives out once. The variables under "History" are read by
properties and by the guards that say which token is new or known to a client.

### Onboarding, OnboardingProofs

One request is a chain of actions, one per file access, with the decision made
when the handler resumes: `Read`, `Check`, `Update`, `Sync`, `SaveUser` for the
setup steps and the authorize form, `LoginCheck`, `LoadUser`, `LoadLegacy`,
`SaveLegacy`, `Verify`, `MigrateAuth`, `MigrateOnboarding` for a login,
`LoadUser` to `StoreNewPassword` for a password change. What the handler has read
is in `req[p].seen` and `req[p].user` and may be stale. `update_onboarding` and
`save_user` are single actions: they run under mutexes, and AtomicSave shows
what a serialised save is worth. `Fail` is a write that fails, with or without
its effect, since the directory sync comes after the rename.

`Trimmed` is what removing the blanks around a password does: the authorize form
trims what it stores and not what it then compares, so both forms are needed.
`believed` collects the credentials the answers so far allow to be in force, and
`overlapped` says that two requests have been handled at once. `TokenHeld`
stands for the bearer token that the analytics and integration steps ask for.

### LabelStores, LabelStoreProofs

The label registry and the stores whose items carry labels, with a mutex, a file
and a cache each. A request is at one store at a time (`at`) in one stage (`pc`):
`Enter` is the look at the cache that readers take without the mutex, `Acquire`,
`Load` and `StartSave` the operation under the mutex, `SaveEnds` or `SaveFails`
its end, `GoOn` the next store. `First` and `After` hold the orders in which the
two deletions visit the stores: the WebSocket command deletes the label and then
visits every item, the page visits the items first and not the Zigbee entities.
The Zigbee store is the other kind (`Eager`): `LoadEager` and `Install` read the
file and fill the cache without the mutex, and `StartSave` changes the cache
before the file while it holds the cache's write lock (`CacheLocked`).

What a store holds is a set of labels: those that exist, or those on one item;
`Names` are ids that are the slug of a name, `Suffixed` those made unique by a
UUID. An assignment takes any set of labels, since no handler looks whether they
exist (`ha_ws.rs`, `config/entity_registry/update`; `http.rs`,
`entity_edit_save`). A `renew` is every other writer of the same files: a sensor
or a Zigbee device's entities registered anew, which takes the labels off
(`mobile_entity_store.rs`, `register`; `zigbee_entity_store.rs`, `register_bulk`),
their removal, and a change of another field, which keeps them. `promised`
collects what the answers given so far, and the requests that were not answered
with success, allow to be said of each label; `dangling`, `raced`, `mixed`,
`paged` and `failed` name what weakens a promise:

- `dangling`: a client put the label on while it did not exist, from a list that
  is old or for no reason.
- `raced`: a first reader of `zigbee_entities.json` puts what it read over a
  cache that was changed meanwhile. Its comment calls the store "Thread-safe,
  lazily-loaded"; the change is lost from the cache, and from the file with the
  next save.
- `paged`: the page's deletion leaves the label on Zigbee entities, although its
  comment (`http.rs`, `labels_delete`) says "all entities and devices".
- `failed`: errors met while visiting items are ignored, since "stale refs just
  get ignored" (`ha_ws.rs`); a new label of the same name has the same id, and
  the stale references are its own then.
- `mixed`: an assignment that runs into the deletion of its label may come after
  it.

A save is one atomic step with three outcomes here (done, failed, failed after
the rename): LabelStores relies on what AtomicSave proves of callers that hold
the mutex and are not dropped. Dropped callers are AtomicSave's subject.

### StateStore, Services, WsSessions, SessionProofs

`StateStore` is `state_store.rs`: `states` maps an entity to its state or `None`,
`bus` is every event ever sent, in order, and `removed` notes the removals, which
send none. `Set` computes the new store, so that a service call over several
targets is a recursive function of it. An event's number is its time.

`Services` extends it with `service.rs`. `SERVICE` is the table of built-in
services, `Write` one target's turn, `Runs` the loop over the targets, which stops
at the first bad one, `Invoke` a call, `CallService` what the registry answers and
leaves behind. `WsCallService`, `ApiServiceCall` and `UiServiceCall` are the three
ways in, which parse differently: a form field that does not parse is dropped,
elsewhere the call is refused. `Parsed` is `ServiceData::from_json`: a position or
a percentage that is negative or fractional is a number and yet not read
(`as_u64`), and counts as missing, so that the call is refused where the field is
required; `IsRead` says which values are read. `color` stands for what lights are
given, none of it required, and is read as brightness and colour temperature are
(`as_i64`). `CallsDoAsAnswered`, `TransportsAgree` and `CatalogueHolds` quantify
over every call on every store that writers can reach.

`WsSessions` adds the listeners. A subscription is a task with a cursor (`pos`)
into `bus`, of which the channel keeps the last `RING`; `Receive` takes the next
event, or `Lag` skips what was overwritten; `Push` waits for room in the
session's queue of `QUEUE` messages; `Deliver` is the socket's loop. `Subscribe`
takes snapshot and receiver in one step, since nothing is awaited in between.
`subs` is the session's map of handles: a second subscription of one id replaces
the handle and its task runs on (`OnlyReplacedTasksOutlive` says that there is no
other way for a task to outlive its handle).

The logbook has two writers. `Record` is the listener of `app.rs`, which follows
the channel; `Report` and `RecordReport` are the Zigbee event loop, which reads
the old value, publishes the reported one, waits for the sensor history and then
reads the state again to write an entry if the value differs. Each Zigbee change
is therefore noted twice, and since requests write between the loop's two reads,
its entries do not form a chain. What holds (`LogbookFits`) is that each writer's
entries are in order and of different events, that all of them tell of values the
entity had at the times they were read (`EntryIsTrue`), and that the listener's
neighbouring entries of one entity fit (`NeighboursFit`). A report is modelled per
entity, one at a time; the loop also compares those entities of the device that a
report leaves alone, which is not modelled. `heard` keeps per task what its client
was told, for the properties.

### Lists, ListLemmas

`Lists` has what `Vec::retain` and `Iterator::filter` do: `Pick(list, positions)`
is the elements at the positions, in their order. It is a recursive function
where the community modules have `SelectSeq` and `FoldLeft`, because the provers
can unfold the one and not the others; for the same reason the loops of `Batch`,
`Record`, `Warmed` and `Runs` are recursive functions, and so is `Total`, the sum of
a list that a property compares with the database's. `ListLemmas` has what proofs
need to know of lists.

### HistoryStore, ZigbeeHub, ZigbeeProofs

`HistoryStore` has one ring buffer per entity in memory, the tables `rows` and
`stats`, and `jobs`, the closures handed to blocking threads: `RunJob` runs any of
them, or lets it fail. `missed` says that a row or a statistic was lost, in which
case memory and tables differ until the next start. `Readings` and `Statistics`
are what the pages ask for; a sparkline gets at most 1000 readings, so `RingIsWarm`
speaks of no more. A share of the statistics is compared with the rows themselves:
`StatsAgree` counts and sums those of its bucket.

`ZigbeeHub` extends it with the event loop, the two stores and the requests of the
pages. `loop`, `restoring` and `deleting` hold where each of the three tasks is
between its awaits and what it has read so far: an interview saves the device,
registers the entities and publishes the states in separate steps
(`InterviewComplete`, `Register`, `Touch`), a deletion lists, removes entities and
removes the device (`DeleteLists`, `DeleteEntities`, `DeleteDevice`), the restore
lists, queries and writes (`RestoreLists`, `RestoreQueries`, `RestoreWrites`).
`BeginLoad` and `Filled` are the first reader's load outside the mutex. Every
store operation has an `ok`: a failing save has already changed the cache.
`past.torn` names the devices to which something happened that the code does not
order (a failed save, an overtaken first load, a deletion next to an interview);
`EntityHasDevice`, `StateHasEntity` and `EditsSurvive` are stated for all others.

### Places, MobileApp, Overview, HubProofs

`Places` has zones and areas, with the two ways to change each (WebSocket command
and page form, which guard differently), the ids they are given (`FreshId`: the
slug, or the slug with the first free suffix), and what apps and persons make of
zones (`GetZones`, `ZoneAt`).

`MobileApp` has devices, their sensors, persons and locations. A request is one
step here, since each store works under its mutex and writes the file before the
cache. A webhook id is a position in `devices`. `EntityId` takes two unique ids
of one slug to the same entity id, as `derive_entity_id` does. `Batch` folds
`Item` over a payload and collects the answer that `BatchDoesAsAnswered` compares
with what was done. A sensor is known by its type and unique id (`SENSOR`), and
answers are kept by unique id alone: of two items of one id and two types the later
one's answer is the one that is given, which is what the property says. The edit
form may give a sensor a unit and thereby make it numeric (`EditEntityByForm`), the
WebSocket command may not. `past.fresh`, `past.left` and `past.moved` remember
registrations, what happened to the persons they were for, and the users' changes
of persons. `NewDevicesAreTracked` speaks of devices whose person was neither
changed by a user nor replaced: `add_or_update` of a registration puts the new
person in the place of whoever has the webhook id as its own, and if that was a
person who followed another device, that device moves nobody from then on (the
registration adds `Followed(w)` to `past.left`).

`Overview` is a set of functions over the registries' contents: views, cards by
area, area pages and details. What the stores hold, the areas apart, is one
variable (`home`), and every step may replace it by anything the stores can hold
while `Places` makes, renames, seeds and deletes areas: the pages read the stores
and change nothing, and no property of theirs relates two pages. `sort_by` is
`Sorted` of `Lists`: the elements in the order of how many come before them, by a
total order of names (`Alphabet`) and, where `sort_by` is stable, of positions.
Entities are listed, not keyed: two may have one id, since ids are made of slugs.

### LoginFlows, LongLivedTokens, JoinWindow

Three small state machines. A submission of `LoginFlows` is `FindFlow`,
`LoadAccount`, `VerifyAndIssue`, `Finish`, one action per await, and nobody looks
at the flow again after the first. In `LongLivedTokens` a request changes the
list under the write guard and then writes the file under a read guard; `Truncate`
and `Write` are the halves of its blocking job, which a dropped request leaves
behind without a guard. `JoinWindow` relates what the pages show of the join
window (`expires`) to what the bridge was told (`until`), with a bounded channel,
dropped senders and a bridge that stops in between. The bridge is external: all
that is taken from it is that it takes commands in order.

## Runs

| Run | Instance | What it shows |
|---|---|---|
| `save_locked` | 3 saves, mutex, callers never dropped | The file is complete at every moment and after every failure (`FinalIntact`), acknowledged documents survive (`AckedSurvives`), every save returns (`SavesReturn`), and the system calls implement `DurableFile` (`RegisterSpec`). |
| `save_overlap` | 3 saves, no mutex, callers dropped | A save that never had the temporary file open together with another renames its own document, also between and beside two that did; until two have met the final path is complete (`SoleWriterPublishesItself`); saves still return. |
| `save_cancelled` | 2 saves, mutex, callers dropped | Counterexample to `FinalIntact`: the dropped caller releases the mutex while its task writes, the next save truncates the same temporary file and the first renames it. `docs/storage-durability.md` says writes are serialised. |
| `tokens` | 2 of each token, 2 clients, 2 saves in flight, failing saves, restarts, clocks | One session per code, tokens stay with their client in every table, revocation takes effect at once, accepted tokens are young while the clock is right, and answers are durable as long as saves neither overlap nor fail. |
| `tokens_overlap` | same, saves never fail | Counterexample to `AnsweredSessionsAreDurable`: two saves end in the other order and the older snapshot stays in the file; after a restart an answered session is unknown. |
| `onboarding` | 3 requests of all 9 kinds, 2 at a time, fresh and legacy directory, failing writes, restarts | `OperationalImpliesOnboarded`, `OnboardedHasOwner` and `OnboardedForGood` under every interleaving; the user step, the account in force, the mode and the hashed password as long as requests do not overlap. |
| `onboarding_twice` | 2 user steps | Counterexample to `UserStepRunsOnce`: both read before either updates. `tests/onboarding_contract.rs` only tries them in sequence. |
| `migration` | 2 logins, legacy directory | Counterexample to `HashedForGood`: a login that loaded the plaintext copy before another migrated it saves it over the hash. |
| `labels` | 3 requests of all 6 kinds, 2 at a time, 2 labels, 4 stores, failing loads and saves, restarts | `AnswersHold`: what an answer said of a label is what file and cache say until another request speaks of the label or renews the item. `LocksAreInUse`: nobody waits for a mutex with another in hand. `LabelsExist`: outside the five cases above, no item carries a label that does not exist. |
| `events` | 2 entities, a socket with 2 subscriptions, channel and queue of 1, logbook of 2, 2 changes, 3 while nobody is connected; every service with 8 target lists and 15 sets of data | Subscribers get each change once, in order (`InOrder`), and lose none but by lagging (`MirrorIsCurrent`, `EventuallyTold`); replaced tasks are the only ones left over; each writer's logbook entries are in order and true; calls do as answered, by every transport, and the catalogue is right. |
| `zigbee` | a plug that may turn out to be a thermometer, 2 events of the bridge, 1 edit or deletion, 1 fault (failed save, failed job or restart), ring of 1 | Ring, rows and statistics agree once the jobs are done, over restarts; edits survive rejoins; no state without entity and no entity without device, outside the named races; restored values are the last known ones and give way; disabled entities are quiet. |
| `hub` | 2 apps, 2 devices, 2 unique ids of two types, 2 persons and zones, 3 areas; 6 entities on the dashboard; 2 submissions to 2 login flows; 2 requests and 3 tokens; 3 commands to the bridge | One record per device, which keeps what it was given; ids that are shown lead to their records; devices that registered since the start move somebody; ids of zones and areas are unique; batches do as answered; each enabled entity is on one card and on the page of its area, in order; codes, tokens and the join window are as answered. |

Most properties of these three runs are conjunctions of parts that are stated and
named one by one: `StatesAreAsTold`, `ListenersKeepOrder` and `CallsAreAsPromised`;
`HistoryAgrees` and `RecordsBelong`; `RegistryIsSound`, `DevicesMovePersons`,
`PlacesAreTold`, `DashboardIsComplete` and `FlowsAreOneClients`, and
`AnswersHoldInTurn` in `onboarding`. The type invariants of the modules with proofs
are theorems (`TypeCorrect`) and not checked again; the others are parts of
`ListenersKeepOrder`, `RecordsBelong` and `RegistryIsSound`.

Each property of a passing run has a mutant in `PROJECT.json`: a bug one could
plausibly make at that line, written beside the definition it changes, which
violates the property in the same run.

### Bounds

`MaxSaves = 3`: two tasks that overlap and a third that comes after, between, or
shares a file with one of them and not with the other; TLC also explores every
failure point of all three. Two tokens of a kind and two clients: one session to
attack another's, both under way. `Slots = 2`: an order of two saves that can be
swapped. `AccessTTL = 1`, `CodeTTL = 0`, `MaxTime = 2`: a token can be within, at
and beyond its lifetime, and the clock can go back. Three requests of which two at
a time: two that race and one that observes or acts on what they left; one user
name, since names are only compared together with passwords, and two passwords
with the same trimmed form. For labels, one name and one suffixed id (a second
create finds the name taken), assignments, lists and renewals about one guarded
store and the Zigbee store, while deletions visit all four; three requests give
two that race and one before, between or after them. A channel and a queue of one
are full after one event, so that two changes make a receiver lag and a task wait;
a logbook of two holds both entries of a Zigbee change and is full with them, and
before anybody connects there are three changes to make it overflow; two tasks are
a subscription and the one that replaces it, both of entities (`ASKED`), as the other
kind takes the same events and mirrors nothing. One Zigbee device suffices, since no
operation relates two of them; two events of the bridge are a join and its
interview, or an interview and a report, which an edit, a deletion, a restore or a
restart may fall between; a ring of one overflows at the second reading. In `hub`
the parts share no state, so `part` picks one per behaviour and the states add up;
two apps on one phone, two unique ids of one slug, of which one has sensors of
both types (`OneOfBothTypes`), two zones of one name and three areas of which one
is seeded are the cases their properties tell apart. The dashboard's stores stay
as they were found in a behaviour, one for each of the furnished homes, which
reaches the same states as changing them on the way would; among six entities are
two of one id, two of one domain on a card, and those of a Zigbee device in an
area, in none and unknown, with names that are an area's, a device's and
"Unassigned". In its part "owners" users edit persons while devices register
again. `NobodyHasNone` keeps registered persons without trackers out of that run,
and `MadeUpHasOne` has a person that users made up follow the first device or none
where locations are reported: a registered person shows what two do. Symmetry is
over model values that no definition tells apart; liveness is checked in runs
without symmetry.

### Fairness

`AtomicSave`: weak fairness for the blocking task's next system call
(the pool runs every task it was given and each call returns) and for the return
to the caller (the runtime polls a future whose task has ended). Nothing forces
a save to begin, to fail or to be dropped. In `SavesReturn` a power loss or an
exit also ends the wait, since callers are gone with the process.

`WsSessions`: weak fairness for the steps of a subscription's task, for the
socket's loop and for the logbook's task. The runtime polls every task that was
woken, and a client that stays takes its messages; one that does not is closed by
its socket and leaves `EventuallyTold`'s promise. Nothing forces a client to
subscribe or a writer to write.

## Proofs

Proved by TLAPS for every value of the constants that satisfies the named
assumptions of the modules:

- `SaveConstants`, `TokenConstants`, `OnboardingConstants`, `LabelConstants`:
  types, and model values that are no data.
- `MobileAssumption`, `PlacesAssumption`, `LoginFlowsAssumption`,
  `TokensAssumption`, `JoinWindowAssumption`: types of payloads, seeds, durations
  and bounds; that "no client", "no edit" and an unreadable file are told from a
  client, an edit and a list. `MobileAssumption` also has that no app gives its
  device an id that is a webhook id, which are random.
- `OverviewAssumption`: names have a total order, the stores hold lists of entities
  with names, and "nothing" is told from the id of an area and from a value.
- `StateStoreAssumption`, `ServicesAssumption`, `WsSessionsAssumption` and
  WsSessions' `NoneAssumption`: an id that is no entity's, a value that is too
  long, what cannot be parsed and "nothing" are told from entities, states,
  messages and the values services write; a call has its five fields, and its
  targets are nothing, unreadable or a list of ids; channel and queues hold at
  least one message.
- `HistoryStoreAssumption`, `ZigbeeHubAssumption`, `EntitiesAssumption` and
  ZigbeeHub's `NoneAssumption`: a bucket has a length, there are finitely many
  sensors, an entity is no device, and "nothing" is no record and no time.

TLC evaluates each of them in the runs. Nothing bounds the number of requests,
devices, entities, items, events, sockets, subscriptions, saves or restarts; the
bounds MaxEvents and MaxTasks are any numbers.

**AtomicSaveProofs.** `TypeCorrect`. `SoleWriterSafe` needs that tasks at work on
one inode have met (`Meetings`), that the temporary name of one that met nobody
leads to its inode, whose content is its own as far as it has come (`Untouched`),
that a new save opens an inode of its own (`OwnInodes`, `BirthOrder`), and that
what the final path leads to is whole until two have met (`WholeSoFar`). The three
theorems "when locked" assume `SharedLock` and `~Cancellable`; their invariant
says that at most one task runs, that it is the newest save, that `tmp` is absent
or an inode which `final` and `entries` do not lead to, and that everything
`entries` leads to is synced. `FinalIntactWhenLocked`, `AckedSurvivesWhenLocked`
follow, and `LockedImplementsRegister` maps every step to a step of `DurableFile`
or a stutter.

**TokenStoreProofs.** `TypeCorrect`; `CodesOpenOneSession`;
`SessionsKeepTheirClient`, whose invariant speaks of all tables there are, the
live one, those on their way and the file, because any of them may be the next
live one; `RevocationsTakeEffect`; `AcceptedTokensStayYoung`, from the fact that
an entry never records a later time than the one at which it was minted, as
shown by a clock that was never set back; `SessionsSurvive` and
`RevocationsSurvive`, where the invariant relates the live table, the one save
under way and the file as long as nothing was `disturbed`.

**OnboardingProofs.** `TypeCorrect`; `OnboardedStays` (every closure given to
`update_onboarding` keeps `onboarded`); `ModeNeverAhead`, whose strengthening is
that what a handler has read says "onboarded" only if the file still does;
`OnboardedHubHasOwner`, from: a file whose user step is done has a user, an
onboarded file has its user step done, and handlers hold what Stages says.
`MigratedForGood` and `AnswersAreTrueInTurn` are for requests that do not
overlap. Their invariant (`TurnInv`) adds that one request is at work, that what
it has read is what the files still hold, and, for each stage of each kind, what
the files may be halfway: a plaintext copy only before its migration, two files
with different credentials only when a failed write left them so, and then both
are among the `believed`.

**LabelStoreProofs.** `Structure` places every request (which stages belong to
which store and kind) and ties mutexes to the requests inside; `TypeCorrect` and
`LocksInUse` follow. `AnswersKept` needs more: what a save under way writes is
allowed by the answers (`SavesKept`), because it was made of the cache while
nobody else could change it, and what a first Zigbee reader is about to cache is
what the file holds (`ReadsFresh`), so that only a late one can do harm.
`LabelsOnItemsExist` holds between requests only, so its invariant (`ExistInv`)
says what a deletion under way owes: a label on an item exists or is `dangling`,
or a deletion of it has that item's store still before it (`Pending`). Each step
shows that it is `Careful`: it takes a label off, keeps the debt, or puts one on
that exists or is noted as dangling. The cases the property leaves out are those
in which nobody owes the removal.

**ListLemmas.** The library's induction theorems take a predicate as an operator,
which the provers at hand cannot instantiate, but the well-foundedness of strict
inclusion of finite sets is a statement about a relation. `SetInduction` makes of
it an induction over the naturals that takes the "good" ones as a set: the
smallest of the intervals 0..n whose n is not good would have a smaller one. With
it, `StepsExist` gives functions that are defined by recursion, which allows
`Pick` to be unfolded, and `PickIsPicked` says what it returns: each element at
the positions, once, in order. The loops over the items of a batch and over the
rows of a restored table are unfolded in the same way; that what they have done so
far is sound is part of the set their results are taken from. `Weigh(list, f)` adds
up f of the elements: `WeighJoined` and `WeighOneMore` say what appending does to a
weight, `WeighCounts` and `WeighAmong` that it counts when f is 1 or 0.
`SortedHoldsAll` says that `Sorted` puts each element in one place, in order: those
before an element are strictly among those before a later one (`RanksDiffer`), so
that ranks are different, and as many as there are places. `Holds(list, whole, P)`
is that a list has what another has at the positions P, each once, in any order;
picking and sorting keep it (`PickHolds`, `HoldsThrough`), and it lets one count on
the first what is to be counted on the second (`HeldAreCounted`).

**HubProofs.** For any number of apps, devices, persons, places and payloads:

- `PlacesAreToldAlways`. `PlacesInv` is that the lists are of records with
  distinct ids. `FreshIdIsFresh` counts: of one more suffix than there are ids,
  one is free. The seeds are distinct only if the configuration's are.
- `DevicesKeepTheirs` and `RegistriesAreSound` from `RegistryInv`: one record per
  app and device id, and no entity without its device; `ListsLead` derives from
  them that the ids on the lists lead back to their records.
- `DevicesAlwaysMovePersons` from `PersonsInv`: a person that tracks a new device
  is left alone by every operation on others.
- `BatchesDoAsAnswered`: an item changes what it is about and nothing else
  (`OneMoreItem`), so what a run says of the first n items stays true of them, up
  to a later item for the same entity; the theorem is the end of that induction.
- `DashboardIsEverComplete`, of `OverviewSpec`. The cards have the names there are,
  each once and in order, and the card of a name holds (`Holds`) the enabled views
  that go to that name (`CardsHold`), since picking and sorting lose and repeat
  nothing. The places of a view on the cards are then paired with the positions it
  has among the views (`EachIsShown`), which gives the counts, also where two
  entities look the same. For the pages of areas, an entity in an area goes to the
  card of the area's name because areas have distinct ids (`PlacesInv`), and its
  details show its value whichever entity of that id they are of. Distinct ids need
  seeds of distinct slugs (`SeedsAreDistinct`, a hypothesis of the theorem): of two
  configured areas with one slug, one page would show the other's name.
- `PagesAreRight` from `NewestEndsTheWindow`: the last command on its way, if
  there is one, and else the bridge, keeps the window open for as long as the page
  shows, unless it was lost. `DroppedSender` is what remains of a queue when a
  sender gives up.
- `LoginFlowsAreOneClients` from `LoginInv`: a step past its lookup is of its
  flow's client, and two at work on one flow were noticed as overlapping.
- `LongLivedTokensAreKept` from `TokensInv`: until a write is left alone, one job
  belongs to the request that waits for it and writes the list as it still is, a
  token that is being revoked is out of the list, and ids are not used twice.

**ZigbeeProofs.** `RecordsAlwaysBelong`, `EditsAlwaysSurvive` and
`DisabledStayQuiet` come from `RecordsInv`. For a device to which nothing
unordered happened (`past.torn`) it says that cache and file agree on what the
user set, that entities with a record or a state are those of a known device, and
what each of the three tasks may rely on after its await: a registration still has
its device and no deletion beside it, the restore's entities still have records, a
deletion has listed all the entities there are. `RestoredStatesGiveWay` needs
`ReadingsInv`: rows are in order of time, a row that is not written yet is newer
than those that are, an entity with such a row was sampled since the start, and
what the restore has read is still the latest row's value of every entity not
sampled since. The lemma `LastIsNewest` and its neighbours take the ring of a
restored entity row by row.

`HistoryAlwaysAgrees` compares a buffer, a table and a table of sums that are
written at different times, in any order. What they have in common does not depend
on the order: how often a reading was made, how many are not older than t, how many
belong to a bucket and what they add up to, each a weight of readings (`Just`,
`From`, `In`, `Worth`). `Accounted` keeps the accounts: an entity's rows and pending
rows weigh what was read of it (`ReadOf`), its buffer weighs for every t the smaller
of that and its capacity (`BufferIsLast`), and count and sum of a bucket weigh what
is no longer pending for the statistics (`SharesAgree`), while minimum and maximum
are values that were read and span all that are accounted for. `AccountsInv` claims
it as long as no job failed or died, since a lost job is never made up for; that is
why it is an implication. A job that runs moves a weight from pending to written
(`JobsWeigh`, `InsertWeighs`, `OneMoreAgrees`), a push drops the oldest reading,
which counts for the smallest t alone (`PushKeepsLast`), and opening the database
again fills a buffer with the last rows (`WarmedKeepsLast`). Once the jobs have run,
two lists in order of time that weigh the same from every t on have the same times
(`SameTimes`), which gives `RingIsWarm`, and the bucket of each row has its share
(`SumsUp`), which gives `StatsAgree`. With several rows of one second the buffer may
hold them in another order than the table, or others of them: the property
compares times and membership, and no more is true.

**SessionProofs.** `StoreInv` is what a sound store is (`SoundStore`): an event's
old state is the one the event before it set, unless a removal came between
(`Says`), and `last_changed` is the last event at which the value turned. `Set`
keeps it, so every turn of a service call's loop does, and `RunsFrom` is the set
of what a loop may have come to: induction over the targets stays within it, and
what it comes to goes on where the channel ended (`Extends`).
`StatesAlwaysAsTold` follows.

`CallsAreEverAsPromised` is the same induction for what a loop has written so far
(`Wrote`): the first k targets are on the channel in order, each has the one value
the call means (`Meant`) unless the service leaves values alone, and nothing that
is stored is too long, so that a refusal is the caller's (`Offends`). `CallEnds`
has the three ways a call can go, from which its answer, the other transports
(`WaysAgree`: the registry sees nothing of a call but five things that InData and
the form leave alone) and the catalogues (`CatalogueLists`) follow. It holds on
every reachable store; the run evaluates the property where nobody listens.

Of the listeners:

- `OnlyReplacedTasksEverOutlive` needs that a session's map names only tasks of
  that session and id (`Named`), as clients of different sessions use the same ids.
- `ListenersEverKeepOrder` from `InLine`, of one task at a time: what it has
  queued and has in hand lies, in order, between what its client was told and its
  cursor. The shared queue grows at its end and loses its head; the messages of
  the other tasks stay where they are or move up by one. The logbook's half is
  `LogInv`: each writer's entries are in order, and every event since the
  listener's oldest entry that has none of its own was lost (`Kept`), so that its
  neighbouring entries of an entity are of neighbouring events; every entry was
  true of the events there were when it was made (`TrueOf`), and events are only
  added; and what the loop has in hand is the old value of an event there was
  (`InHand`), later than all its entries.
- `MirrorIsEverCurrent` from `Follows`: the client's mirror is what the events up
  to the last one told say, and every later event up to the cursor is on its way or
  lost. It is only true while the task runs and its socket is active, and it takes
  `InLine` to see that a delivered message is the next one the client lacks.

Only model-checked:

- `SavesReturn` and `EventuallyTold`: liveness, out of the prover's reach.
- The counterexamples.

## What the code does that one may not expect

Met while modelling; none is a property of a run, and the models do as the code.

States and services:
- `StateStore::remove` announces nothing: clients keep the entity until they
  subscribe again.
- The changed states in a service's answer carry a `last_changed` that the store
  did not keep when the value stayed the same.
- A negative or fractional position or percentage counts as missing: by WebSocket
  and REST the call is refused as if the field were not there.
- The pages offer services that are not built in and answer 404: `button.press`,
  `scene.activate`, `script.trigger`, `lock.lock`, `climate.set_fan_mode` and
  others (`templates/`). Cover services write `position`, the card reads
  `current_position`.
- A form field that does not parse is dropped and the call answered with 204.
- A session goes on after its token was revoked or the password changed. List
  requests ignore paging, and of the policy only `max_page_size` is ever read.

Zigbee and history:
- `register_bulk` is described as replacing all entities; it inserts and
  overwrites, and a rejoin loses unit, icon, `hidden_by` and labels.
- An unlocked first load can overwrite a registration, a restore a live report,
  and a deletion next to an interview leaves entities without a device.
- A change whose save fails stays in the Zigbee caches until a restart.
- A disabled entity is published again at the next interview, and its history is
  recorded all along; binary sensors are not restored.
- Each Zigbee change is in the logbook twice; the listener also records writes
  that changed nothing, and the event loop what others wrote between its reads. A
  ring of capacity 0 holds one reading.
- `permit_join_on_startup` (default off, and off in the model) opens the bridge
  while the page shows it closed; `ZigbeeHandle::stop` is never called.

Mobile, persons and places:
- Persons live in memory and are gone after a restart; registration replaces the
  person whose id is the device's webhook id, also one who follows another device;
  a removed person's place is shown on; removing an entity leaves its state.
- A sensor that is registered again loses the user's edits. A registration whose
  value is refused answers 400 after its record was saved. An update without a
  value shows "unknown". Answers of a batch are keyed by unique id, without type.
- Names cannot be cleared by `config/entity_registry/update`; entity lists say no
  `hidden_by` and no labels although both are stored; the device list has webhook
  ids where the entity list has the app's device ids, so that an app's second
  record of one device id cannot be told from the first.
- A person at home is "not_home", since the home zone is not among the stored
  ones. A zone the user calls "Home" gets the id `home`, which the commands refuse
  to change, and apps are told two of them. Passive zones are not skipped.
- The configured areas are seeded again when the user has deleted all of them.
  Deleting an area leaves its id on items, and a new area of that name revives it.
- Two areas of one name, or a Zigbee device named like an area, share a card.

Accounts:
- Long-lived tokens are stored and listed; `verify_bearer` has no caller.
- Writes of `long_lived_tokens.json` that were left by their requests may overlap
  later ones, and a file that does not parse loads as empty.
- A login flow's `Done` state is never read and flows do not expire.
- `complete` (`core.rs`, `complete_onboarding`) marks a hub as onboarded with no
  owner, where `docs/onboarding-contract.md` describes it as the last step.
  `OnboardedHasOwner` is therefore stated for hubs on which it was not called.
- The comment above `api_system_restart` (`http.rs`, "All stores are in-memory
  only") is older than the stores; the restart in the models reloads the files.

## Not modelled, and why

- Failing reads outside LabelStores: a handler that cannot read answers 500 and
  changes nothing.
- Location, language, country and the other profile fields; formats, templates,
  charts, colour and unit arithmetic of views, static assets, logging;
  configuration parsing; the zeroconf announcement; the `ha-types` records;
  `xtask`, scripts and containers. None of them decides anything the properties
  speak of.
- argon2, token generation and the encryption of webhook bodies: hashes, tokens
  and payloads are abstract.
- Stores inside one request: MobileApp and Places take an operation under its
  mutex as one step and leave lock, file and cache to LabelStores, whose stores
  are built the same way. LabelStores covers creating, deleting, listing and
  assigning labels, registering the items anew and removing them; a label's
  name, icon and colour are left out.
- Commands to Zigbee devices, which the code passes on, and changes of a device's
  role in the mesh; the bridge itself, a library.
- Queries as SQL; the logbook's filters and paging; notifications
  (`notification_store.rs`), a bounded list that is only appended to and read.
- The two readings of the clock that `record_and_aggregate` makes are taken as
  equal.

## Plan

Every safety property that a passing run checks is stated by a theorem, for every
value of the constants that the assumptions admit. What is left to TLC is liveness
(`SavesReturn`, `EventuallyTold`) and the counterexamples. The model would grow next
by commands to Zigbee devices and by the notification
store (see "Not modelled").
