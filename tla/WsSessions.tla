------------------------------ MODULE WsSessions ------------------------------
(***************************************************************************)
(* The listeners of the state store: the WebSocket sessions of ha_ws.rs    *)
(* with one task per subscription, and the logbook's task of app.rs, next  *)
(* to the requests that change states (REST, pages, WebSocket) and to the  *)
(* Zigbee event loop, which changes states and writes the logbook itself.  *)
(*                                                                         *)
(* A session's handler and its tasks interleave at every await: a task     *)
(* receives an event from the ring of the broadcast channel and then waits *)
(* until the session's push queue has room; the handler takes one command  *)
(* or one queued message at a time and waits for the client to take it.    *)
(* A command handled here awaits nothing.                                  *)
(***************************************************************************)
EXTENDS Services, Lists

CONSTANTS
    ZIGBEE,        \* entities of Zigbee devices
    SOCKET,        \* connections, each opened at most once
    SUBID,         \* command ids under which a client subscribes
    CALL,          \* service calls that clients may make
    MADE,          \* bound: those of them that a behaviour makes
    VALUE,         \* values the REST interface writes
    REPORTED,      \* values that Zigbee devices report
    ASKED,         \* bound: the kinds of subscriptions made
    RING,          \* capacity of the broadcast channel (256)
    QUEUE,         \* capacity of a session's push queue (256)
    LOGBOOK,       \* capacity of the logbook (history.capacity)
    MaxEvents,     \* bound: state changes once somebody has connected
    MaxAlone,      \* bound: state changes while nobody has
    MaxTasks       \* bound: subscriptions made

ASSUME WsSessionsAssumption ==
    /\ ZIGBEE \subseteq ENTITY /\ MADE \subseteq CALL
    /\ \A call \in CALL :
          /\ DOMAIN call = {"service", "target", "ids", "data", "response"}
          /\ \A ids \in {call.target, call.ids} :
                ids \in {None, Malformed} \/ ids \in Seq(ENTITY \cup {BadId})
          /\ call.response \in BOOLEAN
    /\ ASKED \subseteq {"entities", "state_changed", "other"}
    /\ RING \in Nat \ {0} /\ QUEUE \in Nat \ {0} /\ LOGBOOK \in Nat
    /\ MaxEvents \in Nat /\ MaxAlone \in Nat /\ MaxTasks \in Nat

VARIABLES
    phase,         \* connection |-> "new", "auth", "active" or "closed"
    subs,          \* connection |-> (SUBID |-> the task in its map, or 0)
    queue,         \* connection |-> messages in push_rx
    tasks,         \* every subscription task ever spawned
    heard,         \* per task, what its client was told: history
    logbook        \* its ring buffer, the task's cursor and the loop's report

\* What a call gives under a field, and what states are made of: a value, which
\* a client writes or a service chooses, and attributes, which services set.
Given(f) == {call.data[f] : call \in {c \in CALL : f \in DOMAIN c.data}}
Texts == VALUE \cup REPORTED \cup {"on", "off", "open", "closed"} \cup Given("option") \cup Given("hvac_mode")
AttributeNames == {"percentage", "current_position", "temperature", "color"}
Numbers == {"percentage", "position", "temperature", "color"}
Settings == (UNION {Given(f) : f \in Numbers}) \cup {0, 100}
Attributes == UNION {[S -> Settings] : S \in SUBSET AttributeNames}
StateRecord == [value : Texts, attrs : Attributes, changed : Nat]

\* What a message may say of the entities.
Changes == UNION {[S -> StateRecord] : S \in SUBSET ENTITY}
MessageRecord == [task : Nat, at : Nat, changes : Changes]

\* What the event loop has in hand between its write, event n, and its entry.
ReportRecord == [entity : ENTITY, old : Texts, event : Nat]

ASSUME NoneAssumption ==
    None \notin StateRecord \cup MessageRecord \cup ReportRecord \cup Texts

sessionVars == <<phase, subs, queue, tasks, heard>>
vars == <<storeVars, sessionVars, logbook>>

Init ==
    /\ StateInit
    /\ phase = [s \in SOCKET |-> "new"]
    /\ subs = [s \in SOCKET |-> [i \in SUBID |-> 0]]
    /\ queue = [s \in SOCKET |-> << >>]
    /\ tasks = << >>
    /\ heard = << >>
    /\ logbook = [pos |-> 0, entries |-> << >>, lost |-> {}, report |-> None]

(***************************************************************************)
(* Requests that change states.                                            *)
(***************************************************************************)
Room == IF \A s \in SOCKET : phase[s] = "new" THEN MaxAlone ELSE MaxEvents

SetEntityState(e, v) ==
    /\ Accepts(e, v) /\ Len(bus) < Room
    /\ Becomes(Set(Store, e, v, NoAttributes, Now(Store)))
    /\ UNCHANGED <<sessionVars, logbook>>

\* The deletion of a Zigbee device (api_zigbee_device_delete).
DeleteEntity(e) ==
    /\ RemoveState(e)
    /\ UNCHANGED <<sessionVars, logbook>>

Call(call) ==
    LET done == CallService(call, Store)
    IN  /\ Len(done.store.bus) \in (Len(bus) + 1)..Room
        /\ Becomes(done.store)
        /\ UNCHANGED <<sessionVars, logbook>>

(***************************************************************************)
(* A connection's handler.                                                 *)
(***************************************************************************)
Connect(s) ==
    /\ phase[s] = "new" /\ Len(bus) < MaxEvents
    /\ phase' = [phase EXCEPT ![s] = "auth"]
    /\ UNCHANGED <<storeVars, subs, queue, tasks, heard, logbook>>

\* The first message brings a token the token store accepts; every other first
\* message is answered auth_invalid and changes nothing.
Authenticate(s) ==
    /\ phase[s] = "auth"
    /\ phase' = [phase EXCEPT ![s] = "active"]
    /\ UNCHANGED <<storeVars, subs, queue, tasks, heard, logbook>>

Message(t, at, changes) == [task |-> t, at |-> at, changes |-> changes]

\* The answer to get_states, which is not paged, and to GET /api/states; the
\* first message of subscribe_entities says the same, compressed.
GetStates == [e \in {d \in ENTITY : (states[d] # None)} |-> states[e]]
Dump == GetStates

\* subscribe_entities and subscribe_events: the snapshot and the receiver are
\* taken in one step.  insert drops an older task's handle without abort.
Subscribe(s, i, kind) ==
    LET t == Len(tasks) + 1
    IN  /\ phase[s] = "active" /\ t <= MaxTasks
        /\ tasks' = Append(tasks,
              [socket |-> s, id |-> i, kind |-> kind, running |-> TRUE,
               from |-> Len(bus), pos |-> Len(bus),
               hold |-> IF kind = "entities" THEN Message(t, Len(bus), Dump)
                        ELSE None])
        /\ subs' = [subs EXCEPT ![s][i] = t]
        /\ heard' = Append(heard, [told |-> -1, mirror |-> << >>, lost |-> {}])
        /\ UNCHANGED <<storeVars, phase, queue, logbook>>

Aborted(ts) == [t \in DOMAIN tasks |->
                   [tasks[t] EXCEPT !.running = @ /\ t \notin ts]]

\* Mutant: the task is taken out of the map and not aborted.
UnsubscribeForgets(s, i) ==
    /\ phase[s] = "active" /\ subs[s][i] # 0
    /\ subs' = [subs EXCEPT ![s][i] = 0]
    /\ UNCHANGED <<storeVars, phase, queue, tasks, heard, logbook>>

\* What is already queued stays queued.
Unsubscribe(s, i) ==
    /\ phase[s] = "active" /\ subs[s][i] # 0
    /\ tasks' = Aborted({subs[s][i]})
    /\ subs' = [subs EXCEPT ![s][i] = 0]
    /\ UNCHANGED <<storeVars, phase, queue, heard, logbook>>

\* The end of handle_socket, for whatever reason: the tasks in the map are
\* aborted, and push_rx is dropped with what it holds.
Close(s) ==
    /\ phase[s] \in {"auth", "active"}
    /\ phase' = [phase EXCEPT ![s] = "closed"]
    /\ tasks' = Aborted({subs[s][i] : i \in SUBID})
    /\ subs' = [subs EXCEPT ![s] = [i \in SUBID |-> 0]]
    /\ queue' = [queue EXCEPT ![s] = << >>]
    /\ UNCHANGED <<storeVars, heard, logbook>>

\* The handler sends the client the oldest queued message.
Deliver(s) ==
    LET m == Head(queue[s])
    IN  /\ phase[s] = "active" /\ queue[s] # << >>
        /\ queue' = [queue EXCEPT ![s] = Tail(@)]
        /\ heard' = [heard EXCEPT ![m.task].told = m.at,
                                  ![m.task].mirror = With(@, m.changes)]
        /\ UNCHANGED <<storeVars, phase, subs, tasks, logbook>>

(***************************************************************************)
(* A subscription's task.                                                  *)
(***************************************************************************)
\* The oldest event the channel still holds for a receiver is Oldest + 1.
Oldest == IF Len(bus) > RING THEN Len(bus) - RING ELSE 0
Waiting(t) == tasks[t].running /\ tasks[t].hold = None /\ tasks[t].pos < Len(bus)

\* Mutant: the cursor stays where it is.
ReceiveAgain(t) ==
    LET n == tasks[t].pos + 1
        news == Message(t, n, Only(bus[n].entity, bus[n].new))
    IN  /\ Waiting(t) /\ tasks[t].pos >= Oldest
        /\ tasks' = [tasks EXCEPT
              ![t].hold = IF tasks[t].kind = "other" THEN None ELSE news]
        /\ UNCHANGED <<storeVars, phase, subs, queue, heard, logbook>>

Receive(t) ==
    LET n == tasks[t].pos + 1
        news == Message(t, n, Only(bus[n].entity, bus[n].new))
    IN  /\ Waiting(t) /\ tasks[t].pos >= Oldest
        /\ tasks' = [tasks EXCEPT ![t].pos = n,
              ![t].hold = IF tasks[t].kind = "other" THEN None ELSE news]
        /\ UNCHANGED <<storeVars, phase, subs, queue, heard, logbook>>

\* Mutant: the receiver is resubscribed, at the newest event.
LagToEnd(t) ==
    /\ Waiting(t) /\ tasks[t].pos < Oldest
    /\ tasks' = [tasks EXCEPT ![t].pos = Len(bus)]
    /\ heard' = [heard EXCEPT ![t].lost = @ \cup (tasks[t].pos + 1)..Oldest]
    /\ UNCHANGED <<storeVars, phase, subs, queue, logbook>>

\* Mutant: the loop ends.
LagEnds(t) ==
    /\ Waiting(t) /\ tasks[t].pos < Oldest
    /\ tasks' = [tasks EXCEPT ![t].running = FALSE]
    /\ UNCHANGED <<storeVars, phase, subs, queue, heard, logbook>>

\* RecvError::Lagged moves the receiver to the oldest event; the loop goes on.
Lag(t) ==
    /\ Waiting(t) /\ tasks[t].pos < Oldest
    /\ tasks' = [tasks EXCEPT ![t].pos = Oldest]
    /\ heard' = [heard EXCEPT ![t].lost = @ \cup (tasks[t].pos + 1)..Oldest]
    /\ UNCHANGED <<storeVars, phase, subs, queue, logbook>>

Push(t) ==
    LET s == tasks[t].socket
    IN  /\ tasks[t].running /\ tasks[t].hold # None
        /\ phase[s] = "active" /\ Len(queue[s]) < QUEUE
        /\ queue' = [queue EXCEPT ![s] = Append(@, tasks[t].hold)]
        /\ tasks' = [tasks EXCEPT ![t].hold = None]
        /\ UNCHANGED <<storeVars, phase, subs, heard, logbook>>

\* A task nobody aborted finds its session gone at its next message.
PushFails(t) ==
    /\ tasks[t].running /\ tasks[t].hold # None
    /\ phase[tasks[t].socket] = "closed"
    /\ tasks' = [tasks EXCEPT ![t].running = FALSE, ![t].hold = None]
    /\ UNCHANGED <<storeVars, phase, subs, queue, heard, logbook>>

(***************************************************************************)
(* The logbook has two writers, the task and the event loop.  Of an entry, *)
(* `by`, `event` and `upto` are history: who made it, of which event, and  *)
(* how many events there were when its new value was read.                 *)
(***************************************************************************)
Entry(by, e, old, new, n, upto) ==
    [by |-> by, entity |-> e, old |-> old, new |-> new, event |-> n, upto |-> upto]
ListenerEntry(n) ==
    Entry("listener", bus[n].entity,
          IF bus[n].old = None THEN None ELSE bus[n].old.value,
          bus[n].new.value, n, n)

\* LogbookStore.record.
Recorded(entries, x) ==
    IF LOGBOOK = 0 THEN entries
    ELSE Append(IF Len(entries) >= LOGBOOK THEN Tail(entries) ELSE entries, x)

Record ==
    LET n == logbook.pos + 1
    IN  /\ logbook.pos < Len(bus) /\ logbook.pos >= Oldest
        /\ logbook' = [logbook EXCEPT
              !.pos = n, !.entries = Recorded(@, ListenerEntry(n))]
        /\ UNCHANGED <<storeVars, sessionVars>>

RecorderLags ==
    /\ logbook.pos < Oldest
    /\ logbook' = [logbook EXCEPT !.pos = Oldest,
                       !.lost = @ \cup (logbook.pos + 1)..Oldest]
    /\ UNCHANGED <<storeVars, sessionVars>>

\* The event loop reads the old value, writes the one reported and waits for
\* the sensor history; of an entity it had no value of it keeps nothing.  The
\* entities of one report are modelled as reports of their own, and those of the
\* device that it leaves alone, which the loop compares too, are left out.
Report(e, v) ==
    /\ logbook.report = None
    /\ Accepts(e, v) /\ Len(bus) < Room
    /\ Becomes(Set(Store, e, v, NoAttributes, Now(Store)))
    /\ logbook' = [logbook EXCEPT !.report =
          IF states[e] = None THEN None
          ELSE [entity |-> e, old |-> states[e].value, event |-> Now(Store)]]
    /\ UNCHANGED sessionVars

\* Mutant: the entry names the value reported.
RecordReportBlindly ==
    LET r == logbook.report
    IN  /\ r # None
        /\ logbook' = [logbook EXCEPT !.report = None, !.entries =
              IF bus[r.event].new.value = r.old THEN @
              ELSE Recorded(@, Entry("loop", r.entity, r.old, bus[r.event].new.value,
                                     r.event, Len(bus)))]
        /\ UNCHANGED <<storeVars, sessionVars>>

\* Then it reads the state again: what it finds may be another's value.
RecordReport ==
    LET r == logbook.report
        found == states[r.entity]
    IN  /\ r # None
        /\ logbook' = [logbook EXCEPT !.report = None, !.entries =
              IF found = None \/ found.value = r.old THEN @
              ELSE Recorded(@, Entry("loop", r.entity, r.old, found.value,
                                     r.event, Len(bus)))]
        /\ UNCHANGED <<storeVars, sessionVars>>

Next ==
    \/ \E e \in ENTITY, v \in VALUE : SetEntityState(e, v)
    \/ \E e \in ZIGBEE : DeleteEntity(e)
    \/ \E call \in MADE : Call(call)
    \/ \E s \in SOCKET :
          \/ Connect(s) \/ Authenticate(s) \/ Deliver(s) \/ Close(s)
          \/ \E i \in SUBID : Unsubscribe(s, i) \/ \E k \in ASKED : Subscribe(s, i, k)
    \/ \E t \in DOMAIN tasks : Receive(t) \/ Lag(t) \/ Push(t) \/ PushFails(t)
    \/ Record \/ RecorderLags
    \/ \E e \in ZIGBEE, v \in REPORTED : Report(e, v)
    \/ RecordReport

\* The runtime polls every woken task, and a client that stays connected
\* takes what its session sends; nobody has to make a request.
TaskRuns(t) == t \in DOMAIN tasks /\ (Receive(t) \/ Lag(t) \/ Push(t) \/ PushFails(t))
Fairness ==
    /\ \A t \in 1..MaxTasks : WF_vars(TaskRuns(t))
    /\ \A s \in SOCKET : WF_vars(Deliver(s))
    /\ WF_vars(Record \/ RecorderLags)

Spec == Init /\ [][Next]_vars /\ Fairness

(***************************************************************************)
(* Properties.                                                             *)
(***************************************************************************)
\* Capacities hold, every cursor and every task number points at something.
TypeOK ==
    /\ \A e \in ENTITY : states[e] = None \/ states[e].changed \in 1..Len(bus)
    /\ phase \in [SOCKET -> {"new", "auth", "active", "closed"}]
    /\ subs \in [SOCKET -> [SUBID -> 0..Len(tasks)]]
    /\ \A s \in SOCKET :
          /\ Len(queue[s]) <= QUEUE
          /\ \A n \in DOMAIN queue[s] : /\ queue[s][n].task \in DOMAIN tasks
                                        /\ tasks[queue[s][n].task].socket = s
    /\ Len(heard) = Len(tasks)
    /\ \A t \in DOMAIN tasks : tasks[t].pos \in tasks[t].from..Len(bus)
    /\ logbook.pos \in 0..Len(bus) /\ Len(logbook.entries) <= LOGBOOK

\* The messages of task t on their way, oldest first.
InFlight(t) ==
    LET s == tasks[t].socket
        queued == Pick(queue[s], {n \in DOMAIN queue[s] : queue[s][n].task = t})
    IN  IF tasks[t].hold = None THEN queued ELSE Append(queued, tasks[t].hold)

\* A client gets the events of a subscription in the order they happened,
\* each at most once, starting after the snapshot: the queue, the task and
\* the channel's cursor never overtake or repeat one another.
InOrder ==
    \A t \in DOMAIN tasks :
        LET line == <<heard[t].told>> \o [n \in DOMAIN InFlight(t) |-> InFlight(t)[n].at]
        IN  /\ \A j \in 2..Len(line) : line[j - 1] < line[j]
            /\ line[Len(line)] <= tasks[t].pos

\* Once nothing is on its way to it, what a subscribe_entities client believes
\* is what get_states would tell it, except for entities whose last change the channel
\* overwrote before the task read it: snapshot and receiver leave no gap.  Of a
\* removed entity it keeps the last state, as nobody tells it.
MirrorIsCurrent ==
    \A t \in DOMAIN tasks :
        ( /\ tasks[t].running /\ tasks[t].kind = "entities"
          /\ phase[tasks[t].socket] = "active"
          /\ tasks[t].pos = Len(bus) /\ InFlight(t) = << >>
          /\ heard[t].told >= 0 ) =>
        \A e \in ENTITY :
            \/ \E n \in 0..Len(bus) : <<e, n>> \in removed /\ EventsOf(e) \subseteq 1..n
            \/ e \notin DOMAIN GetStates \cup DOMAIN heard[t].mirror
            \/ /\ e \in DOMAIN GetStates \cap DOMAIN heard[t].mirror
               /\ heard[t].mirror[e] = GetStates[e]
            \/ Latest(EventsOf(e)) \in heard[t].lost

\* A task still running is the one its session's map names, or a later
\* subscription took its id: unsubscribing and disconnecting stop every other.
OnlyReplacedTasksOutlive ==
    \A t \in DOMAIN tasks : tasks[t].running =>
        \/ subs[tasks[t].socket][tasks[t].id] = t
        \/ \E u \in DOMAIN tasks : /\ u > t
                                   /\ tasks[u].socket = tasks[t].socket
                                   /\ tasks[u].id = tasks[t].id

\* Every entry tells of values the entity really had: the old one right before
\* the event, and the new one at `upto`, for the task that of the event itself.
EntryIsTrue(x) ==
    /\ bus[x.event].entity = x.entity
    /\ x.event <= x.upto /\ x.upto <= Len(bus)
    /\ x.old = IF bus[x.event].old = None THEN None ELSE bus[x.event].old.value
    /\ x.new = bus[Latest({n \in EventsOf(x.entity) : n <= x.upto})].new.value
    /\ x.by = "listener" => x.upto = x.event
    /\ x.by = "loop" => x.old \notin {None, x.new}

\* Two neighbouring entries of the task about one entity fit: the value the
\* later one says it had is the one the earlier one says it got, unless the task
\* lagged or the entity was removed in between.
NeighboursFit(j, k) ==
    LET x == logbook.entries[j]
        y == logbook.entries[k]
    IN  ( /\ x.by = "listener" /\ y.by = "listener" /\ x.entity = y.entity
          /\ \A i \in (j + 1)..(k - 1) :
                logbook.entries[i].by = "loop" \/ logbook.entries[i].entity # x.entity
          /\ (x.event..y.event) \cap logbook.lost = {}
          /\ \A i \in x.event..(y.event - 1) : <<x.entity, i>> \notin removed ) =>
        y.old = x.new

\* The logbook's two writers both note a change a Zigbee device reports, and the
\* loop's entries do not form a chain, as requests write between its reads; but
\* neither notes an event twice or out of turn, and no entry tells of a value
\* the entity did not have (app.rs, zigbee_integration.rs).
LogbookFits ==
    /\ \A j \in DOMAIN logbook.entries : EntryIsTrue(logbook.entries[j])
    /\ \A j, k \in DOMAIN logbook.entries :
          ( j < k /\ logbook.entries[j].by = logbook.entries[k].by ) =>
              /\ logbook.entries[j].upto < logbook.entries[k].event
              /\ NeighboursFit(j, k)

\* A call depends on the store alone, so its properties are evaluated once per
\* store: before anybody listens.
Unobserved ==
    /\ tasks = << >> /\ \A s \in SOCKET : phase[s] = "new"
    /\ logbook.pos = 0 /\ logbook.report = None /\ Len(bus) <= MaxEvents

\* Whatever call a client makes now: an ok means that every target was
\* written, once and in order, and that all show one value, a cover closed
\* exactly at position 0; any other answer means that nothing was written or
\* that the targets before the offending one were.
CallsDoAsAnswered == Unobserved => \A call \in CALL : DoesAsAnswered(call, Store)

\* A call means the same whichever way it comes: the WebSocket, REST and the
\* pages change the same states and agree on whether it worked, except that the
\* pages leave out a field they cannot read where the others refuse the call.
TransportsAgree ==
    Unobserved => \A call \in CALL :
        Malformed \notin {call.target, call.ids} => SameByEveryWay(call, Store)

\* The catalogues and the code agree: a well-formed call succeeds exactly when
\* it has the fields get_services calls required.
CatalogueHolds == Unobserved => \A call \in CALL : WorksAsDescribed(call, Store)

\* Task t's subscriber is there and has yet to hear of event n.
Untold(t, n) ==
    /\ t \in DOMAIN tasks /\ n \in DOMAIN bus
    /\ tasks[t].kind # "other" /\ n > tasks[t].from
    /\ heard[t].told < n /\ n \notin heard[t].lost
    /\ phase[tasks[t].socket] = "active"
    /\ tasks[t].running \/ subs[tasks[t].socket][tasks[t].id] = t

\* Subscribers that stay hear of every event, or their receivers lagged past it:
\* full queues and slow clients delay a task, and nothing stops it.
EventuallyTold ==
    \A n \in 1..MaxEvents :
        (\E t \in DOMAIN tasks : Untold(t, n)) ~> (\A t \in DOMAIN tasks : ~Untold(t, n))

\* Whatever queues and channels hold back: no listener overtakes, repeats or
\* misplaces an event, and no capacity is exceeded (ha_ws.rs, app.rs).
ListenersKeepOrder == TypeOK /\ InOrder /\ LogbookFits

\* What a client may expect of a service call, on every state of the store:
\* its answer, the catalogue and the transports agree with what is written.
CallsAreAsPromised == CallsDoAsAnswered /\ TransportsAgree /\ CatalogueHolds
===============================================================================
