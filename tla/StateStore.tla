------------------------------ MODULE StateStore ------------------------------
(***************************************************************************)
(* The entity states and the broadcast channel that announces every change *)
(* of them: state_store.rs.  The program runs on one thread and set awaits *)
(* nothing, so a write and its announcement are one step.                  *)
(*                                                                         *)
(* A state is a value, a function from attribute names to values, and the  *)
(* time its value last changed.  Time is counted in writes: the n-th write *)
(* happens at n.  The channel is kept whole, as the history of all events; *)
(* how many of them a receiver can still read is RING, in WsSessions.      *)
(***************************************************************************)
EXTENDS Naturals, Sequences

CONSTANTS
    ENTITY,        \* well-formed entity ids
    BadId,         \* an entity id that is_valid_entity_id refuses
    TooLong,       \* a state value of more than 255 bytes
    None

ASSUME StateStoreAssumption ==
    /\ BadId \notin ENTITY
    /\ None \notin ENTITY

VARIABLES
    states,        \* StateStore.states: entity |-> its state, or None
    bus,           \* every StateEvent ever sent on change_tx, in order
    removed        \* <<entity, events sent before>> of each removal: history

storeVars == <<states, bus, removed>>

\* The attributes an entity without a state starts from (unwrap_or_default).
NoAttributes == << >>

StateInit ==
    /\ states = [e \in ENTITY |-> None]
    /\ bus = << >>
    /\ removed = {}

\* StateStore.get: None also for an id nobody could have written.
Get(m, e) == IF e \in ENTITY THEN m[e] ELSE None
ValueOf(m, e, default) == IF Get(m, e) = None THEN default ELSE m[e].value
AttributesOf(m, e) == IF Get(m, e) = None THEN NoAttributes ELSE m[e].attrs

\* The conditions under which set answers Ok.
Accepts(e, value) == e \in ENTITY /\ value # TooLong

\* Maps: the one with key x alone, and one with the entries of another put in.
Only(x, v) == [y \in {x} |-> v]
With(old, new) == [x \in DOMAIN old \cup DOMAIN new |-> IF x \in DOMAIN new THEN new[x] ELSE old[x]]

(***************************************************************************)
(* StateStore.set on a pair [states, bus].  The caller says when the value *)
(* changed; if it is the one the entity already has, the old time is kept. *)
(***************************************************************************)
Now(store) == Len(store.bus) + 1

\* Mutant: the old state is read after the new one is in its place.
SetReadsLate(store, e, value, attrs, stamp) ==
    LET old == store.states[e]
        kept == old # None /\ old.value = value
        new == [value |-> value, attrs |-> attrs,
                changed |-> IF kept THEN old.changed ELSE stamp]
    IN  [states |-> [store.states EXCEPT ![e] = new],
         bus |-> Append(store.bus, [entity |-> e, new |-> new, old |-> new])]

Set(store, e, value, attrs, stamp) ==
    LET old == store.states[e]
        kept == old # None /\ old.value = value
        new == [value |-> value, attrs |-> attrs,
                changed |-> IF kept THEN old.changed ELSE stamp]
    IN  [states |-> [store.states EXCEPT ![e] = new],
         bus |-> Append(store.bus, [entity |-> e, new |-> new, old |-> old])]

Store == [states |-> states, bus |-> bus]
Becomes(store) == states' = store.states /\ bus' = store.bus /\ UNCHANGED removed

\* StateStore.remove, and nobody is told.
RemoveState(e) ==
    /\ states[e] # None
    /\ states' = [states EXCEPT ![e] = None]
    /\ removed' = removed \cup {<<e, Len(bus)>>}
    /\ UNCHANGED bus

(***************************************************************************)
(* What the events of the channel say of the states, and the states of it. *)
(***************************************************************************)
EventsOf(e) == {n \in DOMAIN bus : bus[n].entity = e}
Latest(S) == CHOOSE n \in S : \A k \in S : k <= n

\* What event n, or get when n is one more than there are, should say of the
\* state before it.
StateBefore(e, n) ==
    LET before == {k \in EventsOf(e) : k < n}
    IN  IF \/ before = {}
           \/ \E k \in Latest(before)..(n - 1) : <<e, k>> \in removed
        THEN None ELSE bus[Latest(before)].new

\* The events of an entity form a chain: each event's old state is the new
\* state of the one before it, none after a removal, and the last one's new
\* state is what get answers: no write is announced out of turn or not at
\* all (set's write under the lock and its send after it).
EventsChain ==
    \A e \in ENTITY :
        /\ states[e] = StateBefore(e, Now(Store))
        /\ \A n \in EventsOf(e) : bus[n].old = StateBefore(e, n)

\* Between writers that bring the present time, as requests do, last_changed is
\* the time of the last event at which the value became another one, however
\* many writes of the same value came after it.
ChangedIsWhenTheValueChanged ==
    \A e \in ENTITY :
        states[e] # None =>
            states[e].changed =
                Latest({n \in EventsOf(e) :
                    \/ bus[n].old = None
                    \/ bus[n].old.value # bus[n].new.value})

\* What the channel tells is what happened to the states: the chain of events
\* ends in the state, and last_changed names the event of its last change of
\* value (state_store.rs, set and remove).
StatesAreAsTold == EventsChain /\ ChangedIsWhenTheValueChanged
===============================================================================
