------------------------------ MODULE JoinWindow -------------------------------
(***************************************************************************)
(* The time window in which Zigbee devices may join: what the pages show   *)
(* of it (zigbee_integration.rs, ZigbeeHandle) and what the bridge was     *)
(* told.  A handler stores the end of the window first and then sends the  *)
(* command, in a bounded channel that serves its senders in turn; it may   *)
(* be dropped while it waits for room, and the bridge may have stopped.    *)
(* The bridge itself is a library's.                                       *)
(***************************************************************************)
EXTENDS Integers, Sequences, SequencesExt

CONSTANTS
    DURATION,    \* durations asked for; 0 ends the window
    Room,        \* commands the channel holds
    MaxWaiting, MaxTime   \* bounds

ASSUME JoinWindowAssumption == DURATION \subseteq Nat /\ Room \in Nat

VARIABLES
    now,         \* seconds since the epoch
    expires,     \* permit_join_expires_at
    commands,    \* sent and not taken yet, with the senders that wait for room
    until,       \* the end of the bridge's window, 0 when it is closed
    running,     \* the bridge's task has not ended
    lost         \* the newest command was not sent in the end: history

joinVars == <<now, expires, commands, until, running, lost>>

JoinInit ==
    /\ now = 1 /\ expires = 0 /\ commands = << >>
    /\ until = 0 /\ running = TRUE /\ lost = FALSE

EndOf(duration) == IF duration = 0 THEN 0 ELSE now + duration

\* Mutant: the end of the window is not stored when it is closed.
PermitJoinKeepsEnd(duration) ==
    /\ Len(commands) < MaxWaiting
    /\ expires' = IF duration = 0 THEN expires ELSE EndOf(duration)
    /\ commands' = IF running THEN Append(commands, duration) ELSE commands
    /\ lost' = ~running
    /\ UNCHANGED <<now, until, running>>

\* permit_join, for a duration or for 0.
PermitJoin(duration) ==
    /\ Len(commands) < MaxWaiting
    /\ expires' = EndOf(duration)
    /\ commands' = IF running THEN Append(commands, duration) ELSE commands
    /\ lost' = ~running
    /\ UNCHANGED <<now, until, running>>

\* The requests of the pages.
ApiPermitJoin(duration) == PermitJoin(duration)
ApiPermitJoinStop == PermitJoin(0)

\* The client of a sender that still waits for room goes away.
SenderDropped(i) ==
    /\ i \in (Room + 1)..Len(commands)
    /\ commands' = RemoveAt(commands, i)
    /\ lost' = (lost \/ i = Len(commands))
    /\ UNCHANGED <<now, expires, until, running>>

BridgeTakes ==
    /\ running /\ commands # << >>
    /\ until' = EndOf(Head(commands))
    /\ commands' = Tail(commands)
    /\ UNCHANGED <<now, expires, running, lost>>

\* The bridge ends with an error: what was sent is lost, who waits is told.
BridgeStops ==
    /\ running
    /\ running' = FALSE /\ commands' = << >> /\ until' = 0
    /\ UNCHANGED <<now, expires, lost>>

Tick ==
    /\ now < MaxTime
    /\ now' = now + 1
    /\ UNCHANGED <<expires, commands, until, running, lost>>

JoinRestart ==
    /\ expires' = 0 /\ commands' = << >> /\ until' = 0
    /\ running' = TRUE /\ lost' = FALSE
    /\ UNCHANGED now

\* permit_join_remaining_secs: the seconds a page shows, in a u8.
Remaining ==
    IF expires = 0 \/ now >= expires THEN 0
    ELSE IF expires - now > 255 THEN 255 ELSE expires - now

\* The answer to a page that asks.
PermitJoinStatus == [active |-> Remaining > 0, remaining |-> Remaining]

JoinNext ==
    \/ \E d \in DURATION : ApiPermitJoin(d)
    \/ ApiPermitJoinStop
    \/ \E i \in DOMAIN commands : SenderDropped(i)
    \/ BridgeTakes \/ BridgeStops \/ Tick \/ JoinRestart

JoinSpec == JoinInit /\ [][JoinNext]_joinVars

(***************************************************************************)
(* Properties.                                                             *)
(***************************************************************************)
\* When no command is on its way and the newest was not lost, the pages do not
\* show an open window over a closed one, however many asked for it and closed
\* it at once; a window somebody closed is closed, and what a page shows never
\* ends after it does (zigbee_integration.rs, permit_join).
PagesShowTheWindow ==
    running /\ commands = << >> /\ ~lost =>
        /\ PermitJoinStatus.active => until >= now + PermitJoinStatus.remaining
        /\ expires = 0 <=> until = 0
===============================================================================
