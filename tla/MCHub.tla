--------------------------------- MODULE MCHub ---------------------------------
(***************************************************************************)
(* One instance of MobileApp, Overview, LoginFlows, LongLivedTokens and    *)
(* JoinWindow.  What they describe meets in the devices or not at all: a   *)
(* behaviour registers devices, if it needs them, and uses one part, so    *)
(* that the states of the parts add up instead of multiplying.             *)
(***************************************************************************)
EXTENDS MobileApp, Overview, LoginFlows, LongLivedTokens, JoinWindow

CONSTANT m1
VARIABLE part   \* the part this behaviour uses

MCSlug(uid) == 1
MCShows(p) == p # m1
MCSeed == <<"kitchen">>
Sent(t, u, v) == [type |-> t, uid |-> u, value |-> v]
MCBatch ==
    {<<Sent("sensor", 1, 2)>>,
     <<Sent("sensor", 2, Text), Sent("sensor", 1, Refused), Sent("binary_sensor", 2, Refused)>>,
     <<Sent("sensor", 1, 1), Sent("sensor", 2, 2), Sent("binary_sensor", 1, Text)>>,
     <<Sent("binary_sensor", 1, 1), Sent("sensor", 1, Refused), Sent(Unsupported, 2, 1)>>}

MCNames == <<"attic", "kitchen", "plug", "sensor", "Unassigned">>
MCNAME == {MCNames[i] : i \in DOMAIN MCNames}
MCAlphabet == 
    {<<MCNames[p[1]], MCNames[p[2]]>> : p \in {q \in (1..5) \X (1..5) : q[1] < q[2]}}

Entity(id, type, class, name, area, off) ==
    [id |-> id, type |-> type, class |-> class, name |-> name, area |-> area, off |-> off]
On1(device, e) == e @@ ("device" :> device)
Kitchen == <<"kitchen", 0>>
Kitchen2 == <<"kitchen", 1>>
Attic == <<"attic", 0>>
Furnished ==
    {[mobile |-> <<Entity(1, "sensor", "temperature", "sensor", a, FALSE),
                   Entity(2, "light", None, "plug", Kitchen, off),
                   Entity(IF off THEN 1 ELSE 3, "sensor", "temperature", "sensor", a, FALSE)>>,
      zigbee |-> <<On1(9, Entity(4, "switch", None, "plug", None, FALSE)),
                   On1(8, Entity(5, "sensor", "humidity", "sensor", b, off)),
                   On1(9, Entity(6, "lock", None, "attic", Kitchen2, FALSE))>>,
      devices |-> (9 :> [name |-> "plug", area |-> a]),
      states |-> s] :
        a \in {None, Attic, Kitchen2}, b \in {None, Kitchen}, off \in BOOLEAN,
        s \in {1 :> "unavailable" @@ 2 :> "on" @@ 3 :> "21", 1 :> "20" @@ 4 :> "on"}}

NoHome == [mobile |-> << >>, zigbee |-> << >>, devices |-> << >>, states |-> << >>]
MCHomes == Furnished \cup {NoHome}

MCInit ==
    /\ Init /\ LoginInit /\ TokensInit /\ JoinInit
    /\ part \in {"devices", "sensors", "persons", "owners", "zones", "areas",
                 "logins", "tokens", "joining"}
    /\ home \in IF part = "areas" THEN Furnished ELSE {NoHome}
    /\ password = CHOOSE p \in PASSWORD : TRUE

Plain == LET a == CHOOSE b \in APP : TRUE IN RegisterDevice(a, None, FALSE)

SensorOfDevice ==
    \E w \in WEBHOOK : RegisterSensor(w, [type |-> "sensor", uid |-> 1], FALSE, Refused)

\* Where persons are followed, there is a zone or none.
OneZone ==
    zones = << >> \/ \E z \in [id : {<<"work", 0>>}, name : {"work"}, at : {PLACE}] : zones = <<z>>

\* A bound: one of the unique ids has sensors of both types.
OneOfBothTypes == \A k \in KEY : k[2] = [type |-> "binary_sensor", uid |-> 2] => entities[k] = None

\* Where devices change hands, they can register again.
Again == \E a \in APP, d \in DEVID : RegisterDevice(a, d, FALSE)
Owners == \E p \in PERSON : \/ \E t \in SUBSET DOMAIN devices : SetPerson(p, t)
                            \/ RemovePerson(p)

\* A bound: only a person that users made up has no device.
NobodyHasNone == \A p \in WEBHOOK : persons[p] # {}

\* A bound: a person that users made up follows the first device or none; others
\* follow any.
MadeUpHasOne == persons[m1] = None \/ persons[m1] \subseteq {1}

MobileParts ==
    \/ /\ UNCHANGED places
       /\ \/ part = "devices" /\ (Devices \/ SensorOfDevice)
          \/ part = "sensors" /\ ((Plain /\ Len(devices') = 1) \/ Sensors) /\ OneOfBothTypes'
          \/ part = "persons" /\ (Plain \/ Persons) /\ (NobodyHasNone /\ MadeUpHasOne)'
          \/ part = "owners" /\ (Again \/ Owners) /\ NobodyHasNone'
    \/ /\ UNCHANGED mobileVars
       /\ \/ part = "persons" /\ ZonesNext /\ OneZone'
          \/ part = "zones" /\ ZonesNext
          \/ part = "areas" /\ AreasNext
    \/ part \in {"devices", "sensors", "persons", "owners", "zones", "areas"} /\ Restart

MCNext ==
    /\ part' = part /\ home' = home
    /\ \/ MobileParts /\ UNCHANGED <<loginVars, tokenVars, joinVars>>
       \/ part = "logins" /\ LoginNext /\ UNCHANGED <<vars, tokenVars, joinVars>>
       \/ part = "tokens" /\ TokensNext /\ UNCHANGED <<vars, loginVars, joinVars>>
       \/ part = "joining" /\ JoinNext /\ UNCHANGED <<vars, loginVars, tokenVars>>

MCSpec == MCInit /\ [][MCNext]_<<vars, loginVars, tokenVars, joinVars, home, part>>
===============================================================================
