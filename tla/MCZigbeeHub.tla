------------------------------ MODULE MCZigbeeHub ------------------------------
(* ZigbeeHub on a plug that may turn out to be a thermometer too.            *)
EXTENDS ZigbeeHub

CONSTANT d1

MCClusters == { {"on_off"}, {"on_off", "temperature"} }
MCReport == { "state" :> On, "temperature" :> 22000 }
MCCached == { "temperature" :> 21456 }
MCSensor == UNION {EntitiesFor(d, c) : d \in {d1}, c \in MCClusters}
===============================================================================
