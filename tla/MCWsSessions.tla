----------------------------- MODULE MCWsSessions -----------------------------
(* WsSessions on a light, a cover and one subscriber at a time.              *)
EXTENDS WsSessions, TLC

CONSTANTS light, cover

Request(service, target, data) ==
    [service |-> service, target |-> target, ids |-> None, data |-> data,
     response |-> FALSE]

MCMade == { Request("light.toggle", <<light, cover>>, << >>) }

\* Every service, without and with data, good and bad, on several targets.
MCTarget == { <<light>>, <<cover, light>>, <<light, cover>>, <<light, light>>,
              <<cover, BadId>>, <<light, BadId, cover>>, <<BadId>>, << >> }
MCData == { << >>, "position" :> 0, "position" :> 250, "position" :> 300, "percentage" :> 0,
            "option" :> "closed", "option" :> TooLong, "hvac_mode" :> "heat",
            "temperature" :> Fractional, "color" :> 7, "color" :> Fractional,
            "position" :> Malformed, "position" :> -5, "position" :> Fractional,
            "percentage" :> -5 }
MCCall ==
    MCMade \cup
    {Request(f, t, d) : f \in SERVICE \cup {"light.blink"}, t \in MCTarget, d \in MCData}
    \cup {[service |-> "cover.toggle", target |-> t, ids |-> i, data |-> << >>,
           response |-> r] :
             t \in {None, Malformed, <<light>>},
             i \in {None, Malformed, <<cover>>}, r \in BOOLEAN}
===============================================================================
