------------------------------- MODULE Services -------------------------------
(***************************************************************************)
(* The built-in services of service.rs as functions of the states: what a  *)
(* call writes, in which order, and what it answers.  A call runs without  *)
(* an await, so it is one step for everybody else, but the writes it makes *)
(* before an error stay.                                                   *)
(*                                                                         *)
(* A call is the request as it arrives:                                    *)
(*   service       a member of SERVICE or an unknown name                  *)
(*   target, ids   the entity ids of the target and of the service data: a *)
(*                 sequence, None when absent, Malformed when not strings  *)
(*   data          field |-> value; a value may be Malformed               *)
(*   response      return_response                                         *)
(***************************************************************************)
EXTENDS StateStore, Integers

CONSTANTS
    Malformed,     \* a JSON value of a type the parser refuses
    Fractional     \* a number that no 64-bit integer holds

ASSUME ServicesAssumption ==
    /\ Fractional \notin Int
    /\ TooLong \notin {"on", "off", "open", "closed"}
    /\ Malformed \notin {None, << >>}

Covers == {"cover.set_cover_position", "cover.open_cover", "cover.close_cover",
           "cover.stop_cover", "cover.toggle"}

\* BUILTIN_SERVICES, domain by domain.
InDomain ==
    [light |-> {"light.turn_on", "light.turn_off", "light.toggle"},
     switch |-> {"switch.turn_on", "switch.turn_off", "switch.toggle"},
     cover |-> Covers,
     fan |-> {"fan.turn_on", "fan.turn_off", "fan.toggle", "fan.set_percentage"},
     select |-> {"select.select_option"},
     climate |-> {"climate.set_hvac_mode", "climate.set_temperature"}]
SERVICE == UNION {InDomain[d] : d \in DOMAIN InDomain}

\* The fields the catalogue calls required, besides the target (description).
DescribedFields(service) ==
    CASE service = "fan.set_percentage"       -> {"percentage"}
      [] service = "select.select_option"     -> {"option"}
      [] service = "cover.set_cover_position" -> {"position"}
      [] service = "climate.set_hvac_mode"    -> {"hvac_mode"}
      [] service = "climate.set_temperature"  -> {"temperature"}
      [] OTHER                                -> {}

\* The catalogue: the answer to get_services, and that to GET /api/services.
GetServices ==
    [d \in DOMAIN InDomain |-> [s \in InDomain[d] |-> DescribedFields(s)]]
ApiServicesList ==
    {[domain |-> d, services |-> [s \in InDomain[d] |-> DescribedFields(s)]] :
        d \in DOMAIN InDomain}

\* The fields invoke refuses to do without.
NeededFields(service) ==
    CASE service = "select.select_option"     -> {"option"}
      [] service = "climate.set_hvac_mode"    -> {"hvac_mode"}
      [] service = "climate.set_temperature"  -> {"temperature"}
      [] service = "cover.set_cover_position" -> {"position"}
      [] service = "fan.set_percentage"       -> {"percentage"}
      [] OTHER                                -> {}

\* ServiceData::from_json: a number that as_u64 (percentages and positions) or
\* as_i64 (colors: brightness and color temperature) does not give counts as a
\* field left out, and percentages and positions are cut off at 100.
Percentages == {"position", "percentage"}
IsRead(f, x) == /\ (f \in Percentages) => (x \in Nat)
                /\ (f = "color") => (x \in Int)

\* Mutant: negative percentages and positions become 0.
ParsedSigned(data) ==
    [f \in {g \in DOMAIN data : (g \in Percentages) => (data[g] \in Int)} |->
        IF f \notin Percentages THEN data[f]
        ELSE CASE data[f] > 100 -> 100 [] data[f] < 0 -> 0 [] OTHER -> data[f]]

Parsed(data) ==
    [f \in {g \in DOMAIN data : IsRead(g, data[g])} |->
        IF f \in Percentages /\ data[f] > 100 THEN 100 ELSE data[f]]

\* ServiceTarget::from_parts: the target's ids win over the data's.
Targets(call) ==
    IF call.target # None THEN call.target
    ELSE IF call.ids # None THEN call.ids ELSE << >>

(***************************************************************************)
(* The value and the attributes one target e gets, in the states m its     *)
(* turn begins in.  A toggle looks at `was`, the value of the first target *)
(* before the call, and treats all targets alike.                          *)
(***************************************************************************)
NewValue(service, data, was, m, e) ==
    CASE service \in {"light.turn_on", "switch.turn_on", "fan.turn_on"} -> "on"
      [] service \in {"light.turn_off", "switch.turn_off", "fan.turn_off"} -> "off"
      [] service \in {"light.toggle", "switch.toggle", "fan.toggle"} ->
            IF was = "on" THEN "off" ELSE "on"
      [] service = "select.select_option" -> data["option"]
      [] service = "climate.set_hvac_mode" -> data["hvac_mode"]
      [] service = "climate.set_temperature" -> ValueOf(m, e, "off")
      [] service = "fan.set_percentage" -> ValueOf(m, e, "on")
      [] service = "cover.set_cover_position" ->
            IF data["position"] = 0 THEN "closed" ELSE "open"
      [] service = "cover.open_cover" -> "open"
      [] service = "cover.close_cover" -> "closed"
      [] service = "cover.toggle" -> IF was = "closed" THEN "open" ELSE "closed"

Chosen(data, fields) == [f \in fields \cap DOMAIN data |-> data[f]]
NewAttributes(service, data, value) ==
    CASE service \in {"fan.turn_on", "fan.set_percentage"} ->
            Chosen(data, {"percentage"})
      [] service = "climate.set_temperature" -> Chosen(data, {"temperature"})
      [] service = "cover.set_cover_position" ->
            Only("current_position", data["position"])
      [] service \in Covers \ {"cover.set_cover_position"} ->
            Only("current_position", IF value = "open" THEN 100 ELSE 0)
      [] OTHER -> Chosen(data, {"color"})

\* Mutant: the loop goes on after an error.
WriteGoesOn(service, data, was, run, e) ==
    LET m == run.store.states
        value == NewValue(service, data, was, m, e)
        attrs == With(AttributesOf(m, e), NewAttributes(service, data, value))
    IN  IF ~Accepts(e, value) THEN [run EXCEPT !.failed = TRUE]
        ELSE [run EXCEPT !.store = Set(@, e, value, attrs, Now(@))]

\* One turn of invoke's loop: `states.set(..)?` ends it at the first error.
Write(service, data, was, run, e) ==
    LET m == run.store.states
        value == NewValue(service, data, was, m, e)
        attrs == With(AttributesOf(m, e), NewAttributes(service, data, value))
    IN  IF run.failed THEN run
        ELSE IF ~Accepts(e, value) THEN [run EXCEPT !.failed = TRUE]
        ELSE [run EXCEPT !.store = Set(@, e, value, attrs, Now(@))]

\* The runs after each of the targets, the one before the first included.
Runs(service, data, targets, store) ==
    LET was == ValueOf(store.states, targets[1], None)
        after[n \in 0..Len(targets)] ==
            IF n = 0 THEN [store |-> store, failed |-> FALSE]
            ELSE Write(service, data, was, after[n - 1], targets[n])
    IN  after

\* invoke, for a call whose target is not empty.
Invoke(service, data, targets, store) ==
    LET start == [store |-> store, failed |-> FALSE]
    IN  IF service = "cover.stop_cover" THEN start
        ELSE IF ~(NeededFields(service) \subseteq DOMAIN data)
        THEN [start EXCEPT !.failed = TRUE]
        ELSE Runs(service, data, targets, store)[Len(targets)]

\* ServiceRegistry::call behind AppCore::execute: the store after the call
\* and the error class the transport sees.
CallService(call, store) ==
    LET refused(answer) == [store |-> store, answer |-> answer]
    IN  IF \/ Malformed \in {call.target, call.ids}
           \/ \E f \in DOMAIN call.data : call.data[f] = Malformed
        THEN refused("invalid_format")
        ELSE IF call.service \notin SERVICE THEN refused("not_found")
        ELSE IF call.response \/ Targets(call) = << >> THEN refused("invalid_format")
        ELSE LET run == Invoke(call.service, Parsed(call.data), Targets(call), store)
             IN  [store |-> run.store,
                  answer |-> IF run.failed THEN "invalid_format" ELSE "ok"]

(***************************************************************************)
(* The three ways a call arrives: a WebSocket command, a REST request,     *)
(* which has no target, and a form of the pages, which has one entity, is  *)
(* never asked for a response and leaves out what it cannot parse.         *)
(***************************************************************************)
WsCallService(call, store) ==
    LET done == CallService(call, store)
    IN  [store |-> done.store,
         answer |-> CASE done.answer = "ok" -> "result"
                      [] done.answer = "not_found" -> "service_not_found"
                      [] OTHER -> "invalid_format"]

ApiServiceCall(call, store) ==
    LET done == CallService([call EXCEPT !.target = None], store)
    IN  [store |-> done.store, answer |-> IF done.answer = "ok" THEN 200 ELSE 400]

\* The form's call: a field that is empty, no number or too large is left out.
FormData(data) ==
    LET sound == {f \in DOMAIN data :
                     /\ data[f] # Malformed
                     /\ (f \in Percentages) => (data[f] \in 0..255)
                     /\ (f = "color") => (data[f] \in Int)}
    IN  [f \in sound |-> data[f]]
UiServiceCall(call, store) ==
    LET done == CallService([call EXCEPT !.target = None, !.response = FALSE,
                                         !.data = FormData(call.data)], store)
    IN  [store |-> done.store,
         answer |-> CASE done.answer = "ok" -> 204
                      [] done.answer = "not_found" -> 404
                      [] OTHER -> 500]

(***************************************************************************)
(* What a caller may rely on, for any call in any states.                  *)
(***************************************************************************)
\* Services that leave each target the value it has.
KeepsValue == {"climate.set_temperature", "fan.set_percentage", "cover.stop_cover"}

\* The entities a call wrote, in order.
Written(before, after) ==
    [i \in 1..(Len(after.bus) - Len(before.bus)) |->
        after.bus[Len(before.bus) + i].entity]

DoesAsAnswered(call, before) ==
    LET done == CallService(call, before)
        written == Written(before, done.store)
        m == done.store.states
    IN  IF done.answer = "ok"
        THEN /\ call.service # "cover.stop_cover" => written = Targets(call)
             /\ call.service \notin KeepsValue =>
                  \A i, j \in DOMAIN written :
                      m[written[i]].value = m[written[j]].value
             /\ call.service \in Covers =>
                  \A i \in DOMAIN written :
                      (m[written[i]].value = "closed") <=>
                      (m[written[i]].attrs["current_position"] = 0)
        ELSE Len(written) > 0 =>
                /\ Len(written) < Len(Targets(call))
                /\ written = SubSeq(Targets(call), 1, Len(written))
                /\ \/ Targets(call)[Len(written) + 1] \notin ENTITY
                   \/ TooLong \in {call.data[f] : f \in DOMAIN call.data}

\* The fields a call gives a value that is read, and data of which a form leaves
\* out no other.
FieldsRead(data) == {f \in DOMAIN data : IsRead(f, data[f])}
IsReadByForms(data) == /\ \A f \in DOMAIN data : data[f] # Malformed
                       /\ FieldsRead(data) \subseteq DOMAIN FormData(data)

\* A call with its target in its data, where REST and the pages look for it.
InData(call) == [call EXCEPT !.target = None, !.ids = Targets(call)]

SameByEveryWay(call, store) ==
    LET ws == WsCallService(call, store)
        api == ApiServiceCall(InData(call), store)
        page == UiServiceCall(InData(call), store)
        isForm == Len(Targets(call)) = 1 /\ ~call.response
    IN  /\ ws.store = api.store /\ (ws.answer = "result" <=> api.answer = 200)
        /\ isForm /\ ws.answer # "result" => ws.store = store
        /\ isForm /\ IsReadByForms(call.data) =>
              page.store = ws.store /\ (page.answer = 204 <=> api.answer = 200)
        /\ isForm /\ page.answer = 204 =>
              DoesAsAnswered([InData(call) EXCEPT !.data = FormData(@)], store)

IsWellFormed(call) ==
    /\ Malformed \notin {call.target, call.ids}
    /\ Targets(call) # << >>
    /\ \A i \in DOMAIN Targets(call) : Targets(call)[i] \in ENTITY
    /\ \A f \in DOMAIN call.data : call.data[f] \notin {Malformed, TooLong}

\* Both catalogues describe the service, and it needs the fields they say, each
\* with a value it reads: a negative or fractional percentage is none.
WorksAsDescribed(call, before) ==
    (~call.response /\ IsWellFormed(call)) =>
        ( CallService(call, before).answer = "ok" <=>
            /\ \E d \in DOMAIN GetServices :
                  /\ call.service \in DOMAIN GetServices[d]
                  /\ GetServices[d][call.service] \subseteq FieldsRead(call.data)
            /\ \E entry \in ApiServicesList :
                  /\ call.service \in DOMAIN entry.services
                  /\ entry.services[call.service] \subseteq FieldsRead(call.data) )
===============================================================================
