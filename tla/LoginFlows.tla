------------------------------ MODULE LoginFlows -------------------------------
(***************************************************************************)
(* The login flows of ha_auth.rs: a client begins a flow, and submits      *)
(* credentials to it until one is answered with an authorization code.     *)
(* A step looks the flow up, loads the account, verifies, issues a code    *)
(* and removes the flow, with awaits between: other steps, a change of the *)
(* password (http.rs), the end of the client's connection or of the        *)
(* process may come in between.  What becomes of a code is TokenStore's    *)
(* matter, the migration of a plaintext password Onboarding's.             *)
(***************************************************************************)
EXTENDS Naturals, FiniteSets

CONSTANTS
    CLIENT,      \* client ids
    PASSWORD,    \* passwords, one of them in force
    STEP,        \* steps in flight at once: a bound
    NoClient,      \* in place of a client: no such flow
    MaxFlows     \* bound

ASSUME LoginFlowsAssumption == NoClient \notin CLIENT /\ MaxFlows \in Nat

VARIABLES
    flows,       \* LoginFlowStore.inner: flow id |-> its client, or NoClient
    begun,       \* how many flows were begun; ids are random, never used again
    password,    \* the password in the account's file
    step,        \* STEP |-> a request to login_flow_step, or Idle
    codes,       \* codes of TokenStore.auth_codes: the flows and clients they are for
    answered,    \* flow |-> codes its clients were told of: history
    overlapped   \* flows of which two steps were in flight at once: history

loginVars == <<flows, begun, password, step, codes, answered, overlapped>>

FLOW == 1..MaxFlows
Idle == [at |-> "idle"]
Busy(s) == step[s] # Idle
StepsOf(f) == {s \in STEP : Busy(s) /\ step[s].flow = f}

LoginInit ==
    /\ flows = [f \in FLOW |-> NoClient] /\ begun = 0
    /\ password \in PASSWORD
    /\ step = [s \in STEP |-> Idle]
    /\ codes = {} /\ answered = [f \in FLOW |-> 0] /\ overlapped = {}

\* login_flow_init, on a hub with an owner.
LoginFlowInit(client) ==
    /\ begun < MaxFlows
    /\ begun' = begun + 1
    /\ flows' = [flows EXCEPT ![begun + 1] = client]
    /\ UNCHANGED <<password, step, codes, answered, overlapped>>

\* A client submits credentials, to any flow it heard or read of.
Submit(s, flow, client, given) ==
    /\ ~Busy(s)
    /\ step' = [step EXCEPT ![s] = [at |-> "find", flow |-> flow, client |-> client,
                                    given |-> given, seen |-> given]]
    /\ overlapped' = IF StepsOf(flow) = {} THEN overlapped ELSE overlapped \cup {flow}
    /\ UNCHANGED <<flows, begun, password, codes, answered>>

Goto(s, at) == step' = [step EXCEPT ![s].at = at]
Refuse(s) == step' = [step EXCEPT ![s] = Idle]

\* Mutant: a flow is anybody's who knows its id.
FindFlowOfAny(s) ==
    /\ step[s].at = "find"
    /\ IF flows[step[s].flow] # NoClient THEN Goto(s, "load") ELSE Refuse(s)
    /\ UNCHANGED <<flows, begun, password, codes, answered, overlapped>>

\* The flow must be there and the client's.
FindFlow(s) ==
    /\ step[s].at = "find"
    /\ IF flows[step[s].flow] = step[s].client THEN Goto(s, "load") ELSE Refuse(s)
    /\ UNCHANGED <<flows, begun, password, codes, answered, overlapped>>

\* auth_user reads the account; the flow is not looked at again.
LoadAccount(s) ==
    /\ step[s].at = "load"
    /\ step' = [step EXCEPT ![s].at = "verify", ![s].seen = password]
    /\ UNCHANGED <<flows, begun, password, codes, answered, overlapped>>

\* A wrong password leaves the flow for another try; the right one is worth a
\* code.
VerifyAndIssue(s) ==
    /\ step[s].at = "verify"
    /\ IF step[s].given = step[s].seen
       THEN /\ codes' = codes \cup {[flow |-> step[s].flow, client |-> step[s].client]}
            /\ Goto(s, "finish")
       ELSE Refuse(s) /\ UNCHANGED codes
    /\ UNCHANGED <<flows, begun, password, answered, overlapped>>

\* mark_done, which nobody looks at, remove, and the answer with the code.
Finish(s) ==
    /\ step[s].at = "finish"
    /\ flows' = [flows EXCEPT ![step[s].flow] = NoClient]
    /\ Refuse(s)
    /\ answered' = [answered EXCEPT ![step[s].flow] = @ + 1]
    /\ UNCHANGED <<begun, password, codes, overlapped>>

\* The client goes away, and the handler with it; or a load fails.
Abandon(s) ==
    /\ Busy(s)
    /\ Refuse(s)
    /\ UNCHANGED <<flows, begun, password, codes, answered, overlapped>>

\* api_user_change_password, its last write.
ChangePassword(new) ==
    /\ new # password
    /\ password' = new
    /\ UNCHANGED <<flows, begun, step, codes, answered, overlapped>>

\* Flows and codes live in memory; a flow never expires before.
LoginRestart ==
    /\ flows' = [f \in FLOW |-> NoClient]
    /\ step' = [s \in STEP |-> Idle]
    /\ codes' = {}
    /\ UNCHANGED <<begun, password, answered, overlapped>>

LoginNext ==
    \/ \E c \in CLIENT : LoginFlowInit(c)
    \/ \E s \in STEP, f \in 1..begun, c \in CLIENT, p \in PASSWORD : Submit(s, f, c, p)
    \/ \E s \in STEP : \/ FindFlow(s) \/ LoadAccount(s) \/ VerifyAndIssue(s)
                       \/ Finish(s) \/ Abandon(s)
    \/ \E p \in PASSWORD : ChangePassword(p)
    \/ LoginRestart

LoginSpec == LoginInit /\ [][LoginNext]_loginVars

(***************************************************************************)
(* Properties.                                                             *)
(***************************************************************************)
\* A flow's codes go to the client that began it: a step that is at work for
\* another never gets past the lookup, and while a flow is there it and the
\* codes from it are of one client (ha_auth.rs, login_flow_step).
CodesAreTheClients ==
    /\ \A c, d \in codes : c.flow = d.flow => c.client = d.client
    /\ \A c \in codes : flows[c.flow] \in {NoClient, c.client}
    /\ \A s \in STEP : Busy(s) /\ step[s].at # "find"
          => flows[step[s].flow] \in {NoClient, step[s].client}

\* A flow that was answered with a code is gone; a second code for it can only
\* go to a step that was in flight with the first (ha_auth.rs, login_flow_step).
AFlowEndsWithItsCode ==
    \A f \in FLOW : answered[f] > 0 => /\ flows[f] = NoClient
                                       /\ answered[f] > 1 => f \in overlapped

\* A flow and its codes are one client's, and the first answer with a code is its
\* end, whatever overlaps (ha_auth.rs, login_flow_step).
FlowsAreOneClients == CodesAreTheClients /\ AFlowEndsWithItsCode
===============================================================================
