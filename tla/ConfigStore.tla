---------------------------- MODULE ConfigStore ----------------------------
(***************************************************************************)
(* What the ConfigManager of config.go promises the handlers of the        *)
(* control-agent: two files that are read and written whole, one operation *)
(* at a time, and a rendering of the templates that nothing reads through. *)
(*                                                                         *)
(* These are the operations the handlers are built from.  AtomicStore is   *)
(* the specification of a store with any clients; ConfigManager, where a   *)
(* write is two steps under a mutex, implements it.                        *)
(*                                                                         *)
(* A request is one goroutine of net/http.  prov and sess are the local    *)
(* variables p and v of its handler, saved is the outcome of its last Save *)
(* and todo the templates that Save has still to render: a request with    *)
(* todo # {} is inside Save and holds ConfigManager.mu.                    *)
(***************************************************************************)
EXTENDS Provisioning

CONSTANT Requests   \* the requests that may be in flight at once

VARIABLES
    state,          \* what Load reads from state.json
    verification,   \* what LoadVerification reads from verification.json
    conf,           \* the .conf files in /etc/clawops-gw/asterisk
    prov, sess,     \* the handlers' locals
    todo, saved

files  == <<state, verification, conf>>
locals == <<prov, sess, todo, saved>>
storeVars == <<files, locals>>

Idle == \A r \in Requests : todo[r] = {}

StoreInit ==
    /\ state = ZeroProvisioning
    /\ verification = NoSession
    /\ conf = [t \in Templates |-> Sample]
    /\ prov  = [r \in Requests |-> ZeroProvisioning]
    /\ sess  = [r \in Requests |-> NoSession]
    /\ todo  = [r \in Requests |-> {}]
    /\ saved = [r \in Requests |-> "none"]

StoreTypeOK ==
    /\ state \in Provisionings
    /\ verification \in VerificationStates
    /\ conf \in [Templates -> ConfContents]
    /\ prov \in [Requests -> Provisionings]
    /\ sess \in [Requests -> VerificationStates]
    /\ todo \in [Requests -> SUBSET Templates]
    /\ saved \in [Requests -> {"none", "ok", "failed"}]

-----------------------------------------------------------------------------
\* Load, and what the handler makes of the record it returns before its next
\* call: p is an expression in state.
LoadInto(r, p) ==
    /\ Idle
    /\ prov' = [prov EXCEPT ![r] = p]
    /\ saved' = [saved EXCEPT ![r] = "none"]
    /\ UNCHANGED <<files, sess, todo>>

LoadVerification(r) ==
    /\ Idle
    /\ sess' = [sess EXCEPT ![r] = verification]
    /\ UNCHANGED <<files, prov, todo, saved>>

\* Save(p) up to the point where state.json is written; the templates follow
\* only when no value is missing.
Save(r) ==
    /\ Idle
    /\ state' = prov[r]
    /\ IF Complete(prov[r])
       THEN /\ todo' = [todo EXCEPT ![r] = Templates]
            /\ saved' = [saved EXCEPT ![r] = "none"]
       ELSE /\ saved' = [saved EXCEPT ![r] = "ok"]
            /\ UNCHANGED todo
    /\ UNCHANGED <<verification, conf, prov, sess>>

\* MkdirAll or the open fails and state.json is as it was, or the write does
\* and what is left of the file does not parse.
SaveFails(r) ==
    /\ Idle
    /\ state' \in {state, ZeroProvisioning}
    /\ saved' = [saved EXCEPT ![r] = "failed"]
    /\ UNCHANGED <<verification, conf, prov, sess, todo>>

RenderNext(r) ==
    /\ todo[r] # {}
    /\ LET t == FirstOf(todo[r])
       IN  /\ conf' = [conf EXCEPT ![t] = Rendered(t, prov[r])]
           /\ todo' = [todo EXCEPT ![r] = @ \ {t}]
           /\ saved' = [saved EXCEPT ![r] = IF todo[r] = {t} THEN "ok" ELSE @]
    /\ UNCHANGED <<state, verification, prov, sess>>

\* A template cannot be read or its .conf cannot be written: the templates
\* that follow it are not rendered.
RenderFails(r) ==
    /\ todo[r] # {}
    /\ LET t == FirstOf(todo[r])
       IN  \E left \in {conf[t], Torn} : conf' = [conf EXCEPT ![t] = left]
    /\ todo' = [todo EXCEPT ![r] = {}]
    /\ saved' = [saved EXCEPT ![r] = "failed"]
    /\ UNCHANGED <<state, verification, prov, sess>>

SaveVerification(r, v) ==
    /\ Idle
    /\ verification' = v
    /\ sess' = [sess EXCEPT ![r] = v]
    /\ UNCHANGED <<state, conf, prov, todo, saved>>

SaveVerificationFails(r, v) ==
    /\ Idle
    /\ verification' \in {verification, NoSession}
    /\ sess' = [sess EXCEPT ![r] = v]
    /\ UNCHANGED <<state, conf, prov, todo, saved>>

\* The agent dies and every request with it.
Forget ==
    /\ prov'  = [r \in Requests |-> ZeroProvisioning]
    /\ sess'  = [r \in Requests |-> NoSession]
    /\ todo'  = [r \in Requests |-> {}]
    /\ saved' = [r \in Requests |-> "none"]

\* A file cut short by that death, in the middle of the write.
TearState        == Idle /\ state' = ZeroProvisioning /\ UNCHANGED <<verification, conf>>
TearVerification == Idle /\ verification' = NoSession /\ UNCHANGED <<state, conf>>
TearConf(r)      == /\ todo[r] # {}
                    /\ conf' = [conf EXCEPT ![FirstOf(todo[r])] = Torn]
                    /\ UNCHANGED <<state, verification>>

=============================================================================
