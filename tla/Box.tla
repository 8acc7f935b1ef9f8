-------------------------------- MODULE Box --------------------------------
(***************************************************************************)
(* The gateway box and what surrounds it, as the handlers of the           *)
(* control-agent see it: the files and interfaces they change through      *)
(* System, the ClawOps service, the browser, and the requests in flight.   *)
(* The configuration files and their locals come from ConfigStore.         *)
(***************************************************************************)
EXTENDS ConfigStore

CONSTANTS
    Nobody,     \* the owner of a free mutex
    Faults      \* what may go wrong, a subset of: "disk", a write fails;
                \*   "host", a command of the host or the removal of a file
                \*   fails; "crash", the agent dies; "reboot", the box does

ASSUME BoxAssumption ==
    /\ Nobody \notin Requests
    /\ "wipe" \notin Phones \cup Keys \cup Numbers

VARIABLES
    pc,             \* where each request is in its handler, "idle" outside one
    arg,            \* the handler's own value: the phone to pair, the public key
                    \*   to enroll, the number ClawOps verified, or "wipe"
    listed,         \* what handleReset has listed and not yet removed
    enrollMu,       \* who holds enrollMu
    box_key,        \* box.key, Blank when absent or empty
    generated,      \* the keys `wg genkey` has produced so far
    wg_conf,        \* wg0.conf: the private key and the address in it
    iface,          \* what the interface runs with
    wg_enabled,     \* wg-quick@wg0 starts at boot
    bt,             \* what BlueZ knows of each phone
    service,        \* clawops-asterisk
    form,           \* the configuration form in the browser
    registered,     \* ClawOps: the public keys enrolled
    sessions        \* ClawOps: the verification session behind each nonce

requestVars == <<pc, arg, listed, enrollMu>>
wgVars      == <<box_key, generated, wg_conf, iface, wg_enabled>>
cloudVars   == <<registered, sessions>>
outside     == <<wgVars, cloudVars, bt, service, form>>
vars == <<storeVars, requestVars, outside>>

NoTunnel == [key |-> Blank, addr |-> Blank]

Tunnels == [key : OrBlank(Keys), addr : OrBlank(Keys)]

Statuses == {"unissued", "pending", "verified", "expired", "quota_exceeded"}

Init ==
    /\ StoreInit
    /\ pc = [r \in Requests |-> "idle"]
    /\ arg = [r \in Requests |-> Blank]
    /\ listed = [r \in Requests |-> {}]
    /\ enrollMu = Nobody
    /\ box_key = Blank
    /\ generated = {}
    /\ wg_conf = NoTunnel
    /\ iface = NoTunnel
    /\ wg_enabled = FALSE
    /\ bt = [m \in Phones |-> {}]
    /\ service = "inactive"
    /\ form = ZeroProvisioning
    /\ registered = {}
    /\ sessions = [n \in Nonces |-> [status |-> "unissued", number |-> Blank]]

-----------------------------------------------------------------------------
(* Steps of a handler. *)

Goto(r, from, to) == pc[r] = from /\ pc' = [pc EXCEPT ![r] = to]

\* The handler moves on and keeps its own value, its listing and its mutex.
Step(r, from, to) == Goto(r, from, to) /\ UNCHANGED <<arg, listed, enrollMu>>

\* Mutant: the unlock is not deferred to every return.
AnswerLocked(r) ==
    /\ todo[r] = {}
    /\ Goto(r, "answer", "idle")
    /\ arg' = [arg EXCEPT ![r] = Blank]
    /\ listed' = [listed EXCEPT ![r] = {}]
    /\ prov' = [prov EXCEPT ![r] = ZeroProvisioning]
    /\ sess' = [sess EXCEPT ![r] = NoSession]
    /\ saved' = [saved EXCEPT ![r] = "none"]
    /\ UNCHANGED <<enrollMu, files, todo, outside>>

\* The handler has written its response; its locals are gone, and its deferred
\* unlock runs.
Answer(r) ==
    /\ todo[r] = {}
    /\ Goto(r, "answer", "idle")
    /\ arg' = [arg EXCEPT ![r] = Blank]
    /\ listed' = [listed EXCEPT ![r] = {}]
    /\ enrollMu' = IF enrollMu = r THEN Nobody ELSE enrollMu
    /\ prov' = [prov EXCEPT ![r] = ZeroProvisioning]
    /\ sess' = [sess EXCEPT ![r] = NoSession]
    /\ saved' = [saved EXCEPT ![r] = "none"]
    /\ UNCHANGED <<files, todo, outside>>

\* Save, which may fail; its templates are rendered by Rendering.
Saving(r) == Save(r) \/ ("disk" \in Faults /\ SaveFails(r))

Rendering(r) ==
    /\ RenderNext(r) \/ ("disk" \in Faults /\ RenderFails(r))
    /\ UNCHANGED <<requestVars, outside>>

SavingVerification(r, v) ==
    SaveVerification(r, v) \/ ("disk" \in Faults /\ SaveVerificationFails(r, v))
=============================================================================
