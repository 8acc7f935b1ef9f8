------------------------------- MODULE Agent -------------------------------
(***************************************************************************)
(* The control-agent: net/http runs one goroutine per request, and the     *)
(* handlers of Enroll, Handlers and Reset interleave over the files of the *)
(* box.  Jobs selects which handlers the environment calls.                *)
(***************************************************************************)
EXTENDS Enroll, Handlers, Reset

CONSTANT Jobs   \* a subset of {"enroll", "verification", "pair", "config", "service", "reset"}

Begin(r) ==
    \/ "enroll" \in Jobs /\ BeginEnroll(r)
    \/ "verification" \in Jobs /\ BeginVerification(r)
    \/ "pair" \in Jobs /\ BeginPair(r)
    \/ "config" \in Jobs /\ BeginConfigSave(r)
    \/ "service" \in Jobs /\ ServiceAction(r)
    \/ "reset" \in Jobs /\ BeginReset(r)

\* One step of the handler that serves r.
Proceed(r) ==
    EnrollStep(r) \/ HandlerStep(r) \/ ResetStep(r) \/ Rendering(r) \/ Answer(r)

ClawOps == \E n \in Nonces : Expires(n) \/ \E num \in Numbers : Verifies(n, num)

-----------------------------------------------------------------------------
(* The agent dies: killed, or the box loses power.                         *)

Saves(r) == pc[r] \in {"enroll.save", "verify.save", "pair.save", "config.save"}

SavesVerification(r) == todo[r] = {} /\ pc[r] \in {"enroll.session", "verify.cache"}

\* No request survives; what one was writing may be cut short.
Dies ==
    /\ Forget
    /\ pc' = [r \in Requests |-> "idle"]
    /\ arg' = [r \in Requests |-> Blank]
    /\ listed' = [r \in Requests |-> {}]
    /\ enrollMu' = Nobody
    /\ \/ UNCHANGED files
       \/ \E r \in Requests : \/ Saves(r) /\ TearState
                              \/ SavesVerification(r) /\ TearVerification
                              \/ TearConf(r)
    /\ \/ UNCHANGED wg_conf
       \/ (\E r \in Requests : pc[r] = "enroll.wgconf") /\ wg_conf' = NoTunnel
    /\ UNCHANGED <<box_key, generated, wg_enabled, cloudVars, bt, form>>

\* systemd restarts the agent (Restart=on-failure) and nothing else.
AgentRestarts ==
    /\ "crash" \in Faults
    /\ Dies
    /\ UNCHANGED <<iface, service>>

\* At boot the units that are enabled start from what is on disk.
BoxReboots ==
    /\ "reboot" \in Faults
    /\ Dies
    /\ iface' = IF wg_enabled THEN wg_conf' ELSE NoTunnel
    /\ service' = "activating"

-----------------------------------------------------------------------------
Next ==
    \/ \E r \in Requests : Begin(r) \/ Proceed(r)
    \/ "config" \in Jobs /\ LoadForm
    \/ ServiceStarts
    \/ "verification" \in Jobs /\ ClawOps
    \/ AgentRestarts \/ BoxReboots

\* The goroutine of a request keeps running.  The fairness is strong because a
\* request that waits for a mutex is eventually given it: sync.Mutex hands
\* itself to the longest waiter once that one has waited a millisecond.
Fairness == \A r \in Requests : SF_vars(Proceed(r))

Spec == Init /\ [][Next]_vars

FairSpec == Spec /\ Fairness

-----------------------------------------------------------------------------
(* Properties. *)

EnrollPCs ==
    {"enroll.key", "enroll.genkey", "enroll.call", "enroll.wgconf", "enroll.enable",
     "enroll.wgup", "enroll.load", "enroll.save", "enroll.session"}

PCs == EnrollPCs \cup
    {"idle", "answer", "enroll.lock",
     "verify.poll", "verify.load", "verify.save", "verify.cache",
     "pair.scan", "pair.pair", "pair.check", "pair.trust", "pair.load", "pair.save",
     "config.save",
     "reset.stop", "reset.list", "reset.confs", "reset.phones", "reset.disable",
     "reset.wgconf", "reset.state", "reset.verification", "reset.key"}

\* Every variable has its type.
TypeOK ==
    /\ StoreTypeOK
    /\ pc \in [Requests -> PCs]
    /\ arg \in [Requests -> OrBlank(Phones \cup Keys \cup Numbers \cup {"wipe"})]
    /\ listed \in [Requests -> SUBSET (Templates \cup Phones)]
    /\ enrollMu \in Requests \cup {Nobody}
    /\ box_key \in OrBlank(Keys)
    /\ generated \in SUBSET Keys
    /\ wg_conf \in Tunnels
    /\ iface \in Tunnels
    /\ wg_enabled \in BOOLEAN
    /\ bt \in [Phones -> SUBSET {"known", "paired", "trusted"}]
    /\ service \in {"inactive", "activating", "active"}
    /\ form \in Provisionings
    /\ registered \in SUBSET Keys
    /\ sessions \in [Nonces -> [status : Statuses, number : OrBlank(Numbers)]]

\* A tunnel configuration pairs the private key of the box with the address
\* ClawOps assigned to that very key, and ClawOps has the key: the race of two
\* enrollments that enrollMu is there for (enroll.go:17-19), with resets that
\* wipe the key and crashes in between.
Agrees(tunnel) ==
    tunnel # NoTunnel => tunnel.key = tunnel.addr /\ tunnel.key \in registered

KeyAgreement == Agrees(wg_conf) /\ Agrees(iface)

\* A usable key is never replaced: it stays, or reset removes it.  A second
\* key would leave an orphan gateway at ClawOps (reset.go:33-36, wg.go:25-26).
IdentityStable == [][box_key # Blank => box_key' \in {box_key, Blank}]_vars

BoxIdentity == INSTANCE GatewayIdentity

\* Nor do interleaved enrollments and resets register a second key while the box
\* has one, or configure the tunnel with a key the box has no more: with its
\* mutex, and box.key read twice, the agent is one gateway to ClawOps, as if each
\* of these steps were a single one (enroll.go:17-19, reset.go:33-36, wg.go:53).
KeepsIdentity == BoxIdentity!Spec

\* The session that an enrollment stores is the newest one ClawOps has issued:
\* none that was overtaken by another enrollment replaces a later one, which only
\* that other one's token belongs to (enroll.go:92-94, 130-136).
StoresLatestSession ==
    [][\A r \in Requests :
          /\ pc[r] = "enroll.session" /\ pc'[r] = "answer"
          /\ verification' # verification /\ verification'.nonce # Blank
          => \A n \in Nonces : sessions[n].status # "unissued" => n <= verification'.nonce]_vars

\* The number cached with a session is the one ClawOps verified for that very
\* session, however polls, enrollments and resets interleave.
CachedNumberIsVerified ==
    verification.verified_number # Blank =>
        sessions[verification.nonce] =
            [status |-> "verified", number |-> verification.verified_number]

\* No number reaches state.json, and through it the dialplan, that ClawOps has
\* not verified (enroll.go:122-124): not one over quota, not one expired.
DIDIsVerified ==
    LET verifiedNumbers == {sessions[n].number : n \in {k \in Nonces : sessions[k].status = "verified"}}
        dialplan == conf["extensions.conf"]
    IN  /\ state.did \in OrBlank(verifiedNumbers)
        /\ dialplan.kind = "rendered" => dialplan.values["did"] \in verifiedNumbers

\* The number is cached, which ends the polling, only when it is in state.json:
\* a crash or a failed write in between leaves the poll to be repeated
\* (handlers.go:81-89).
CachedAfterInjection ==
    [][verification'.verified_number \notin {Blank, verification.verified_number}
          => state.did = verification'.verified_number]_vars

\* When a reset answers, nothing of the previous owner is left (reset.go:20-31).
ResetErases ==
    [][\A r \in Requests :
          pc[r] = "reset.key" /\ pc'[r] = "answer" =>
              /\ state' = ZeroProvisioning /\ verification' = NoSession
              /\ \A t \in Templates : conf'[t] = Absent
              /\ wg_conf' = NoTunnel /\ iface' = NoTunnel /\ ~ wg_enabled'
              /\ \A m \in Phones : "paired" \notin bt'[m]
              /\ service' = "inactive"
              /\ arg[r] = "wipe" => box_key' = Blank]_vars

\* BlueZ trusts no phone it is not paired with, and no phone is saved as the
\* line before it is paired: the exit status of bluetoothctl proves nothing
\* (system.go:217-220, handlers.go:121).
OnlyPairedPhones ==
    /\ \A m \in Phones : "trusted" \in bt[m] => "paired" \in bt[m]
    /\ state.phone_mac # Blank => "paired" \in bt[state.phone_mac]

\* Nobody waits for ever: who renders holds the mutex of ConfigManager alone and
\* needs no other; who holds enrollMu is past the lock, and no two enrollments are;
\* both have the answer, and with it the deferred unlock, ahead (enroll.go:93-94).
LockOrder ==
    /\ \A r, q \in Requests : todo[r] # {} /\ todo[q] # {} => r = q
    /\ \A r \in Requests :
          /\ todo[r] # {} => pc[r] \in {"enroll.session", "verify.cache", "answer"}
          /\ pc[r] \in EnrollPCs => enrollMu = r
          /\ enrollMu = r => pc[r] \in EnrollPCs \cup {"answer"}

\* Every request is answered: enrollMu and the mutex of ConfigManager, taken
\* one inside the other by handleEnroll, cannot block the agent.
RequestsAnswered == \A r \in Requests : (pc[r] # "idle") ~> (pc[r] = "idle")

-----------------------------------------------------------------------------
(* What the repository says of the agent and the agent does not keep.      *)

\* handlers.go:59: when a verified number is cached, its injection as the DID
\* is done with.
CachedMeansInjected ==
    verification.verified_number # Blank => state.did = verification.verified_number

\* enroll.go:124: the DID is not set before the verification.
NoDIDBeforeVerification ==
    /\ verification.nonce # Blank
    /\ sessions[verification.nonce].status # "verified"
    => state.did = Blank

\* enroll.go:130: a new session resets the verification of the earlier one.
SessionNeverGoesBack ==
    [][verification.nonce # Blank /\ verification'.nonce # Blank
          => verification'.nonce >= verification.nonce]_vars

\* chan_mobile.conf.tmpl:5, system.go:130: the port is that of the phone.
PortBelongsToPhone ==
    state.hfp_port # Blank => state.hfp_port = state.phone_mac
=============================================================================
