------------------------------ MODULE Handlers ------------------------------
(***************************************************************************)
(* The handlers that load the stored records, change a field and save them *)
(* again: handleVerification, handleBTPair (with System.Pair and HFPPort)  *)
(* and handleConfigSave of handlers.go, and the service actions.  The mutex *)
(* of ConfigManager covers each load and each save, never the two together. *)
(*                                                                         *)
(* A malformed body is refused before anything happens and is not modelled. *)
(***************************************************************************)
EXTENDS Box

CONSTANT Edited     \* the fields of the form the user edits

ASSUME EditedAssumption == Edited \subseteq Fields \ {"did"}

-----------------------------------------------------------------------------
(* handleVerification. *)

\* Nothing is polled before an enrollment, nor once the number is cached.
BeginVerification(r) ==
    /\ LoadVerification(r)
    /\ Step(r, "idle",
            IF verification.nonce = Blank \/ verification.verified_number # Blank
            THEN "answer" ELSE "verify.poll")
    /\ UNCHANGED outside

\* Mutant: the number is taken whatever the status.
PollAnyStatus(r) ==
    /\ pc[r] = "verify.poll"
    /\ LET reply == sessions[sess[r].nonce]
       IN  IF reply.number # Blank
           THEN /\ pc' = [pc EXCEPT ![r] = "verify.load"]
                /\ arg' = [arg EXCEPT ![r] = reply.number]
           ELSE /\ pc' = [pc EXCEPT ![r] = "answer"]
                /\ UNCHANGED arg
    /\ UNCHANGED <<listed, enrollMu, storeVars, outside>>

\* ClawOps answers with the status and the number of the session.
Poll(r) ==
    /\ pc[r] = "verify.poll"
    /\ LET reply == sessions[sess[r].nonce]
       IN  IF reply.status = "verified" /\ reply.number # Blank
           THEN /\ pc' = [pc EXCEPT ![r] = "verify.load"]
                /\ arg' = [arg EXCEPT ![r] = reply.number]
           ELSE /\ pc' = [pc EXCEPT ![r] = "answer"]
                /\ UNCHANGED arg
    /\ UNCHANGED <<listed, enrollMu, storeVars, outside>>

\* Unreachable, or 404: the handler answers without touching anything.
PollFails(r) ==
    /\ Step(r, "verify.poll", "answer")
    /\ UNCHANGED <<storeVars, outside>>

LoadDID(r) ==
    /\ Step(r, "verify.load", "verify.save")
    /\ LoadInto(r, [state EXCEPT !.did = arg[r]])
    /\ UNCHANGED outside

SaveDID(r) ==
    /\ Step(r, "verify.save", "verify.cache")
    /\ Saving(r)
    /\ UNCHANGED outside

\* Mutant: the number is cached whatever Save returns.
CacheAlways(r) ==
    /\ todo[r] = {}
    /\ Step(r, "verify.cache", "answer")
    /\ SavingVerification(r, [sess[r] EXCEPT !.verified_number = arg[r]])
    /\ UNCHANGED outside

\* The number is cached, and polling stops, only after a Save without error.
CacheVerified(r) ==
    /\ todo[r] = {}
    /\ Step(r, "verify.cache", "answer")
    /\ IF saved[r] = "ok"
       THEN SavingVerification(r, [sess[r] EXCEPT !.verified_number = arg[r]])
       ELSE UNCHANGED storeVars
    /\ UNCHANGED outside

-----------------------------------------------------------------------------
(* handleBTPair. *)

BeginPair(r) ==
    /\ Goto(r, "idle", "pair.scan")
    /\ \E m \in Phones : arg' = [arg EXCEPT ![r] = m]
    /\ UNCHANGED <<listed, enrollMu, storeVars, outside>>

\* BlueZ discovery makes the phones nearby known to bluetoothd.
Discover(r) ==
    /\ Step(r, "pair.scan", "pair.pair")
    /\ \E found \in SUBSET Phones :
          bt' = [m \in Phones |-> IF m \in found THEN bt[m] \cup {"known"} ELSE bt[m]]
    /\ UNCHANGED <<storeVars, wgVars, cloudVars, service, form>>

\* `bluetoothctl pair`, whose exit status says nothing.
PairPhone(r) ==
    /\ Step(r, "pair.pair", "pair.check")
    /\ \/ UNCHANGED bt
       \/ "known" \in bt[arg[r]] /\ bt' = [bt EXCEPT ![arg[r]] = @ \cup {"paired"}]
    /\ UNCHANGED <<storeVars, wgVars, cloudVars, service, form>>

\* Mutant: the exit status of `bluetoothctl pair` is believed.
CheckNothing(r) ==
    /\ Step(r, "pair.check", "pair.trust")
    /\ UNCHANGED <<storeVars, outside>>

\* isPaired; when bluetoothctl itself fails the answer is no.
CheckPaired(r) ==
    /\ \/ Step(r, "pair.check", "pair.trust") /\ "paired" \in bt[arg[r]]
       \/ /\ Step(r, "pair.check", "answer")
          /\ "paired" \notin bt[arg[r]] \/ "host" \in Faults
    /\ UNCHANGED <<storeVars, outside>>

Trust(r) ==
    /\ \/ /\ Step(r, "pair.trust", "pair.load")
          /\ "known" \in bt[arg[r]]
          /\ bt' = [bt EXCEPT ![arg[r]] = @ \cup {"trusted"}]
       \/ /\ Step(r, "pair.trust", "answer")
          /\ "known" \notin bt[arg[r]] \/ "host" \in Faults
          /\ UNCHANGED bt
    /\ UNCHANGED <<storeVars, wgVars, cloudVars, service, form>>

\* The phone is saved with the address of the adapter, if one is plugged in and
\* none was saved, and the port its SDP record gives, if the phone answers.
LoadLine(r) ==
    /\ Step(r, "pair.load", "pair.save")
    /\ \E adapter \in IF state.adapter_mac = Blank THEN OrBlank(Adapters) ELSE {state.adapter_mac} :
       \E port \in {arg[r], state.hfp_port} :
          LoadInto(r, [state EXCEPT !.phone_mac = arg[r],
                                    !.adapter_mac = adapter,
                                    !.hfp_port = port])
    /\ UNCHANGED outside

\* Whatever Save returns, the handler answers ok.
SaveLine(r) ==
    /\ Step(r, "pair.save", "answer")
    /\ Saving(r)
    /\ UNCHANGED outside

-----------------------------------------------------------------------------
(* handleConfigSave, and the form whose content it is sent.  The browser    *)
(* fills the form from the record the agent reports; what it posts may be  *)
(* older than what is stored by then.                                      *)

LoadForm ==
    /\ Idle
    /\ form' = state
    /\ UNCHANGED <<storeVars, requestVars, wgVars, cloudVars, bt, service>>

\* Mutant: the DID of the form is not read-only.
PostAnyDID(r) ==
    /\ Step(r, "idle", "config.save")
    /\ \E p \in Provisionings :
          /\ \A f \in Fields \ (Edited \cup {"did"}) : p[f] = form[f]
          /\ prov' = [prov EXCEPT ![r] = p]
    /\ UNCHANGED <<files, sess, todo, saved, outside>>

\* The DID of the form is read-only (index.html); the user may edit the rest.
BeginConfigSave(r) ==
    /\ Step(r, "idle", "config.save")
    /\ \E p \in Provisionings :
          /\ \A f \in Fields \ Edited : p[f] = form[f]
          /\ prov' = [prov EXCEPT ![r] = p]
    /\ UNCHANGED <<files, sess, todo, saved, outside>>

SaveConfig(r) ==
    /\ Step(r, "config.save", "answer")
    /\ Saving(r)
    /\ UNCHANGED outside

-----------------------------------------------------------------------------
(* handleService is one command: start and restart only queue a job with    *)
(* systemd, which runs it later; stop waits.                               *)

ServiceAction(r) ==
    /\ pc[r] = "idle"
    /\ service' \in {"activating", "inactive"}
    /\ UNCHANGED <<storeVars, requestVars, wgVars, cloudVars, bt, form>>

ServiceStarts ==
    /\ service = "activating"
    /\ service' \in {"active", "inactive"}
    /\ UNCHANGED <<storeVars, requestVars, wgVars, cloudVars, bt, form>>

HandlerStep(r) ==
    \/ Poll(r) \/ PollFails(r) \/ LoadDID(r) \/ SaveDID(r) \/ CacheVerified(r)
    \/ Discover(r) \/ PairPhone(r) \/ CheckPaired(r) \/ Trust(r) \/ LoadLine(r) \/ SaveLine(r)
    \/ SaveConfig(r)
=============================================================================
