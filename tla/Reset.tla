------------------------------- MODULE Reset -------------------------------
(***************************************************************************)
(* handleReset (reset.go): the box back to its factory state, one removal  *)
(* after the other, without taking enrollMu or the mutex of ConfigManager. *)
(* Whatever fails, with "host" in Faults, it goes on and answers ok.      *)
(***************************************************************************)
EXTENDS Box

BeginReset(r) ==
    /\ Goto(r, "idle", "reset.stop")
    /\ \E wipe \in {"wipe", Blank} : arg' = [arg EXCEPT ![r] = wipe]
    /\ UNCHANGED <<listed, enrollMu, storeVars, outside>>

\* A failure is only noted in the response.
StopService(r) ==
    /\ Step(r, "reset.stop", "reset.list")
    /\ service' = "inactive" \/ ("host" \in Faults /\ UNCHANGED service)
    /\ UNCHANGED <<storeVars, wgVars, cloudVars, bt, form>>

\* Mutant: the dialplan is not among the files reset knows.
ListTwoConfs(r) ==
    /\ Goto(r, "reset.list", "reset.confs")
    /\ listed' = [listed EXCEPT ![r] = {t \in Templates \ {"extensions.conf"} : conf[t] # Absent}]
    /\ UNCHANGED <<arg, enrollMu, storeVars, outside>>

\* ReadDir, whose listing the loop walks whatever happens to the files.
ListConfs(r) ==
    /\ Goto(r, "reset.list", "reset.confs")
    /\ listed' = [listed EXCEPT ![r] = {t \in Templates : conf[t] # Absent}]
    /\ UNCHANGED <<arg, enrollMu, storeVars, outside>>

RemoveConf(r) ==
    /\ pc[r] = "reset.confs" /\ listed[r] # {}
    /\ conf' = [conf EXCEPT ![FirstOf(listed[r])] = Absent] \/ ("host" \in Faults /\ UNCHANGED conf)
    /\ listed' = [listed EXCEPT ![r] = @ \ {FirstOf(listed[r])}]
    /\ UNCHANGED <<pc, arg, enrollMu, state, verification, locals, outside>>

\* btDevices(true); the list is empty when bluetoothctl fails.
ListPhones(r) ==
    /\ listed[r] = {}
    /\ Goto(r, "reset.confs", "reset.phones")
    /\ \/ listed' = [listed EXCEPT ![r] = {m \in Phones : "paired" \in bt[m]}]
       \/ "host" \in Faults /\ UNCHANGED listed
    /\ UNCHANGED <<arg, enrollMu, storeVars, outside>>

RemovePhone(r) ==
    /\ pc[r] = "reset.phones"
    /\ \E m \in listed[r] :
          /\ listed' = [listed EXCEPT ![r] = @ \ {m}]
          /\ bt' = [bt EXCEPT ![m] = {}] \/ ("host" \in Faults /\ UNCHANGED bt)
    /\ UNCHANGED <<pc, arg, enrollMu, storeVars, wgVars, cloudVars, service, form>>

StopTunnel(r) ==
    /\ listed[r] = {}
    /\ Step(r, "reset.phones", "reset.disable")
    /\ iface' = NoTunnel \/ ("host" \in Faults /\ UNCHANGED iface)
    /\ UNCHANGED <<storeVars, box_key, generated, wg_conf, wg_enabled, cloudVars, bt, service, form>>

DisableTunnel(r) ==
    /\ Step(r, "reset.disable", "reset.wgconf")
    /\ wg_enabled' = FALSE \/ ("host" \in Faults /\ UNCHANGED wg_enabled)
    /\ UNCHANGED <<storeVars, box_key, generated, wg_conf, iface, cloudVars, bt, service, form>>

RemoveWGConf(r) ==
    /\ Step(r, "reset.wgconf", "reset.state")
    /\ wg_conf' = NoTunnel \/ ("host" \in Faults /\ UNCHANGED wg_conf)
    /\ UNCHANGED <<storeVars, box_key, generated, iface, wg_enabled, cloudVars, bt, service, form>>

RemoveState(r) ==
    /\ Step(r, "reset.state", "reset.verification")
    /\ state' = ZeroProvisioning \/ ("host" \in Faults /\ UNCHANGED state)
    /\ UNCHANGED <<verification, conf, locals, outside>>

RemoveVerification(r) ==
    /\ Step(r, "reset.verification", "reset.key")
    /\ verification' = NoSession \/ ("host" \in Faults /\ UNCHANGED verification)
    /\ UNCHANGED <<state, conf, locals, outside>>

\* The identity of the box goes only when asked for.
RemoveKey(r) ==
    /\ Step(r, "reset.key", "answer")
    /\ \/ box_key' = IF arg[r] = "wipe" THEN Blank ELSE box_key
       \/ "host" \in Faults /\ UNCHANGED box_key
    /\ UNCHANGED <<storeVars, generated, wg_conf, iface, wg_enabled, cloudVars, bt, service, form>>

ResetStep(r) ==
    \/ StopService(r) \/ ListConfs(r) \/ RemoveConf(r)
    \/ ListPhones(r) \/ RemovePhone(r)
    \/ StopTunnel(r) \/ DisableTunnel(r) \/ RemoveWGConf(r)
    \/ RemoveState(r) \/ RemoveVerification(r) \/ RemoveKey(r)
=============================================================================
