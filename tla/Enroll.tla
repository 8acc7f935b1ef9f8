------------------------------- MODULE Enroll -------------------------------
(***************************************************************************)
(* handleEnroll, the call home of the box (enroll.go, wg.go), and the      *)
(* ClawOps service it calls.  Two enrollments at once would generate two   *)
(* keys and leave ClawOps with another one than wg0.conf has: enrollMu is  *)
(* there to prevent it.                                                    *)
(*                                                                         *)
(* A request that fails validation changes nothing and is not modelled.    *)
(***************************************************************************)
EXTENDS Box

-----------------------------------------------------------------------------
(* ClawOps, as enroll.go and handlers.go use it.  A one-time token buys one *)
(* enrollment; the nonces are those of the tokens, so Nonces bounds them.  *)

NextNonces ==
    {n \in Nonces : /\ sessions[n].status = "unissued"
                    /\ \A m \in Nonces : m < n => sessions[m].status # "unissued"}

Enrolls(k, n) ==
    /\ registered' = registered \cup {k}
    /\ sessions' = [sessions EXCEPT ![n].status = "pending"]

\* The SMS arrives, or does not; a session over quota may still name the number.
Verifies(n, num) ==
    /\ sessions[n].status = "pending"
    /\ \E s \in {"verified", "quota_exceeded"} :
          sessions' = [sessions EXCEPT ![n] = [status |-> s, number |-> num]]
    /\ UNCHANGED <<storeVars, requestVars, wgVars, registered, bt, service, form>>

Expires(n) ==
    /\ sessions[n].status = "pending"
    /\ sessions' = [sessions EXCEPT ![n].status = "expired"]
    /\ UNCHANGED <<storeVars, requestVars, wgVars, registered, bt, service, form>>

-----------------------------------------------------------------------------
(* handleEnroll. *)

BeginEnroll(r) ==
    /\ Step(r, "idle", "enroll.lock")
    /\ UNCHANGED <<storeVars, outside>>

\* Mutant: enrollments are not serialized.
LockNothing(r) ==
    /\ Goto(r, "enroll.lock", "enroll.key")
    /\ enrollMu' = r
    /\ UNCHANGED <<arg, listed, storeVars, outside>>

LockEnroll(r) ==
    /\ enrollMu = Nobody
    /\ Goto(r, "enroll.lock", "enroll.key")
    /\ enrollMu' = r
    /\ UNCHANGED <<arg, listed, storeVars, outside>>

\* ensureWGKeypair, a usable key on disk.
ReadKey(r) ==
    /\ box_key # Blank
    /\ Goto(r, "enroll.key", "enroll.call")
    /\ arg' = [arg EXCEPT ![r] = box_key]
    /\ UNCHANGED <<listed, enrollMu, storeVars, outside>>

\* Mutant: a key is generated for every enrollment.
AlwaysNeedKey(r) ==
    /\ Step(r, "enroll.key", "enroll.genkey")
    /\ UNCHANGED <<storeVars, outside>>

\* ensureWGKeypair, no key or an empty one: read, then generated and written.
NeedKey(r) ==
    /\ box_key = Blank
    /\ Step(r, "enroll.key", "enroll.genkey")
    /\ UNCHANGED <<storeVars, outside>>

\* Mutant: the empty output of a genkey that failed is taken for a key.
GenAnyKey(r) ==
    /\ Goto(r, "enroll.genkey", "enroll.call")
    /\ \E k \in OrBlank(Keys) \ generated :
          /\ generated' = generated \cup {k}
          /\ box_key' = k
          /\ arg' = [arg EXCEPT ![r] = k]
    /\ UNCHANGED <<listed, enrollMu, storeVars, wg_conf, iface, wg_enabled, cloudVars,
                   bt, service, form>>

GenKey(r) ==
    /\ Goto(r, "enroll.genkey", "enroll.call")
    /\ \E k \in Keys \ generated :
          /\ generated' = generated \cup {k}
          /\ box_key' = k
          /\ arg' = [arg EXCEPT ![r] = k]
    /\ UNCHANGED <<listed, enrollMu, storeVars, wg_conf, iface, wg_enabled, cloudVars,
                   bt, service, form>>

\* genkey fails, or box.key cannot be written and stays empty.
GenKeyFails(r) ==
    /\ Step(r, "enroll.genkey", "answer")
    /\ UNCHANGED <<storeVars, outside>>

\* callEnrollAPI, answered 201; the reply may lack the verification part.
CallEnroll(r) ==
    /\ Step(r, "enroll.call", "enroll.wgconf")
    /\ \E n \in NextNonces :
          /\ Enrolls(arg[r], n)
          /\ \E nonce \in {n, Blank} :
                sess' = [sess EXCEPT ![r] = [nonce |-> nonce, verified_number |-> Blank]]
    /\ UNCHANGED <<files, prov, todo, saved, wgVars, bt, service, form>>

\* ClawOps refuses or is out of reach; or it enrolls the box, and its reply is
\* lost to the timeout or is not usable.
EnrollFails(r) ==
    /\ Step(r, "enroll.call", "answer")
    /\ UNCHANGED cloudVars \/ \E n \in NextNonces : Enrolls(arg[r], n)
    /\ UNCHANGED <<storeVars, wgVars, bt, service, form>>

\* Mutant: wg0.conf gets the key read before the call to ClawOps.
WriteOldKey(r) ==
    /\ Step(r, "enroll.wgconf", "enroll.enable")
    /\ wg_conf' = [key |-> arg[r], addr |-> arg[r]]
    /\ UNCHANGED <<storeVars, box_key, generated, iface, wg_enabled, cloudVars, bt, service, form>>

\* writeWGConf reads box.key again.
WriteWGConf(r) ==
    /\ box_key # Blank
    /\ Step(r, "enroll.wgconf", "enroll.enable")
    /\ wg_conf' = [key |-> box_key, addr |-> arg[r]]
    /\ UNCHANGED <<storeVars, box_key, generated, iface, wg_enabled, cloudVars, bt, service, form>>

WriteWGConfFails(r) ==
    /\ Step(r, "enroll.wgconf", "answer")
    /\ \/ box_key = Blank /\ UNCHANGED wg_conf
       \/ "disk" \in Faults /\ wg_conf' \in {wg_conf, NoTunnel}
    /\ UNCHANGED <<storeVars, box_key, generated, iface, wg_enabled, cloudVars, bt, service, form>>

\* wgUp enables the tunnel for the next boot, best effort.
EnableWG(r) ==
    /\ Step(r, "enroll.enable", "enroll.wgup")
    /\ wg_enabled' = TRUE \/ ("host" \in Faults /\ UNCHANGED wg_enabled)
    /\ UNCHANGED <<storeVars, box_key, generated, wg_conf, iface, cloudVars, bt, service, form>>

\* And restarts it; the handler goes on when that fails.
WgUp(r) ==
    /\ Step(r, "enroll.wgup", "enroll.load")
    /\ iface' = wg_conf \/ ("host" \in Faults /\ iface' = NoTunnel)
    /\ UNCHANGED <<storeVars, box_key, generated, wg_conf, wg_enabled, cloudVars, bt, service, form>>

LoadTunnel(r) ==
    /\ Step(r, "enroll.load", "enroll.save")
    /\ LoadInto(r, [state EXCEPT !.tunnel_ip = arg[r], !.kamailio_ip = "kamailio"])
    /\ UNCHANGED outside

SaveTunnel(r) ==
    /\ Step(r, "enroll.save", "enroll.session")
    /\ Saving(r)
    /\ UNCHANGED outside

\* Mutant: the number cached for the earlier session is kept.
SaveSessionKeepsNumber(r) ==
    /\ todo[r] = {}
    /\ Step(r, "enroll.session", "answer")
    /\ IF sess[r].nonce # Blank
       THEN SavingVerification(r,
                [sess[r] EXCEPT !.verified_number = verification.verified_number])
       ELSE UNCHANGED storeVars
    /\ UNCHANGED outside

\* The new session replaces the old one, whether or not Save succeeded.
SaveSession(r) ==
    /\ todo[r] = {}
    /\ Step(r, "enroll.session", "answer")
    /\ IF sess[r].nonce # Blank THEN SavingVerification(r, sess[r]) ELSE UNCHANGED storeVars
    /\ UNCHANGED outside

EnrollStep(r) ==
    \/ LockEnroll(r)
    \/ ReadKey(r) \/ NeedKey(r) \/ GenKey(r) \/ GenKeyFails(r)
    \/ CallEnroll(r) \/ EnrollFails(r)
    \/ WriteWGConf(r) \/ WriteWGConfFails(r) \/ EnableWG(r) \/ WgUp(r)
    \/ LoadTunnel(r) \/ SaveTunnel(r) \/ SaveSession(r)
=============================================================================
