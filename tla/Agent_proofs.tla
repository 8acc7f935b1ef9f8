---------------------------- MODULE Agent_proofs ----------------------------
(***************************************************************************)
(* Proofs about the agent, for any requests, keys, phones, numbers,        *)
(* sessions, jobs and faults: the types of its variables, and the          *)
(* agreement between the key of the box and the tunnel ClawOps set up.     *)
(***************************************************************************)
EXTENDS Agent, Provisioning_proofs

-----------------------------------------------------------------------------
(* The operations of the store keep its variables in their types.          *)

LEMMA LoadIntoType ==
    ASSUME StoreTypeOK, NEW r \in Requests, NEW p \in Provisionings, LoadInto(r, p)
    PROVE  StoreTypeOK'
BY DEF LoadInto, StoreTypeOK, files

LEMMA LoadVerificationType ==
    ASSUME StoreTypeOK, NEW r \in Requests, LoadVerification(r)
    PROVE  StoreTypeOK'
BY DEF LoadVerification, StoreTypeOK, files

LEMMA SavingType ==
    ASSUME StoreTypeOK, NEW r \in Requests, Saving(r)
    PROVE  StoreTypeOK'
BY ZeroTypes DEF Saving, Save, SaveFails, StoreTypeOK

LEMMA SavingVerificationType ==
    ASSUME StoreTypeOK, NEW r \in Requests, NEW v \in VerificationStates,
           SavingVerification(r, v)
    PROVE  StoreTypeOK'
BY ZeroTypes DEF SavingVerification, SaveVerification, SaveVerificationFails, StoreTypeOK

LEMMA RenderingType ==
    ASSUME StoreTypeOK, NEW r \in Requests, Rendering(r)
    PROVE  StoreTypeOK'
<1> DEFINE t == FirstOf(todo[r])
<1>1. t \in Templates
  BY DEF FirstOf, Templates
<1>2. Rendered(t, prov[r]) \in ConfContents /\ Torn \in ConfContents
  BY <1>1, RenderedType DEF StoreTypeOK, ConfContents
<1>3. CASE RenderNext(r)
  BY <1>1, <1>2, <1>3 DEF RenderNext, StoreTypeOK
<1>4. CASE RenderFails(r)
  BY <1>1, <1>2, <1>4 DEF RenderFails, StoreTypeOK
<1> QED
  BY <1>3, <1>4 DEF Rendering

\* What a death leaves of the store.
LEMMA DiesStoreType == StoreTypeOK /\ Dies => StoreTypeOK'
<1> SUFFICES ASSUME StoreTypeOK, Dies PROVE StoreTypeOK'
  OBVIOUS
<1>1. /\ state' \in {state, ZeroProvisioning} /\ verification' \in {verification, NoSession}
      /\ conf' \in [Templates -> ConfContents]
  BY DEF Dies, files, TearState, TearVerification, TearConf, StoreTypeOK, ConfContents
<1> QED
  BY <1>1, ZeroTypes DEF Dies, Forget, StoreTypeOK

-----------------------------------------------------------------------------
(* The handler's own value is what its place in the handler says: types     *)
(* alone do not tell the key of an enrollment from the phone of a pairing.  *)

ArgOK ==
    \A r \in Requests :
        /\ pc[r] \in {"enroll.call", "enroll.wgconf", "enroll.enable", "enroll.wgup", "enroll.load"} =>
              arg[r] \in Keys
        /\ pc[r] = "verify.poll" => sess[r].nonce \in Nonces
        /\ pc[r] \in {"verify.load", "verify.save", "verify.cache"} => arg[r] \in Numbers
        /\ pc[r] \in {"pair.scan", "pair.pair", "pair.check", "pair.trust", "pair.load"} =>
              arg[r] \in Phones

RequestsOK ==
    /\ pc \in [Requests -> PCs]
    /\ arg \in [Requests -> OrBlank(Phones \cup Keys \cup Numbers \cup {"wipe"})]
    /\ listed \in [Requests -> SUBSET (Templates \cup Phones)]
    /\ enrollMu \in Requests \cup {Nobody}

TunnelOK ==
    /\ box_key \in OrBlank(Keys)
    /\ generated \in SUBSET Keys
    /\ wg_conf \in Tunnels
    /\ iface \in Tunnels
    /\ wg_enabled \in BOOLEAN

OutsideOK ==
    /\ bt \in [Phones -> SUBSET {"known", "paired", "trusted"}]
    /\ service \in {"inactive", "activating", "active"}
    /\ form \in Provisionings
    /\ registered \in SUBSET Keys
    /\ sessions \in [Nonces -> [status : Statuses, number : OrBlank(Numbers)]]

Types == StoreTypeOK /\ RequestsOK /\ TunnelOK /\ OutsideOK /\ ArgOK

LEMMA TypesGiveTypeOK == Types => TypeOK
BY DEF Types, TypeOK, RequestsOK, TunnelOK, OutsideOK

LEMMA NoTunnelType == NoTunnel \in Tunnels
BY DEF NoTunnel, Tunnels, OrBlank

LEMMA TypesInit == Init => Types
<1> SUFFICES ASSUME Init PROVE Types
  OBVIOUS
<1>1. StoreTypeOK
  BY ZeroTypes DEF Init, StoreInit, StoreTypeOK, ConfContents
<1>2. RequestsOK /\ ArgOK
  BY DEF Init, RequestsOK, ArgOK, PCs, OrBlank
<1>3. TunnelOK
  BY NoTunnelType DEF Init, TunnelOK, OrBlank
<1>4. OutsideOK
  BY ZeroTypes DEF Init, OutsideOK, OrBlank, Statuses
<1> QED
  BY <1>1, <1>2, <1>3, <1>4 DEF Types

-----------------------------------------------------------------------------
(* What a step leaves alone keeps its type. *)

LEMMA SameStore == StoreTypeOK /\ UNCHANGED storeVars => StoreTypeOK' /\ sess' = sess
BY DEF storeVars, files, locals, StoreTypeOK

LEMMA SameOutside ==
    TunnelOK /\ OutsideOK /\ UNCHANGED outside => TunnelOK' /\ OutsideOK'
BY DEF outside, wgVars, cloudVars, TunnelOK, OutsideOK

LEMMA SameRequests == RequestsOK /\ UNCHANGED requestVars => RequestsOK'
BY DEF requestVars, RequestsOK

-----------------------------------------------------------------------------
(* The steps of the handlers. *)

\* The record an enrollment saves.
LEMMA TunnelRecord ==
    ASSUME NEW p \in Provisionings, NEW k \in Keys
    PROVE  [p EXCEPT !.tunnel_ip = k, !.kamailio_ip = "kamailio"] \in Provisionings
BY DEF Provisionings, OrBlank

LEMMA DIDRecord ==
    ASSUME NEW p \in Provisionings, NEW n \in Numbers
    PROVE  [p EXCEPT !.did = n] \in Provisionings
BY DEF Provisionings, OrBlank

LEMMA LineRecord ==
    ASSUME NEW p \in Provisionings, NEW m \in Phones, NEW a \in OrBlank(Adapters),
           NEW port \in OrBlank(Phones)
    PROVE  [p EXCEPT !.phone_mac = m, !.adapter_mac = a, !.hfp_port = port] \in Provisionings
BY DEF Provisionings, OrBlank

LEMMA EnrollTypes ==
    ASSUME Types, NEW r \in Requests, BeginEnroll(r) \/ EnrollStep(r)
    PROVE  Types'
<1> USE DEF Types, Step, Goto
<1>1. CASE BeginEnroll(r)
  BY <1>1, SameStore, SameOutside DEF BeginEnroll, RequestsOK, ArgOK, PCs
<1>2. CASE LockEnroll(r)
  BY <1>2, SameStore, SameOutside DEF LockEnroll, RequestsOK, ArgOK, PCs, EnrollPCs
<1>3. CASE ReadKey(r)
  BY <1>3, SameStore, SameOutside DEF ReadKey, RequestsOK, TunnelOK, ArgOK, PCs, EnrollPCs, OrBlank
<1>4. CASE NeedKey(r)
  BY <1>4, SameStore, SameOutside DEF NeedKey, RequestsOK, ArgOK, PCs, EnrollPCs
<1>5. CASE GenKey(r)
  BY <1>5, SameStore
  DEF GenKey, RequestsOK, TunnelOK, OutsideOK, ArgOK, PCs, EnrollPCs, OrBlank, cloudVars
<1>6. CASE GenKeyFails(r)
  BY <1>6, SameStore, SameOutside DEF GenKeyFails, RequestsOK, ArgOK, PCs
<1>7. CASE CallEnroll(r)
  <2>1. PICK n \in NextNonces :
          /\ Enrolls(arg[r], n)
          /\ \E nonce \in {n, Blank} :
                sess' = [sess EXCEPT ![r] = [nonce |-> nonce, verified_number |-> Blank]]
    BY <1>7 DEF CallEnroll
  <2>2. n \in Nonces /\ arg[r] \in Keys
    BY <1>7 DEF NextNonces, CallEnroll, ArgOK
  <2>3. sess' \in [Requests -> VerificationStates]
    BY <2>1, <2>2 DEF StoreTypeOK, VerificationStates, OrBlank
  <2>4. StoreTypeOK'
    BY <1>7, <2>3 DEF CallEnroll, files, StoreTypeOK
  <2>5. OutsideOK'
    BY <1>7, <2>1, <2>2 DEF CallEnroll, Enrolls, OutsideOK, Statuses
  <2>6. TunnelOK'
    BY <1>7 DEF CallEnroll, wgVars, TunnelOK
  <2>7. RequestsOK'
    BY <1>7 DEF CallEnroll, RequestsOK, PCs, EnrollPCs
  <2>8. ArgOK'
    BY <1>7, <2>1, <2>2 DEF CallEnroll, ArgOK, RequestsOK, StoreTypeOK
  <2> QED
    BY <2>4, <2>5, <2>6, <2>7, <2>8
<1>8. CASE EnrollFails(r)
  <2>1. RequestsOK' /\ ArgOK'
    BY <1>8, SameStore DEF EnrollFails, RequestsOK, ArgOK, PCs
  <2>2. arg[r] \in Keys
    BY <1>8 DEF EnrollFails, ArgOK
  <2>3. OutsideOK'
    BY <1>8, <2>2 DEF EnrollFails, Enrolls, NextNonces, OutsideOK, Statuses, cloudVars
  <2>4. TunnelOK'
    BY <1>8 DEF EnrollFails, wgVars, TunnelOK
  <2> QED
    BY <1>8, <2>1, <2>3, <2>4, SameStore DEF EnrollFails
<1>9. CASE WriteWGConf(r) \/ WriteWGConfFails(r)
  <2>1. StoreTypeOK' /\ sess' = sess
    BY <1>9, SameStore DEF WriteWGConf, WriteWGConfFails
  <2>2. RequestsOK' /\ ArgOK'
    BY <1>9, <2>1 DEF WriteWGConf, WriteWGConfFails, RequestsOK, ArgOK, PCs, EnrollPCs
  <2>3. OutsideOK'
    BY <1>9 DEF WriteWGConf, WriteWGConfFails, OutsideOK, cloudVars
  <2>4. TunnelOK'
    BY <1>9, NoTunnelType DEF WriteWGConf, WriteWGConfFails, TunnelOK, ArgOK, Tunnels, OrBlank
  <2> QED
    BY <2>1, <2>2, <2>3, <2>4
<1>10. CASE EnableWG(r) \/ WgUp(r)
  <2>1. StoreTypeOK' /\ sess' = sess
    BY <1>10, SameStore DEF EnableWG, WgUp
  <2>2. RequestsOK' /\ ArgOK' /\ OutsideOK'
    BY <1>10, <2>1 DEF EnableWG, WgUp, RequestsOK, ArgOK, PCs, EnrollPCs, OutsideOK, cloudVars
  <2>3. TunnelOK'
    BY <1>10, NoTunnelType DEF EnableWG, WgUp, TunnelOK
  <2> QED
    BY <2>1, <2>2, <2>3
<1>11. CASE LoadTunnel(r)
  <2>1. StoreTypeOK'
    BY <1>11, TunnelRecord, LoadIntoType DEF LoadTunnel, ArgOK, StoreTypeOK
  <2> QED
    BY <1>11, <2>1, SameOutside
    DEF LoadTunnel, LoadInto, RequestsOK, ArgOK, PCs, EnrollPCs
<1>12. CASE SaveTunnel(r)
  BY <1>12, SavingType, SameOutside
  DEF SaveTunnel, Saving, Save, SaveFails, RequestsOK, ArgOK, PCs, EnrollPCs
<1>13. CASE SaveSession(r)
  <2>1. StoreTypeOK' /\ \A q \in Requests \ {r} : sess'[q] = sess[q]
    BY <1>13, SavingVerificationType, SameStore
    DEF SaveSession, SavingVerification, SaveVerification, SaveVerificationFails, StoreTypeOK
  <2> QED
    BY <1>13, <2>1, SameOutside DEF SaveSession, RequestsOK, ArgOK, PCs
<1> QED
  BY <1>1, <1>2, <1>3, <1>4, <1>5, <1>6, <1>7, <1>8, <1>9, <1>10, <1>11, <1>12, <1>13
  DEF EnrollStep

LEMMA HandlerTypes ==
    ASSUME Types, NEW r \in Requests,
           BeginVerification(r) \/ BeginPair(r) \/ BeginConfigSave(r) \/ HandlerStep(r)
    PROVE  Types'
<1> USE DEF Types, Step, Goto
<1>1. CASE BeginVerification(r)
  <2>1. StoreTypeOK' /\ sess' = [sess EXCEPT ![r] = verification]
    BY <1>1, LoadVerificationType DEF BeginVerification, LoadVerification
  <2>2. verification.nonce \in OrBlank(Nonces)
    BY DEF StoreTypeOK, VerificationStates
  <2> QED
    BY <1>1, <2>1, <2>2, SameOutside
    DEF BeginVerification, RequestsOK, ArgOK, PCs, StoreTypeOK, OrBlank
<1>2. CASE Poll(r)
  <2> DEFINE reply == sessions[sess[r].nonce]
  <2>1. reply.number \in OrBlank(Numbers)
    BY <1>2 DEF Poll, ArgOK, OutsideOK
  <2>2. RequestsOK' /\ ArgOK'
    <3>1. CASE reply.status = "verified" /\ reply.number # Blank
      BY <1>2, <2>1, <3>1, SameStore DEF Poll, RequestsOK, ArgOK, PCs, OrBlank
    <3>2. CASE ~ (reply.status = "verified" /\ reply.number # Blank)
      BY <1>2, <3>2, SameStore DEF Poll, RequestsOK, ArgOK, PCs
    <3> QED
      BY <3>1, <3>2
  <2> QED
    BY <1>2, <2>2, SameStore, SameOutside DEF Poll
<1>3. CASE PollFails(r)
  BY <1>3, SameStore, SameOutside DEF PollFails, RequestsOK, ArgOK, PCs
<1>4. CASE LoadDID(r)
  <2>1. StoreTypeOK'
    BY <1>4, DIDRecord, LoadIntoType DEF LoadDID, ArgOK, StoreTypeOK
  <2> QED
    BY <1>4, <2>1, SameOutside DEF LoadDID, LoadInto, RequestsOK, ArgOK, PCs
<1>5. CASE SaveDID(r) \/ SaveLine(r) \/ SaveConfig(r)
  BY <1>5, SavingType, SameOutside
  DEF SaveDID, SaveLine, SaveConfig, Saving, Save, SaveFails, RequestsOK, ArgOK, PCs
<1>6. CASE CacheVerified(r)
  <2>1. [sess[r] EXCEPT !.verified_number = arg[r]] \in VerificationStates
    BY <1>6 DEF CacheVerified, ArgOK, StoreTypeOK, VerificationStates, OrBlank
  <2>2. StoreTypeOK' /\ \A q \in Requests \ {r} : sess'[q] = sess[q]
    BY <1>6, <2>1, SavingVerificationType, SameStore
    DEF CacheVerified, SavingVerification, SaveVerification, SaveVerificationFails, StoreTypeOK
  <2> QED
    BY <1>6, <2>2, SameOutside DEF CacheVerified, RequestsOK, ArgOK, PCs
<1>7. CASE BeginPair(r)
  BY <1>7, SameStore, SameOutside DEF BeginPair, RequestsOK, ArgOK, PCs, OrBlank
<1>8. CASE Discover(r) \/ PairPhone(r) \/ Trust(r)
  <2>1. StoreTypeOK' /\ sess' = sess
    BY <1>8, SameStore DEF Discover, PairPhone, Trust
  <2>2. RequestsOK' /\ ArgOK'
    BY <1>8, <2>1 DEF Discover, PairPhone, Trust, RequestsOK, ArgOK, PCs
  <2>3. TunnelOK'
    BY <1>8 DEF Discover, PairPhone, Trust, wgVars, TunnelOK
  <2>4. bt' \in [Phones -> SUBSET {"known", "paired", "trusted"}]
    BY <1>8 DEF Discover, PairPhone, Trust, OutsideOK
  <2>5. OutsideOK'
    BY <1>8, <2>4 DEF Discover, PairPhone, Trust, OutsideOK, cloudVars
  <2> QED
    BY <2>1, <2>2, <2>3, <2>5
<1>9. CASE CheckPaired(r)
  BY <1>9, SameStore, SameOutside DEF CheckPaired, RequestsOK, ArgOK, PCs
<1>10. CASE LoadLine(r)
  <2>1. PICK adapter \in IF state.adapter_mac = Blank THEN OrBlank(Adapters) ELSE {state.adapter_mac},
             port \in {arg[r], state.hfp_port} :
             LoadInto(r, [state EXCEPT !.phone_mac = arg[r], !.adapter_mac = adapter,
                                       !.hfp_port = port])
    BY <1>10 DEF LoadLine
  <2>2. /\ state \in Provisionings /\ arg[r] \in Phones
        /\ adapter \in OrBlank(Adapters) /\ port \in OrBlank(Phones)
    BY <1>10, <2>1 DEF LoadLine, ArgOK, StoreTypeOK, Provisionings, OrBlank
  <2>3. StoreTypeOK'
    BY <2>1, <2>2, LineRecord, LoadIntoType
  <2>4. sess' = sess
    BY <2>1 DEF LoadInto
  <2> QED
    BY <1>10, <2>3, <2>4, SameOutside DEF LoadLine, RequestsOK, ArgOK, PCs
<1>11. CASE BeginConfigSave(r)
  <2>1. StoreTypeOK'
    BY <1>11 DEF BeginConfigSave, files, StoreTypeOK
  <2> QED
    BY <1>11, <2>1, SameOutside DEF BeginConfigSave, RequestsOK, ArgOK, PCs
<1> QED
  BY <1>1, <1>2, <1>3, <1>4, <1>5, <1>6, <1>7, <1>8, <1>9, <1>10, <1>11 DEF HandlerStep

LEMMA ResetTypes ==
    ASSUME Types, NEW r \in Requests, BeginReset(r) \/ ResetStep(r)
    PROVE  Types'
<1> USE DEF Types, Step, Goto
<1>1. CASE BeginReset(r)
  BY <1>1, SameStore, SameOutside DEF BeginReset, RequestsOK, ArgOK, PCs, OrBlank
<1>2. CASE ListConfs(r)
  BY <1>2, SameStore, SameOutside DEF ListConfs, RequestsOK, ArgOK, PCs
<1>3. CASE ListPhones(r)
  BY <1>3, SameStore, SameOutside DEF ListPhones, RequestsOK, ArgOK, PCs
<1>4. CASE RemoveConf(r)
  <2>1. conf' \in [Templates -> ConfContents]
    BY <1>4 DEF RemoveConf, StoreTypeOK, ConfContents
  <2>2. StoreTypeOK' /\ sess' = sess
    BY <1>4, <2>1 DEF RemoveConf, locals, StoreTypeOK
  <2>3. RequestsOK'
    BY <1>4 DEF RemoveConf, RequestsOK
  <2> QED
    BY <1>4, <2>2, <2>3, SameOutside DEF RemoveConf, ArgOK
<1>5. CASE RemoveState(r) \/ RemoveVerification(r)
  <2>1. StoreTypeOK' /\ sess' = sess
    BY <1>5, ZeroTypes DEF RemoveState, RemoveVerification, locals, StoreTypeOK
  <2> QED
    BY <1>5, <2>1, SameOutside DEF RemoveState, RemoveVerification, RequestsOK, ArgOK, PCs
<1>6. CASE RemovePhone(r)
  <2>1. StoreTypeOK' /\ sess' = sess
    BY <1>6, SameStore DEF RemovePhone
  <2>2. RequestsOK' /\ ArgOK'
    BY <1>6, <2>1 DEF RemovePhone, RequestsOK, ArgOK
  <2>3. TunnelOK' /\ OutsideOK'
    BY <1>6 DEF RemovePhone, wgVars, cloudVars, TunnelOK, OutsideOK
  <2> QED
    BY <2>1, <2>2, <2>3
<1>7. CASE \/ StopService(r) \/ StopTunnel(r) \/ DisableTunnel(r)
           \/ RemoveWGConf(r) \/ RemoveKey(r)
  <2>1. StoreTypeOK' /\ sess' = sess
    BY <1>7, SameStore DEF StopService, StopTunnel, DisableTunnel, RemoveWGConf, RemoveKey
  <2>2. RequestsOK' /\ ArgOK'
    BY <1>7, <2>1
    DEF StopService, StopTunnel, DisableTunnel, RemoveWGConf, RemoveKey, RequestsOK, ArgOK, PCs
  <2>3. TunnelOK'
    BY <1>7, NoTunnelType
    DEF StopService, StopTunnel, DisableTunnel, RemoveWGConf, RemoveKey, TunnelOK, wgVars, OrBlank
  <2>4. OutsideOK'
    BY <1>7
    DEF StopService, StopTunnel, DisableTunnel, RemoveWGConf, RemoveKey, OutsideOK, cloudVars
  <2> QED
    BY <2>1, <2>2, <2>3, <2>4
<1> QED
  BY <1>1, <1>2, <1>3, <1>4, <1>5, <1>6, <1>7 DEF ResetStep

\* The steps that no handler takes, and those every handler takes.
LEMMA OtherTypes ==
    ASSUME Types,
           \/ \E r \in Requests : ServiceAction(r) \/ Rendering(r) \/ Answer(r)
           \/ LoadForm \/ ServiceStarts \/ ClawOps \/ AgentRestarts \/ BoxReboots
    PROVE  Types'
<1> USE DEF Types
<1>1. ASSUME NEW r \in Requests, Rendering(r) PROVE Types'
  BY <1>1, RenderingType, SameRequests, SameOutside
  DEF Rendering, RenderNext, RenderFails, ArgOK, requestVars
<1>2. ASSUME NEW r \in Requests, Answer(r) PROVE Types'
  <2>1. StoreTypeOK' /\ \A q \in Requests \ {r} : sess'[q] = sess[q]
    BY <1>2, ZeroTypes DEF Answer, files, StoreTypeOK
  <2> QED
    BY <1>2, <2>1, SameOutside DEF Answer, Goto, RequestsOK, ArgOK, PCs, OrBlank
<1>3. CASE (\E r \in Requests : ServiceAction(r)) \/ ServiceStarts \/ LoadForm
  <2>1. StoreTypeOK' /\ RequestsOK' /\ ArgOK'
    BY <1>3, SameStore, SameRequests
    DEF ServiceAction, ServiceStarts, LoadForm, requestVars, ArgOK
  <2> QED
    BY <1>3, <2>1
    DEF ServiceAction, ServiceStarts, LoadForm, wgVars, cloudVars, TunnelOK, OutsideOK, StoreTypeOK
<1>4. CASE ClawOps
  <2>1. StoreTypeOK' /\ RequestsOK' /\ ArgOK'
    BY <1>4, SameStore, SameRequests DEF ClawOps, Verifies, Expires, requestVars, ArgOK
  <2>2. sessions' \in [Nonces -> [status : Statuses, number : OrBlank(Numbers)]]
    BY <1>4 DEF ClawOps, Verifies, Expires, OutsideOK, Statuses, OrBlank
  <2> QED
    BY <1>4, <2>1, <2>2 DEF ClawOps, Verifies, Expires, wgVars, TunnelOK, OutsideOK
<1>5. CASE AgentRestarts \/ BoxReboots
  <2>1. Dies
    BY <1>5 DEF AgentRestarts, BoxReboots
  <2>2. RequestsOK' /\ ArgOK'
    BY <2>1 DEF Dies, RequestsOK, ArgOK, PCs, OrBlank
  <2>3. wg_conf' \in Tunnels /\ UNCHANGED <<box_key, generated, wg_enabled>>
    BY <2>1, NoTunnelType DEF Dies, TunnelOK
  <2>4. TunnelOK'
    BY <1>5, <2>3, NoTunnelType DEF AgentRestarts, BoxReboots, TunnelOK
  <2>5. OutsideOK'
    BY <1>5, <2>1 DEF AgentRestarts, BoxReboots, Dies, cloudVars, OutsideOK
  <2> QED
    BY <2>1, <2>2, <2>4, <2>5, DiesStoreType
<1> QED
  BY <1>1, <1>2, <1>3, <1>4, <1>5

LEMMA TypesStep == Types /\ [Next]_vars => Types'
<1> SUFFICES ASSUME Types, [Next]_vars PROVE Types'
  OBVIOUS
<1>1. ASSUME NEW r \in Requests, Begin(r) PROVE Types'
  BY <1>1, EnrollTypes, HandlerTypes, ResetTypes, OtherTypes DEF Begin
<1>2. ASSUME NEW r \in Requests, Proceed(r) PROVE Types'
  BY <1>2, EnrollTypes, HandlerTypes, ResetTypes, OtherTypes DEF Proceed
<1>3. CASE LoadForm \/ ServiceStarts \/ ClawOps \/ AgentRestarts \/ BoxReboots
  BY <1>3, OtherTypes
<1>4. CASE UNCHANGED vars
  BY <1>4, SameStore, SameRequests, SameOutside DEF vars, Types, requestVars, ArgOK
<1> QED
  BY <1>1, <1>2, <1>3, <1>4 DEF Next

\* The variables of the agent have their types in every behaviour.
THEOREM TypeCorrect == Spec => []TypeOK
BY TypesInit, TypesStep, TypesGiveTypeOK, PTL DEF Spec

-----------------------------------------------------------------------------
(* The agreement of the keys.  It is not inductive: what makes it so is the *)
(* mutex, and what each place of handleEnroll knows of box.key while resets *)
(* may remove it at any time.                                              *)

\* Where handleEnroll relies on what it has read of box.key.
Relying == {"enroll.genkey", "enroll.call", "enroll.wgconf"}

KeyInv ==
    /\ \A r \in Requests :
          /\ pc[r] \in EnrollPCs => enrollMu = r
          /\ pc[r] = "enroll.genkey" => box_key = Blank
          /\ pc[r] \in {"enroll.call", "enroll.wgconf"} => box_key \in {arg[r], Blank}
          /\ pc[r] = "enroll.wgconf" => arg[r] \in registered
    /\ KeyAgreement

LEMMA KeyInvInit == Init => KeyInv
BY DEF Init, KeyInv, KeyAgreement, Agrees, EnrollPCs

\* What every step does but those that read or make a key, enroll it or
\* configure the tunnel with it: no request comes to rely on the key, and the
\* key and the tunnels stay or go.
Bystands ==
    /\ \A q \in Requests :
          pc'[q] \in EnrollPCs =>
              /\ pc[q] \in EnrollPCs
              /\ enrollMu' = enrollMu
              /\ pc'[q] \in Relying => pc'[q] = pc[q] /\ arg'[q] = arg[q]
    /\ box_key' \in {box_key, Blank}
    /\ wg_conf' \in {wg_conf, NoTunnel}
    /\ iface' \in {iface, wg_conf, NoTunnel}
    /\ registered \subseteq registered'
    /\ generated' = generated

LEMMA BystandsKeeps == KeyInv /\ Bystands => KeyInv'
<1> SUFFICES ASSUME KeyInv, Bystands PROVE KeyInv'
  OBVIOUS
<1>1. KeyAgreement'
  BY DEF KeyInv, Bystands, KeyAgreement, Agrees
<1>2. ASSUME NEW q \in Requests
      PROVE  /\ pc'[q] \in EnrollPCs => enrollMu' = q
             /\ pc'[q] = "enroll.genkey" => box_key' = Blank
             /\ pc'[q] \in {"enroll.call", "enroll.wgconf"} => box_key' \in {arg'[q], Blank}
             /\ pc'[q] = "enroll.wgconf" => arg'[q] \in registered'
  BY <1>2 DEF KeyInv, Bystands, Relying, EnrollPCs
<1> QED
  BY <1>1, <1>2 DEF KeyInv

\* The steps of handleEnroll.
LEMMA EnrollKeeps ==
    ASSUME Types, KeyInv, NEW r \in Requests, BeginEnroll(r) \/ EnrollStep(r)
    PROVE  KeyInv'
<1> USE DEF Step, Goto
<1>1. pc \in [Requests -> PCs] /\ arg \in [Requests -> OrBlank(Phones \cup Keys \cup Numbers \cup {"wipe"})]
  BY DEF Types, RequestsOK
<1>2. pc[r] \in EnrollPCs => \A q \in Requests \ {r} : pc[q] \notin EnrollPCs
  BY DEF KeyInv
<1>3. CASE \/ BeginEnroll(r) \/ GenKeyFails(r) \/ WriteWGConfFails(r) \/ EnableWG(r) \/ WgUp(r)
           \/ LoadTunnel(r) \/ SaveTunnel(r) \/ SaveSession(r)
  <2>1. Bystands
    BY <1>1, <1>3
    DEF BeginEnroll, GenKeyFails, WriteWGConfFails, EnableWG, WgUp, LoadTunnel, SaveTunnel, SaveSession,
        outside, wgVars, cloudVars, Bystands, Relying, EnrollPCs
  <2> QED
    BY <2>1, BystandsKeeps
<1>4. CASE EnrollFails(r)
  <2>1. Bystands
    BY <1>1, <1>4 DEF EnrollFails, Enrolls, wgVars, cloudVars, Bystands, Relying, EnrollPCs
  <2> QED
    BY <2>1, BystandsKeeps
<1>5. CASE LockEnroll(r)
  <2>1. \A q \in Requests : pc[q] \notin EnrollPCs
    BY <1>5, BoxAssumption DEF LockEnroll, KeyInv
  <2> QED
    BY <1>1, <1>5, <2>1
    DEF LockEnroll, KeyInv, KeyAgreement, Agrees, EnrollPCs, outside, wgVars, cloudVars
<1>6. CASE ReadKey(r) \/ NeedKey(r)
  <2>1. enrollMu = r /\ \A q \in Requests \ {r} : pc[q] \notin EnrollPCs
    BY <1>2, <1>6 DEF ReadKey, NeedKey, KeyInv, EnrollPCs
  <2> QED
    BY <1>1, <1>6, <2>1
    DEF ReadKey, NeedKey, KeyInv, KeyAgreement, Agrees, EnrollPCs, outside, wgVars, cloudVars
<1>7. CASE GenKey(r)
  <2>1. enrollMu = r /\ \A q \in Requests \ {r} : pc[q] \notin EnrollPCs
    BY <1>2, <1>7 DEF GenKey, KeyInv, EnrollPCs
  <2> QED
    BY <1>1, <1>7, <2>1 DEF GenKey, KeyInv, KeyAgreement, Agrees, EnrollPCs, cloudVars
<1>8. CASE CallEnroll(r)
  <2>1. enrollMu = r /\ \A q \in Requests \ {r} : pc[q] \notin EnrollPCs
    BY <1>2, <1>8 DEF CallEnroll, KeyInv, EnrollPCs
  <2>2. registered' = registered \cup {arg[r]}
    BY <1>8 DEF CallEnroll, Enrolls
  <2> QED
    BY <1>1, <1>8, <2>1, <2>2 DEF CallEnroll, KeyInv, KeyAgreement, Agrees, EnrollPCs, wgVars
<1>9. CASE WriteWGConf(r)
  <2>1. enrollMu = r /\ \A q \in Requests \ {r} : pc[q] \notin EnrollPCs
    BY <1>2, <1>9 DEF WriteWGConf, KeyInv, EnrollPCs
  <2>2. box_key = arg[r] /\ arg[r] \in registered
    BY <1>9 DEF WriteWGConf, KeyInv
  <2>3. Agrees(wg_conf') /\ Agrees(iface') /\ registered' = registered
    BY <1>9, <2>2 DEF WriteWGConf, KeyInv, KeyAgreement, Agrees, cloudVars
  <2> QED
    BY <1>1, <1>9, <2>1, <2>3 DEF WriteWGConf, KeyInv, KeyAgreement, Agrees, EnrollPCs
<1> QED
  BY <1>3, <1>4, <1>5, <1>6, <1>7, <1>8, <1>9 DEF EnrollStep

\* The other handlers, the resets among them, bystand.
LEMMA HandlersBystand ==
    ASSUME Types, KeyInv, NEW r \in Requests,
           \/ BeginVerification(r) \/ BeginPair(r) \/ BeginConfigSave(r) \/ BeginReset(r)
           \/ HandlerStep(r) \/ ResetStep(r)
           \/ Answer(r)
    PROVE  Bystands
<1> USE DEF Step, Goto
<1>1. pc \in [Requests -> PCs] /\ arg \in [Requests -> OrBlank(Phones \cup Keys \cup Numbers \cup {"wipe"})]
  BY DEF Types, RequestsOK
<1>2. CASE BeginVerification(r) \/ BeginPair(r) \/ BeginConfigSave(r) \/ BeginReset(r)
  BY <1>1, <1>2
  DEF BeginVerification, BeginPair, BeginConfigSave, BeginReset, outside, wgVars, cloudVars,
      Bystands, Relying, EnrollPCs
<1>3. CASE HandlerStep(r)
  BY <1>1, <1>3
  DEF HandlerStep, Poll, PollFails, LoadDID, SaveDID, CacheVerified, Discover, PairPhone,
      CheckPaired, Trust, LoadLine, SaveLine, SaveConfig, outside, wgVars, cloudVars,
      Bystands, Relying, EnrollPCs
<1>4. CASE ResetStep(r)
  BY <1>1, <1>4
  DEF ResetStep, StopService, ListConfs, RemoveConf, ListPhones, RemovePhone, StopTunnel,
      DisableTunnel, RemoveWGConf, RemoveState, RemoveVerification, RemoveKey, outside, wgVars,
      cloudVars, Bystands, Relying, EnrollPCs
<1>5. CASE Answer(r)
  BY <1>1, <1>5 DEF Answer, KeyInv, outside, wgVars, cloudVars, Bystands, Relying, EnrollPCs
<1> QED
  BY <1>2, <1>3, <1>4, <1>5

\* So do the steps that no handler takes, and a death.
LEMMA OthersBystand ==
    ASSUME Types, KeyInv,
           \/ \E r \in Requests : ServiceAction(r) \/ Rendering(r)
           \/ LoadForm \/ ServiceStarts \/ ClawOps \/ AgentRestarts \/ BoxReboots
           \/ UNCHANGED vars
    PROVE  Bystands
<1>1. CASE \/ \E r \in Requests : ServiceAction(r) \/ Rendering(r)
           \/ LoadForm \/ ServiceStarts \/ ClawOps \/ UNCHANGED vars
  BY <1>1
  DEF ServiceAction, Rendering, LoadForm, ServiceStarts, ClawOps, Verifies, Expires, vars,
      requestVars, outside, wgVars, cloudVars, Bystands
<1>2. CASE AgentRestarts \/ BoxReboots
  BY <1>2 DEF AgentRestarts, BoxReboots, Dies, cloudVars, Bystands, EnrollPCs
<1> QED
  BY <1>1, <1>2

LEMMA KeyInvStep == Types /\ KeyInv /\ [Next]_vars => KeyInv'
<1> SUFFICES ASSUME Types, KeyInv, [Next]_vars PROVE KeyInv'
  OBVIOUS
<1>1. ASSUME NEW r \in Requests, Begin(r) \/ Proceed(r) PROVE KeyInv'
  BY <1>1, EnrollKeeps, HandlersBystand, OthersBystand, BystandsKeeps DEF Begin, Proceed
<1>2. CASE \/ LoadForm \/ ServiceStarts \/ ClawOps \/ AgentRestarts \/ BoxReboots
           \/ UNCHANGED vars
  BY <1>2, OthersBystand, BystandsKeeps
<1> QED
  BY <1>1, <1>2 DEF Next

\* Every tunnel configuration the box has, on disk or running, joins its
\* private key to the address ClawOps assigned to that very key: enrollMu is
\* enough for it, whatever resets, crashes and failing commands interleave.
THEOREM KeysAgree == Spec => []KeyAgreement
<1>1. Types /\ KeyInv /\ [Next]_vars => (Types /\ KeyInv)'
  BY TypesStep, KeyInvStep
<1>2. KeyInv => KeyAgreement
  BY DEF KeyInv
<1> QED
  BY TypesInit, KeyInvInit, <1>1, <1>2, PTL DEF Spec

\* Only the generation of a key brings a new one, and it finds none.
LEMMA IdentityStep ==
    Types /\ KeyInv /\ [Next]_vars => [box_key # Blank => box_key' \in {box_key, Blank}]_vars
<1> SUFFICES ASSUME Types, KeyInv, [Next]_vars, box_key # Blank
             PROVE  box_key' \in {box_key, Blank}
  OBVIOUS
<1> USE DEF Step, Goto
<1>1. ASSUME NEW r \in Requests, BeginEnroll(r) \/ EnrollStep(r)
      PROVE  box_key' \in {box_key, Blank}
  BY <1>1
  DEF EnrollStep, BeginEnroll, LockEnroll, ReadKey, NeedKey, GenKey, GenKeyFails, CallEnroll,
      EnrollFails, WriteWGConf, WriteWGConfFails, EnableWG, WgUp, LoadTunnel, SaveTunnel, SaveSession,
      outside, wgVars, KeyInv
<1>2. ASSUME NEW r \in Requests, Begin(r) \/ Proceed(r)
      PROVE  box_key' \in {box_key, Blank}
  BY <1>1, <1>2, HandlersBystand, OthersBystand DEF Begin, Proceed, Bystands
<1>3. CASE \/ LoadForm \/ ServiceStarts \/ ClawOps \/ AgentRestarts \/ BoxReboots
           \/ UNCHANGED vars
  BY <1>3, OthersBystand DEF Bystands
<1> QED
  BY <1>2, <1>3 DEF Next

\* A usable key of the box is never replaced by another: enrollments reuse it,
\* and only a reset that is asked to wipe it removes it.
THEOREM Identity == Spec => IdentityStable
<1>1. Types /\ KeyInv /\ [Next]_vars => (Types /\ KeyInv)'
  BY TypesStep, KeyInvStep
<1>2. Types /\ KeyInv /\ [Next]_vars => [box_key # Blank => box_key' \in {box_key, Blank}]_vars
  BY IdentityStep
<1> QED
  BY TypesInit, KeyInvInit, <1>1, <1>2, PTL DEF Spec, IdentityStable

-----------------------------------------------------------------------------
(* The box is one gateway: Agent implements GatewayIdentity.               *)

\* A key that is registered, like the one on disk, is one the box has made.
KeysAreGenerated ==
    /\ box_key \in OrBlank(generated)
    /\ \A r \in Requests : pc[r] = "enroll.call" => arg[r] \in generated

LEMMA GeneratedStep ==
    ASSUME Types, KeyInv, KeysAreGenerated, [Next]_vars
    PROVE  KeysAreGenerated'
<1> USE DEF Step, Goto
<1>1. pc \in [Requests -> PCs] /\ arg \in [Requests -> OrBlank(Phones \cup Keys \cup Numbers \cup {"wipe"})]
  BY DEF Types, RequestsOK
<1>2. ASSUME Bystands PROVE KeysAreGenerated'
  BY <1>2 DEF Bystands, KeysAreGenerated, OrBlank, EnrollPCs, Relying
<1>3. ASSUME NEW r \in Requests, ReadKey(r) PROVE KeysAreGenerated'
  BY <1>1, <1>3 DEF ReadKey, outside, wgVars, KeysAreGenerated, OrBlank
<1>4. ASSUME NEW r \in Requests, GenKey(r) PROVE KeysAreGenerated'
  BY <1>1, <1>4 DEF GenKey, KeysAreGenerated, OrBlank
<1>5. ASSUME NEW r \in Requests,
             \/ BeginEnroll(r) \/ LockEnroll(r) \/ NeedKey(r) \/ GenKeyFails(r) \/ CallEnroll(r)
             \/ EnrollFails(r) \/ WriteWGConf(r) \/ WriteWGConfFails(r) \/ EnableWG(r) \/ WgUp(r)
             \/ LoadTunnel(r) \/ SaveTunnel(r) \/ SaveSession(r)
      PROVE  KeysAreGenerated'
  <2>1. UNCHANGED <<arg, box_key, generated>> /\ \A q \in Requests : pc'[q] = "enroll.call" => pc[q] = "enroll.call"
    BY <1>1, <1>5
    DEF BeginEnroll, LockEnroll, NeedKey, GenKeyFails, CallEnroll, EnrollFails, WriteWGConf,
        WriteWGConfFails, EnableWG, WgUp, LoadTunnel, SaveTunnel, SaveSession, outside, wgVars
  <2> QED
    BY <2>1 DEF KeysAreGenerated
<1>6. ASSUME NEW r \in Requests, Begin(r) \/ Proceed(r) PROVE KeysAreGenerated'
  BY <1>2, <1>3, <1>4, <1>5, <1>6, HandlersBystand, OthersBystand DEF Begin, Proceed, EnrollStep
<1>7. CASE \/ LoadForm \/ ServiceStarts \/ ClawOps \/ AgentRestarts \/ BoxReboots
           \/ UNCHANGED vars
  BY <1>2, <1>7, OthersBystand
<1> QED
  BY <1>6, <1>7 DEF Next

IdentityInv == Types /\ KeyInv /\ KeysAreGenerated

\* A step of an enrollment is a step of GatewayIdentity, or changes nothing of it.
LEMMA EnrollRefines ==
    ASSUME IdentityInv, NEW r \in Requests, BeginEnroll(r) \/ EnrollStep(r)
    PROVE  [BoxIdentity!Next]_(BoxIdentity!identity)
<1> USE DEF Step, Goto, BoxIdentity!identity, BoxIdentity!Next
<1>1. CASE \/ BeginEnroll(r) \/ LockEnroll(r) \/ ReadKey(r) \/ NeedKey(r) \/ GenKeyFails(r)
           \/ LoadTunnel(r) \/ SaveTunnel(r) \/ SaveSession(r)
  BY <1>1
  DEF BeginEnroll, LockEnroll, ReadKey, NeedKey, GenKeyFails, LoadTunnel, SaveTunnel, SaveSession,
      outside, wgVars, cloudVars
<1>2. CASE GenKey(r)
  <2>1. box_key = Blank
    BY <1>2 DEF GenKey, IdentityInv, KeyInv
  <2>2. BoxIdentity!Generate
    BY <1>2, <2>1 DEF GenKey, cloudVars, BoxIdentity!Generate
  <2> QED
    BY <2>2
<1>3. CASE CallEnroll(r) \/ EnrollFails(r)
  <2>1. arg[r] \in generated /\ box_key \in {arg[r], Blank}
    BY <1>3 DEF CallEnroll, EnrollFails, IdentityInv, KeysAreGenerated, KeyInv
  <2>2. UNCHANGED registered \/ registered' = registered \cup {arg[r]}
    BY <1>3 DEF CallEnroll, EnrollFails, Enrolls, cloudVars
  <2>3. UNCHANGED <<box_key, generated, wg_conf, iface>>
    BY <1>3 DEF CallEnroll, EnrollFails, wgVars
  <2>4. CASE UNCHANGED registered
    BY <2>3, <2>4
  <2>5. CASE registered' = registered \cup {arg[r]}
    BY <2>1, <2>3, <2>5 DEF BoxIdentity!Register
  <2> QED
    BY <2>2, <2>4, <2>5
<1>4. CASE WriteWGConf(r)
  <2>1. box_key = arg[r] /\ arg[r] \in registered
    BY <1>4 DEF WriteWGConf, IdentityInv, KeyInv
  <2>2. BoxIdentity!Configure
    BY <1>4, <2>1 DEF WriteWGConf, cloudVars, BoxIdentity!Configure, BoxIdentity!TunnelOf
  <2> QED
    BY <2>2
<1>5. CASE WriteWGConfFails(r) \/ EnableWG(r) \/ WgUp(r)
  <2>1. BoxIdentity!TunnelChanges
    BY <1>5
    DEF WriteWGConfFails, EnableWG, WgUp, cloudVars, NoTunnel, BoxIdentity!TunnelChanges,
        BoxIdentity!NoTunnel, BoxIdentity!TunnelOf
  <2> QED
    BY <2>1
<1> QED
  BY <1>1, <1>2, <1>3, <1>4, <1>5 DEF EnrollStep

\* So is every other step: what bystands only takes the key or the tunnel away,
\* and never both.
LEMMA OthersRefine ==
    ASSUME NEW r \in Requests,
           \/ BeginVerification(r) \/ BeginPair(r) \/ BeginConfigSave(r) \/ BeginReset(r)
           \/ HandlerStep(r) \/ ResetStep(r) \/ Answer(r)
    PROVE  [BoxIdentity!Next]_(BoxIdentity!identity)
<1> USE DEF Step, Goto, BoxIdentity!identity
<1>1. CASE \/ BeginVerification(r) \/ BeginPair(r) \/ BeginConfigSave(r) \/ BeginReset(r)
           \/ HandlerStep(r) \/ Answer(r)
  BY <1>1
  DEF BeginVerification, BeginPair, BeginConfigSave, BeginReset, HandlerStep, Poll, PollFails,
      LoadDID, SaveDID, CacheVerified, Discover, PairPhone, CheckPaired, Trust, LoadLine, SaveLine,
      SaveConfig, Answer, outside, wgVars, cloudVars
<1>2. CASE \/ StopService(r) \/ ListConfs(r) \/ RemoveConf(r) \/ ListPhones(r) \/ RemovePhone(r)
           \/ DisableTunnel(r) \/ RemoveState(r) \/ RemoveVerification(r)
  BY <1>2
  DEF StopService, ListConfs, RemoveConf, ListPhones, RemovePhone, DisableTunnel, RemoveState,
      RemoveVerification, outside, wgVars, cloudVars
<1>3. CASE StopTunnel(r) \/ RemoveWGConf(r)
  <2>1. BoxIdentity!TunnelChanges
    BY <1>3
    DEF StopTunnel, RemoveWGConf, cloudVars, NoTunnel, BoxIdentity!TunnelChanges,
        BoxIdentity!NoTunnel, BoxIdentity!TunnelOf
  <2> QED
    BY <2>1 DEF BoxIdentity!Next
<1>4. CASE RemoveKey(r)
  <2>1. BoxIdentity!Wipe \/ UNCHANGED BoxIdentity!identity
    BY <1>4 DEF RemoveKey, cloudVars, BoxIdentity!Wipe
  <2> QED
    BY <2>1 DEF BoxIdentity!Next
<1> QED
  BY <1>1, <1>2, <1>3, <1>4 DEF ResetStep

LEMMA IdentityRefines ==
    ASSUME IdentityInv, [Next]_vars
    PROVE  [BoxIdentity!Next]_(BoxIdentity!identity)
<1>1. CASE \/ \E r \in Requests : ServiceAction(r) \/ Rendering(r)
           \/ LoadForm \/ ServiceStarts \/ ClawOps \/ UNCHANGED vars
  BY <1>1
  DEF ServiceAction, Rendering, LoadForm, ServiceStarts, ClawOps, Verifies, Expires, vars, outside,
      wgVars, cloudVars, BoxIdentity!identity
<1>2. CASE AgentRestarts \/ BoxReboots
  <2>1. BoxIdentity!TunnelChanges
    BY <1>2
    DEF AgentRestarts, BoxReboots, Dies, cloudVars, NoTunnel, BoxIdentity!TunnelChanges,
        BoxIdentity!NoTunnel, BoxIdentity!TunnelOf
  <2> QED
    BY <2>1 DEF BoxIdentity!Next
<1>3. ASSUME NEW r \in Requests, Begin(r) \/ Proceed(r)
      PROVE  [BoxIdentity!Next]_(BoxIdentity!identity)
  BY <1>1, <1>3, EnrollRefines, OthersRefine DEF Begin, Proceed
<1> QED
  BY <1>1, <1>2, <1>3 DEF Next

\* However enrollments, resets, faults and deaths interleave, the agent keeps to
\* GatewayIdentity: it never registers a second key while the box has one, and
\* never configures the tunnel with a key that is not the registered one on disk.
THEOREM OneGateway == Spec => KeepsIdentity
<1>1. Init => IdentityInv /\ BoxIdentity!Init
  BY TypesInit, KeyInvInit
  DEF Init, IdentityInv, KeysAreGenerated, OrBlank, NoTunnel, BoxIdentity!Init,
      BoxIdentity!NoTunnel, BoxIdentity!TunnelOf
<1>2. IdentityInv /\ [Next]_vars => IdentityInv'
  BY TypesStep, KeyInvStep, GeneratedStep DEF IdentityInv
<1>3. IdentityInv /\ [Next]_vars => [BoxIdentity!Next]_(BoxIdentity!identity)
  BY IdentityRefines
<1> QED
  BY <1>1, <1>2, <1>3, PTL DEF Spec, KeepsIdentity, BoxIdentity!Spec

-----------------------------------------------------------------------------
(* The two mutexes.  What a request leaves behind when it answers or dies, *)
(* and what it may hold while it waits for the other mutex.                *)

\* A step of request r alone that takes no mutex and gives none back.
Walks(r) ==
    /\ todo[r] = {}
    /\ UNCHANGED <<todo, enrollMu>>
    /\ \A q \in Requests \ {r} : pc'[q] = pc[q]
    /\ pc'[r] \in EnrollPCs => pc[r] \in EnrollPCs
    /\ pc[r] \in EnrollPCs => pc'[r] \in EnrollPCs \cup {"answer"}
    /\ pc[r] # "answer"

LEMMA WalksKeep ==
    ASSUME LockOrder, NEW r \in Requests, Walks(r)
    PROVE  LockOrder'
BY DEF LockOrder, Walks

\* A step that moves no request and leaves no template to render that was not.
LEMMA StandsKeep ==
    ASSUME LockOrder, UNCHANGED <<pc, enrollMu>>, \A r \in Requests : todo'[r] # {} => todo[r] # {}
    PROVE  LockOrder'
BY DEF LockOrder

\* Save begins when nobody renders.
LEMMA SavingStands ==
    ASSUME Types, LockOrder, NEW r \in Requests, Saving(r), UNCHANGED enrollMu,
           \/ Goto(r, "enroll.save", "enroll.session")
           \/ Goto(r, "verify.save", "verify.cache")
           \/ Goto(r, "pair.save", "answer")
           \/ Goto(r, "config.save", "answer")
    PROVE  LockOrder'
<1>1. /\ \A q \in Requests : todo[q] = {}
      /\ \A q \in Requests \ {r} : todo'[q] = {}
  BY DEF Saving, Save, SaveFails, Idle, Types, StoreTypeOK
<1>2. /\ pc'[r] \in {"enroll.session", "verify.cache", "answer"}
      /\ \A q \in Requests \ {r} : pc'[q] = pc[q]
      /\ pc'[r] \in EnrollPCs <=> pc[r] \in EnrollPCs
      /\ pc[r] # "answer"
  BY DEF Goto, Types, RequestsOK, EnrollPCs
<1> QED
  BY <1>1, <1>2 DEF LockOrder

LEMMA LockOrderEnroll ==
    ASSUME Types, LockOrder, NEW r \in Requests, BeginEnroll(r) \/ EnrollStep(r)
    PROVE  LockOrder'
<1> USE DEF Step, Goto
<1>1. pc \in [Requests -> PCs]
  BY DEF Types, RequestsOK
<1>2. CASE \/ BeginEnroll(r) \/ ReadKey(r) \/ NeedKey(r) \/ GenKey(r) \/ GenKeyFails(r)
           \/ WriteWGConf(r) \/ WriteWGConfFails(r) \/ EnableWG(r) \/ WgUp(r)
  <2>1. Walks(r)
    BY <1>1, <1>2
    DEF BeginEnroll, ReadKey, NeedKey, GenKey, GenKeyFails, WriteWGConf, WriteWGConfFails, EnableWG, WgUp,
        storeVars, locals, Walks, LockOrder, EnrollPCs
  <2> QED
    BY <2>1, WalksKeep
<1>3. CASE CallEnroll(r) \/ EnrollFails(r) \/ LoadTunnel(r)
  <2>1. Walks(r)
    BY <1>1, <1>3
    DEF CallEnroll, EnrollFails, LoadTunnel, LoadInto, Idle, storeVars, locals, Walks, LockOrder, EnrollPCs
  <2> QED
    BY <2>1, WalksKeep
<1>4. CASE LockEnroll(r)
  <2>1. \A q \in Requests : pc[q] \notin EnrollPCs
    BY <1>4, BoxAssumption DEF LockEnroll, LockOrder
  <2> QED
    BY <1>1, <1>4, <2>1 DEF LockEnroll, storeVars, locals, LockOrder, EnrollPCs
<1>5. CASE SaveTunnel(r)
  BY <1>5, SavingStands DEF SaveTunnel
<1>6. CASE SaveSession(r)
  <2>1. Walks(r)
    BY <1>1, <1>6
    DEF SaveSession, SavingVerification, SaveVerification, SaveVerificationFails, storeVars, locals,
        Walks, EnrollPCs
  <2> QED
    BY <2>1, WalksKeep
<1> QED
  BY <1>2, <1>3, <1>4, <1>5, <1>6 DEF EnrollStep

LEMMA LockOrderHandlers ==
    ASSUME Types, LockOrder, NEW r \in Requests,
           \/ BeginVerification(r) \/ BeginPair(r) \/ BeginConfigSave(r) \/ BeginReset(r)
           \/ HandlerStep(r)
    PROVE  LockOrder'
<1> USE DEF Step, Goto
<1>1. pc \in [Requests -> PCs]
  BY DEF Types, RequestsOK
<1>2. CASE SaveDID(r) \/ SaveLine(r) \/ SaveConfig(r)
  BY <1>2, SavingStands DEF SaveDID, SaveLine, SaveConfig
<1>3. CASE BeginVerification(r) \/ BeginPair(r) \/ BeginConfigSave(r) \/ BeginReset(r)
  <2>1. Walks(r)
    BY <1>1, <1>3
    DEF BeginVerification, LoadVerification, BeginPair, BeginConfigSave, BeginReset, storeVars,
        locals, Walks, LockOrder, EnrollPCs
  <2> QED
    BY <2>1, WalksKeep
<1>4. CASE Poll(r) \/ PollFails(r) \/ LoadDID(r) \/ CacheVerified(r)
  <2>1. Walks(r)
    BY <1>1, <1>4
    DEF Poll, PollFails, LoadDID, LoadInto, CacheVerified, SavingVerification, SaveVerification,
        SaveVerificationFails, storeVars, locals, Walks, LockOrder, EnrollPCs
  <2> QED
    BY <2>1, WalksKeep
<1>5. CASE Discover(r) \/ PairPhone(r) \/ CheckPaired(r) \/ Trust(r) \/ LoadLine(r)
  <2>1. Walks(r)
    BY <1>1, <1>5
    DEF Discover, PairPhone, CheckPaired, Trust, LoadLine, LoadInto, storeVars, locals, Walks,
        LockOrder, EnrollPCs
  <2> QED
    BY <2>1, WalksKeep
<1> QED
  BY <1>2, <1>3, <1>4, <1>5 DEF HandlerStep

LEMMA LockOrderReset ==
    ASSUME Types, LockOrder, NEW r \in Requests, ResetStep(r)
    PROVE  LockOrder'
<1> USE DEF Step, Goto
<1>1. pc \in [Requests -> PCs]
  BY DEF Types, RequestsOK
<1>2. Walks(r)
  BY <1>1
  DEF ResetStep, StopService, ListConfs, RemoveConf, ListPhones, RemovePhone, StopTunnel,
      DisableTunnel, RemoveWGConf, RemoveState, RemoveVerification, RemoveKey, storeVars, locals,
      Walks, LockOrder, EnrollPCs
<1> QED
  BY <1>2, WalksKeep

LEMMA LockOrderStep == Types /\ LockOrder /\ [Next]_vars => LockOrder'
<1> SUFFICES ASSUME Types, LockOrder, [Next]_vars PROVE LockOrder'
  OBVIOUS
<1>1. ASSUME NEW r \in Requests, Rendering(r) PROVE LockOrder'
  <2>1. \A q \in Requests : todo'[q] # {} => todo[q] # {}
    BY <1>1 DEF Rendering, RenderNext, RenderFails, Types, StoreTypeOK
  <2> QED
    BY <1>1, <2>1, StandsKeep DEF Rendering, requestVars
<1>2. ASSUME NEW r \in Requests, Answer(r) PROVE LockOrder'
  <2>1. /\ pc' = [pc EXCEPT ![r] = "idle"] /\ pc[r] = "answer" /\ pc \in [Requests -> PCs]
        /\ enrollMu' = (IF enrollMu = r THEN Nobody ELSE enrollMu)
        /\ todo[r] = {} /\ UNCHANGED todo
    BY <1>2 DEF Answer, Goto, Types, RequestsOK
  <2> QED
    BY <2>1, BoxAssumption DEF LockOrder, EnrollPCs
<1>3. CASE \/ \E r \in Requests : ServiceAction(r)
           \/ LoadForm \/ ServiceStarts \/ ClawOps \/ UNCHANGED vars
  BY <1>3, StandsKeep
  DEF ServiceAction, LoadForm, ServiceStarts, ClawOps, Verifies, Expires, vars, requestVars,
      storeVars, locals
<1>4. CASE AgentRestarts \/ BoxReboots
  BY <1>4, BoxAssumption DEF AgentRestarts, BoxReboots, Dies, Forget, LockOrder, EnrollPCs
<1> QED
  BY <1>1, <1>2, <1>3, <1>4, LockOrderEnroll, LockOrderHandlers, LockOrderReset
  DEF Next, Begin, Proceed

\* The two mutexes of the agent are taken in one order, and whoever holds one has
\* its release ahead: no set of requests can wait for one another, whatever
\* handlers, faults and deaths there are.
THEOREM LocksAreOrdered == Spec => []LockOrder
<1>1. Init => LockOrder
  BY BoxAssumption DEF Init, StoreInit, LockOrder, EnrollPCs
<1>2. Types /\ LockOrder /\ [Next]_vars => (Types /\ LockOrder)'
  BY TypesStep, LockOrderStep
<1> QED
  BY TypesInit, <1>1, <1>2, PTL DEF Spec
=============================================================================
