------------------------- MODULE Sequential_proofs -------------------------
(***************************************************************************)
(* Proofs about a box that serves one request at a time, between crashes    *)
(* and reboots: the number is cached only when it is in state.json, and a   *)
(* reset whose commands succeed leaves nothing behind.  With two requests   *)
(* at a time neither holds: see MCAgentLostDID.cfg and MCAgentResetRace.cfg. *)
(***************************************************************************)
EXTENDS Sessions_proofs

OneRequest == \A q, r \in Requests : q = r

-----------------------------------------------------------------------------
(* What each place of a handler knows of what it has done so far.          *)

\* Save leaves templates to render only where the handler then waits for them.
RendersWhere(r) == todo[r] # {} => pc[r] \in {"enroll.session", "verify.cache", "answer"}

\* The session of a reply of ClawOps has no number.
Injects(r) ==
    /\ pc[r] \in Replied => sess[r].verified_number = Blank
    /\ pc[r] = "verify.save" => prov[r].did = arg[r]
    /\ pc[r] = "verify.cache" /\ (saved[r] # "failed" \/ todo[r] # {}) => state.did = arg[r]

\* The places of handleReset, in their order, from each removal on.
KeyLeft     == {"reset.key"}
SessionLeft == {"reset.verification"} \cup KeyLeft
StateLeft   == {"reset.state"} \cup SessionLeft
WGConfLeft  == {"reset.wgconf"} \cup StateLeft
EnableLeft  == {"reset.disable"} \cup WGConfLeft
PhonesLeft  == {"reset.phones"} \cup EnableLeft
ConfsLeft   == {"reset.list", "reset.confs"} \cup PhonesLeft

Erases(r) ==
    /\ pc[r] \in ConfsLeft => service = "inactive"
    /\ pc[r] = "reset.confs" => \A t \in Templates : conf[t] = Absent \/ t \in listed[r]
    /\ pc[r] \in PhonesLeft => \A t \in Templates : conf[t] = Absent
    /\ pc[r] = "reset.phones" => \A m \in Phones : "paired" \notin bt[m] \/ m \in listed[r]
    /\ pc[r] \in EnableLeft => (\A m \in Phones : "paired" \notin bt[m]) /\ iface = NoTunnel
    /\ pc[r] \in WGConfLeft => ~ wg_enabled
    /\ pc[r] \in StateLeft => wg_conf = NoTunnel
    /\ pc[r] \in SessionLeft => state = ZeroProvisioning
    /\ pc[r] \in KeyLeft => verification = NoSession

\* A command that fails is only noted, and a reset then knows nothing.
Knows(r) == RendersWhere(r) /\ Injects(r) /\ ("host" \notin Faults => Erases(r))

Known == \A r \in Requests : Knows(r)

LEMMA KnownInit == Init => Known
BY DEF Init, StoreInit, Known, Knows, RendersWhere, Injects, Erases, Replied, KeyLeft, SessionLeft,
   StateLeft, WGConfLeft, EnableLeft, PhonesLeft, ConfsLeft

LEMMA AloneShapes ==
    ASSUME Types
    PROVE  /\ pc \in [Requests -> PCs] /\ prov \in [Requests -> Provisionings]
           /\ sess \in [Requests -> VerificationStates] /\ todo \in [Requests -> SUBSET Templates]
           /\ saved \in [Requests -> {"none", "ok", "failed"}]
           /\ conf \in [Templates -> ConfContents] /\ state \in Provisionings
           /\ arg \in [Requests -> OrBlank(Phones \cup Keys \cup Numbers \cup {"wipe"})]
           /\ listed \in [Requests -> SUBSET (Templates \cup Phones)]
           /\ bt \in [Phones -> SUBSET {"known", "paired", "trusted"}]
BY DEF Types, StoreTypeOK, RequestsOK, OutsideOK

-----------------------------------------------------------------------------
(* The steps. *)

\* Most handlers go where nothing need be known, and render nothing.
Elsewhere == ({"idle", "answer", "reset.stop"} \cup PCs) \ (Replied \cup ConfsLeft \cup {"verify.save", "verify.cache"})

LEMMA GoesElsewhere ==
    ASSUME NEW r \in Requests, pc'[r] \in Elsewhere, RendersWhere(r)'
    PROVE  Knows(r)'
BY DEF Elsewhere, Knows, Injects, Erases, KeyLeft, SessionLeft, StateLeft, WGConfLeft, EnableLeft,
   PhonesLeft, ConfsLeft

LEMMA EnrollKnows ==
    ASSUME Types, Known, NEW r \in Requests, BeginEnroll(r) \/ EnrollStep(r)
    PROVE  Knows(r)'
<1> USE AloneShapes DEF Step, Goto
<1>1. Knows(r)
  BY DEF Known
<1>2. CASE \/ BeginEnroll(r) \/ LockEnroll(r) \/ ReadKey(r) \/ NeedKey(r) \/ GenKey(r)
           \/ GenKeyFails(r) \/ EnrollFails(r) \/ WriteWGConfFails(r)
  <2>1. pc'[r] \in {"enroll.lock", "enroll.key", "enroll.call", "enroll.genkey", "answer"}
    BY <1>2
    DEF BeginEnroll, LockEnroll, ReadKey, NeedKey, GenKey, GenKeyFails, EnrollFails, WriteWGConfFails
  <2>2. todo' = todo
    BY <1>2
    DEF BeginEnroll, LockEnroll, ReadKey, NeedKey, GenKey, GenKeyFails, EnrollFails,
        WriteWGConfFails, storeVars, locals
  <2>3. pc[r] \notin {"enroll.session", "verify.cache", "answer"}
    BY <1>2
    DEF BeginEnroll, LockEnroll, ReadKey, NeedKey, GenKey, GenKeyFails, EnrollFails, WriteWGConfFails
  <2>4. pc'[r] \in Elsewhere
    BY <2>1
    DEF Elsewhere, PCs, EnrollPCs, Replied, KeyLeft, SessionLeft, StateLeft, WGConfLeft, EnableLeft,
        PhonesLeft, ConfsLeft
  <2> QED
    BY <1>1, <2>2, <2>3, <2>4, GoesElsewhere DEF Knows, RendersWhere
<1>3. CASE CallEnroll(r) \/ WriteWGConf(r) \/ EnableWG(r) \/ WgUp(r) \/ LoadTunnel(r)
  <2>1. todo'[r] = {}
    BY <1>1, <1>3
    DEF CallEnroll, WriteWGConf, EnableWG, WgUp, LoadTunnel, LoadInto, Knows, RendersWhere, storeVars, locals
  <2>2. pc'[r] \in {"enroll.wgconf", "enroll.enable", "enroll.wgup", "enroll.load", "enroll.save"}
    BY <1>3 DEF CallEnroll, WriteWGConf, EnableWG, WgUp, LoadTunnel
  <2>3. sess'[r].verified_number = Blank
    BY <1>1, <1>3
    DEF CallEnroll, WriteWGConf, EnableWG, WgUp, LoadTunnel, LoadInto, Knows, Injects, Replied, storeVars, locals
  <2> QED
    BY <2>1, <2>2, <2>3
    DEF Knows, RendersWhere, Injects, Erases, KeyLeft, SessionLeft, StateLeft, WGConfLeft,
        EnableLeft, PhonesLeft, ConfsLeft
<1>4. CASE SaveTunnel(r)
  <2>1. pc'[r] = "enroll.session" /\ sess'[r].verified_number = Blank
    BY <1>1, <1>4 DEF SaveTunnel, Saving, Save, SaveFails, Knows, Injects, Replied
  <2> QED
    BY <2>1
    DEF Knows, RendersWhere, Injects, Erases, KeyLeft, SessionLeft, StateLeft, WGConfLeft,
        EnableLeft, PhonesLeft, ConfsLeft
<1>5. CASE SaveSession(r)
  <2>1. pc'[r] = "answer"
    BY <1>5 DEF SaveSession
  <2> QED
    BY <2>1, GoesElsewhere
    DEF RendersWhere, Elsewhere, Replied, KeyLeft, SessionLeft, StateLeft, WGConfLeft, EnableLeft,
        PhonesLeft, ConfsLeft
<1> QED
  BY <1>2, <1>3, <1>4, <1>5 DEF EnrollStep

LEMMA VerificationKnows ==
    ASSUME Types, Known, NEW r \in Requests,
           \/ BeginVerification(r) \/ Poll(r) \/ PollFails(r)
           \/ LoadDID(r) \/ SaveDID(r) \/ CacheVerified(r)
    PROVE  Knows(r)'
<1> USE AloneShapes DEF Step, Goto
<1>1. Knows(r)
  BY DEF Known
<1>2. CASE BeginVerification(r) \/ Poll(r) \/ PollFails(r) \/ CacheVerified(r)
  <2>1. pc'[r] \in {"verify.poll", "verify.load", "answer"}
    BY <1>2 DEF BeginVerification, Poll, PollFails, CacheVerified
  <2>2. todo'[r] = {}
    BY <1>1, <1>2
    DEF BeginVerification, LoadVerification, Poll, PollFails, CacheVerified, SavingVerification,
        SaveVerification, SaveVerificationFails, Knows, RendersWhere, storeVars, locals
  <2>3. pc'[r] \in Elsewhere
    BY <2>1
    DEF Elsewhere, PCs, Replied, KeyLeft, SessionLeft, StateLeft, WGConfLeft, EnableLeft,
        PhonesLeft, ConfsLeft
  <2> QED
    BY <2>2, <2>3, GoesElsewhere DEF RendersWhere
<1>3. CASE LoadDID(r)
  <2> DEFINE rec == [state EXCEPT !.did = arg[r]]
  <2>1. pc'[r] = "verify.save" /\ arg' = arg /\ todo'[r] = {} /\ prov'[r] = rec
    BY <1>1, <1>3 DEF LoadDID, LoadInto, Knows, RendersWhere
  <2>2. rec.did = arg[r]
    BY DEF Provisionings
  <2> HIDE DEF rec
  <2> QED
    BY <2>1, <2>2
    DEF Knows, RendersWhere, Injects, Erases, Replied, KeyLeft, SessionLeft, StateLeft, WGConfLeft,
        EnableLeft, PhonesLeft, ConfsLeft
<1>4. CASE SaveDID(r)
  <2>1. prov[r].did = arg[r] /\ pc'[r] = "verify.cache" /\ arg' = arg
    BY <1>1, <1>4 DEF SaveDID, Knows, Injects
  <2>2. \/ state' = prov[r]
        \/ saved'[r] = "failed" /\ todo'[r] = {}
    BY <1>4 DEF SaveDID, Saving, Save, SaveFails, Idle
  <2> QED
    BY <2>1, <2>2
    DEF Knows, RendersWhere, Injects, Erases, Replied, KeyLeft, SessionLeft, StateLeft, WGConfLeft,
        EnableLeft, PhonesLeft, ConfsLeft
<1> QED
  BY <1>2, <1>3, <1>4

LEMMA OtherHandlersKnow ==
    ASSUME Types, Known, NEW r \in Requests,
           \/ BeginPair(r) \/ Discover(r) \/ PairPhone(r) \/ CheckPaired(r) \/ Trust(r)
           \/ LoadLine(r) \/ SaveLine(r) \/ BeginConfigSave(r) \/ SaveConfig(r)
           \/ BeginReset(r) \/ Answer(r)
    PROVE  Knows(r)'
<1> USE AloneShapes DEF Step, Goto
<1>1. Knows(r)
  BY DEF Known
<1>2. pc'[r] \in {"idle", "answer", "pair.scan", "pair.pair", "pair.check", "pair.trust", "pair.load",
                  "pair.save", "config.save", "reset.stop"}
  BY DEF BeginPair, Discover, PairPhone, CheckPaired, Trust, LoadLine, SaveLine, BeginConfigSave,
         SaveConfig, BeginReset, Answer
<1>3. pc'[r] \in Elsewhere
  BY <1>2
  DEF Elsewhere, PCs, Replied, KeyLeft, SessionLeft, StateLeft, WGConfLeft, EnableLeft, PhonesLeft,
      ConfsLeft
<1>4. pc'[r] = "answer" \/ todo'[r] = {}
  BY <1>1
  DEF BeginPair, Discover, PairPhone, CheckPaired, Trust, LoadLine, LoadInto, SaveLine,
      BeginConfigSave, SaveConfig, BeginReset, Answer, Knows, RendersWhere, storeVars, locals
<1> QED
  BY <1>3, <1>4, GoesElsewhere DEF RendersWhere

\* Rendering changes no record, and a reset has nothing to render.
LEMMA RenderingKnows ==
    ASSUME Types, Known, NEW r \in Requests, Rendering(r)
    PROVE  Knows(r)'
<1> USE AloneShapes
<1>1. Knows(r) /\ todo[r] # {}
  BY DEF Known, Rendering, RenderNext, RenderFails
<1>2. /\ UNCHANGED <<pc, arg, state, prov, sess>>
      /\ todo'[r] \subseteq todo[r]
  BY DEF Rendering, RenderNext, RenderFails, requestVars
<1>3. pc[r] \in {"enroll.session", "verify.cache", "answer"}
  BY <1>1 DEF Knows, RendersWhere
<1> QED
  BY <1>1, <1>2, <1>3
  DEF Knows, RendersWhere, Injects, Erases, KeyLeft, SessionLeft, StateLeft, WGConfLeft, EnableLeft,
      PhonesLeft, ConfsLeft

\* Each removal adds itself to what is known, unless commands may fail.
LEMMA ResetKnows ==
    ASSUME Types, Known, NEW r \in Requests, ResetStep(r)
    PROVE  Knows(r)'
<1> USE AloneShapes DEF Step, Goto
<1> USE DEF Knows, RendersWhere, Injects, Erases, Replied, KeyLeft, SessionLeft, StateLeft, WGConfLeft,
            EnableLeft, PhonesLeft, ConfsLeft
<1>1. Knows(r)
  BY DEF Known
<1>2. CASE StopService(r) \/ ListConfs(r)
  BY <1>1, <1>2 DEF StopService, ListConfs, storeVars, files, locals, outside, wgVars
<1>3. CASE RemoveConf(r)
  BY <1>1, <1>3 DEF RemoveConf, locals, outside, wgVars
<1>4. CASE ListPhones(r) \/ RemovePhone(r)
  BY <1>1, <1>4 DEF ListPhones, RemovePhone, storeVars, files, locals, outside, wgVars
<1>5. CASE StopTunnel(r) \/ DisableTunnel(r) \/ RemoveWGConf(r)
  BY <1>1, <1>5 DEF StopTunnel, DisableTunnel, RemoveWGConf, storeVars, files, locals
<1>6. CASE RemoveState(r) \/ RemoveVerification(r) \/ RemoveKey(r)
  BY <1>1, <1>6 DEF RemoveState, RemoveVerification, RemoveKey, storeVars, files, locals, outside, wgVars
<1> QED
  BY <1>2, <1>3, <1>4, <1>5, <1>6 DEF ResetStep

\* Systemd starts nothing that has been stopped.
LEMMA OutsideKnows ==
    ASSUME Types, Known, NEW r \in Requests,
           \/ LoadForm \/ ServiceStarts \/ ClawOps \/ ServiceAction(r)
           \/ AgentRestarts \/ BoxReboots \/ UNCHANGED vars
    PROVE  Knows(r)'
<1> USE AloneShapes
<1> USE DEF Knows, RendersWhere, Injects, Erases, Replied, KeyLeft, SessionLeft, StateLeft, WGConfLeft,
            EnableLeft, PhonesLeft, ConfsLeft
<1>1. Knows(r)
  BY DEF Known
<1>2. CASE LoadForm \/ ServiceStarts \/ ClawOps \/ UNCHANGED vars
  BY <1>1, <1>2
  DEF LoadForm, ServiceStarts, ClawOps, Verifies, Expires, vars, storeVars, files, locals,
      requestVars, outside, wgVars
<1>3. CASE ServiceAction(r)
  BY <1>1, <1>3 DEF ServiceAction, storeVars, files, locals, requestVars, wgVars
<1>4. CASE AgentRestarts \/ BoxReboots
  BY <1>4 DEF AgentRestarts, BoxReboots, Dies, Forget
<1> QED
  BY <1>2, <1>3, <1>4

LEMMA KnownStep ==
    ASSUME OneRequest, Types, Known, [Next]_vars
    PROVE  Known'
<1> SUFFICES ASSUME NEW r \in Requests PROVE Knows(r)'
  BY DEF Known
<1>1. ASSUME NEW q \in Requests, Begin(q) PROVE Knows(r)'
  <2>1. q = r
    BY DEF OneRequest
  <2> QED
    BY <1>1, <2>1, EnrollKnows, VerificationKnows, OtherHandlersKnow, OutsideKnows DEF Begin
<1>2. ASSUME NEW q \in Requests, Proceed(q) PROVE Knows(r)'
  <2>1. q = r
    BY DEF OneRequest
  <2> QED
    BY <1>2, <2>1, EnrollKnows, VerificationKnows, OtherHandlersKnow, RenderingKnows, ResetKnows
    DEF Proceed, HandlerStep
<1>3. CASE LoadForm \/ ServiceStarts \/ ClawOps \/ AgentRestarts \/ BoxReboots \/ UNCHANGED vars
  BY <1>3, OutsideKnows
<1> QED
  BY <1>1, <1>2, <1>3 DEF Next

-----------------------------------------------------------------------------
LEMMA CachesInjected ==
    ASSUME OneRequest, Types, Known, [Next]_vars,
           verification'.verified_number \notin {Blank, verification.verified_number}
    PROVE  state.did = verification'.verified_number
<1> USE AloneShapes DEF Step, Goto
<1>1. ASSUME NEW r \in Requests, SaveSession(r) PROVE FALSE
  <2>1. sess[r].verified_number = Blank
    BY <1>1 DEF SaveSession, Known, Knows, Injects, Replied
  <2>2. verification' \in {verification, NoSession, sess[r]}
    BY <1>1
    DEF SaveSession, SavingVerification, SaveVerification, SaveVerificationFails, storeVars, files
  <2> QED
    BY <2>1, <2>2 DEF NoSession
<1>2. ASSUME NEW r \in Requests, CacheVerified(r) PROVE state.did = verification'.verified_number
  <2> DEFINE v == [sess[r] EXCEPT !.verified_number = arg[r]]
  <2>1. saved[r] = "ok" => state.did = arg[r]
    BY <1>2 DEF CacheVerified, Known, Knows, Injects
  <2>2. v.verified_number = arg[r]
    BY DEF VerificationStates
  <2>3. verification' \in {verification, NoSession} \/ (saved[r] = "ok" /\ verification' = v)
    BY <1>2
    DEF CacheVerified, SavingVerification, SaveVerification, SaveVerificationFails, storeVars, files
  <2> HIDE DEF v
  <2> QED
    BY <2>1, <2>2, <2>3 DEF NoSession
<1>3. CASE verification' \in {verification, NoSession}
  BY <1>3 DEF NoSession
<1> QED
  BY <1>1, <1>2, <1>3, VerificationMoves

\* With one request at a time the number is cached, and the polling ends, only
\* once it is in state.json (CachedAfterInjection), whatever fails and whenever
\* the agent dies between the two.
THEOREM InjectedBeforeCached ==
    ASSUME OneRequest
    PROVE  Spec => CachedAfterInjection
<1>1. Types /\ Known /\ [Next]_vars => (Types /\ Known)'
  BY TypesStep, KnownStep
<1>2. Types /\ Known /\ [Next]_vars =>
        [verification'.verified_number \notin {Blank, verification.verified_number}
            => state.did = verification'.verified_number]_vars
  BY CachesInjected
<1> QED
  BY TypesInit, KnownInit, <1>1, <1>2, PTL DEF Spec, CachedAfterInjection

LEMMA ResetEnds ==
    ASSUME OneRequest, "host" \notin Faults, Types, Known, [Next]_vars, NEW r \in Requests,
           pc[r] = "reset.key", pc'[r] = "answer"
    PROVE  RemoveKey(r)
<1> USE AloneShapes DEF Step, Goto
<1>1. ASSUME NEW q \in Requests, Begin(q) PROVE FALSE
  <2>1. q = r
    BY DEF OneRequest
  <2> QED
    BY <1>1, <2>1
    DEF Begin, BeginEnroll, BeginVerification, BeginPair, BeginConfigSave, ServiceAction, BeginReset
<1>2. ASSUME NEW q \in Requests, EnrollStep(q) PROVE FALSE
  <2>1. q = r
    BY DEF OneRequest
  <2> QED
    BY <1>2, <2>1
    DEF EnrollStep, LockEnroll, ReadKey, NeedKey, GenKey, GenKeyFails, CallEnroll, EnrollFails,
        WriteWGConf, WriteWGConfFails, EnableWG, WgUp, LoadTunnel, SaveTunnel, SaveSession
<1>3. ASSUME NEW q \in Requests, HandlerStep(q) PROVE FALSE
  <2>1. q = r
    BY DEF OneRequest
  <2> QED
    BY <1>3, <2>1
    DEF HandlerStep, Poll, PollFails, LoadDID, SaveDID, CacheVerified, Discover, PairPhone,
        CheckPaired, Trust, LoadLine, SaveLine, SaveConfig
<1>4. ASSUME NEW q \in Requests, ResetStep(q) PROVE RemoveKey(r)
  <2>1. q = r
    BY DEF OneRequest
  <2> QED
    BY <1>4, <2>1
    DEF ResetStep, StopService, ListConfs, RemoveConf, ListPhones, RemovePhone, StopTunnel,
        DisableTunnel, RemoveWGConf, RemoveState, RemoveVerification
<1>5. ASSUME NEW q \in Requests, Rendering(q) \/ Answer(q) PROVE FALSE
  <2>1. q = r
    BY DEF OneRequest
  <2> QED
    BY <1>5, <2>1 DEF Rendering, requestVars, Answer
<1>6. CASE LoadForm \/ ServiceStarts \/ ClawOps \/ AgentRestarts \/ BoxReboots \/ UNCHANGED vars
  BY <1>6
  DEF LoadForm, ServiceStarts, ClawOps, Verifies, Expires, AgentRestarts, BoxReboots, Dies, vars,
      requestVars
<1> QED
  BY <1>1, <1>2, <1>3, <1>4, <1>5, <1>6 DEF Next, Proceed

\* A reset that runs alone, and whose commands succeed, answers when nothing of
\* the previous owner is left (ResetErases): whatever was cut short before it,
\* and although systemd may have been about to start the service.
THEOREM ResetsErase ==
    ASSUME OneRequest, "host" \notin Faults
    PROVE  Spec => ResetErases
<1> DEFINE Done(r) ==
        pc[r] = "reset.key" /\ pc'[r] = "answer" =>
            /\ state' = ZeroProvisioning /\ verification' = NoSession
            /\ \A t \in Templates : conf'[t] = Absent
            /\ wg_conf' = NoTunnel /\ iface' = NoTunnel /\ ~ wg_enabled'
            /\ \A m \in Phones : "paired" \notin bt'[m]
            /\ service' = "inactive"
            /\ arg[r] = "wipe" => box_key' = Blank
<1>1. Types /\ Known /\ [Next]_vars => (Types /\ Known)'
  BY TypesStep, KnownStep
<1>2. Types /\ Known /\ [Next]_vars => [\A r \in Requests : Done(r)]_vars
  <2> SUFFICES ASSUME Types, Known, [Next]_vars, NEW r \in Requests,
                      pc[r] = "reset.key", pc'[r] = "answer"
               PROVE  Done(r)
    OBVIOUS
  <2>1. RemoveKey(r)
    BY ResetEnds
  <2>2. Erases(r)
    BY DEF Known, Knows
  <2> QED
    BY <2>1, <2>2
    DEF RemoveKey, Erases, KeyLeft, SessionLeft, StateLeft, WGConfLeft, EnableLeft, PhonesLeft,
        ConfsLeft, storeVars, files
<1> QED
  BY TypesInit, KnownInit, <1>1, <1>2, PTL DEF Spec, ResetErases
=============================================================================
