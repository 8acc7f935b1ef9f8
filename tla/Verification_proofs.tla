------------------------- MODULE Verification_proofs -------------------------
(***************************************************************************)
(* Proofs about the number of the gateway, for any requests, numbers,      *)
(* sessions, jobs and faults: none that ClawOps has not verified is ever   *)
(* stored, rendered or cached, and none is cached with another session.    *)
(***************************************************************************)
EXTENDS Agent_proofs

-----------------------------------------------------------------------------
(* The invariant follows the number from ClawOps to the dialplan, through   *)
(* the locals of the handlers, the record, the form and the templates.     *)

Verified == {num \in Numbers : \E n \in Nonces : sessions[n] = [status |-> "verified", number |-> num]}

\* The session that a handler holds or that is stored names its own number.
Good(v) ==
    v.verified_number # Blank =>
        /\ v.nonce \in Nonces
        /\ sessions[v.nonce] = [status |-> "verified", number |-> v.verified_number]

\* Where handleVerification has the number ClawOps answered with.
Answering == {"verify.load", "verify.save", "verify.cache"}

\* Where a handler waits for the Save that renders.
Waiting == {"enroll.session", "verify.cache", "answer"}

NumberOf(r) ==
    /\ sess[r].nonce \in Nonces
    /\ sessions[sess[r].nonce] = [status |-> "verified", number |-> arg[r]]

RecordsOK ==
    /\ state.did \in OrBlank(Verified)
    /\ form.did \in OrBlank(Verified)
    /\ \A r \in Requests : prov[r].did \in OrBlank(Verified)

SessionsOK ==
    /\ Good(verification)
    /\ \A r \in Requests : Good(sess[r]) /\ (pc[r] \in Answering => NumberOf(r))

DialplanOK ==
    conf["extensions.conf"].kind = "rendered" =>
        conf["extensions.conf"].values["did"] \in Verified

RenderingOK ==
    \A r \in Requests : todo[r] # {} => pc[r] \in Waiting /\ Complete(prov[r])

NumberInv == RecordsOK /\ SessionsOK /\ DialplanOK /\ RenderingOK

LEMMA NumberInvInit == Init => NumberInv
BY DEF Init, StoreInit, NumberInv, RecordsOK, SessionsOK, DialplanOK, RenderingOK, Good, Answering,
   ZeroProvisioning, NoSession, Sample, Templates, OrBlank

-----------------------------------------------------------------------------
(* A session that ClawOps has verified stays as it is. *)

Settled == \A n \in Nonces : sessions[n].status = "verified" => sessions'[n] = sessions[n]

LEMMA SettledStep == Types /\ [Next]_vars => Settled
<1> SUFFICES ASSUME Types, [Next]_vars PROVE Settled
  OBVIOUS
<1> USE DEF Settled
<1>1. sessions \in [Nonces -> [status : Statuses, number : OrBlank(Numbers)]]
  BY DEF Types, OutsideOK
<1>2. ASSUME NEW r \in Requests, Begin(r) PROVE Settled
  BY <1>2
  DEF Begin, BeginEnroll, BeginVerification, BeginPair, BeginConfigSave, ServiceAction, BeginReset,
      outside, cloudVars
<1>3. ASSUME NEW r \in Requests, CallEnroll(r) \/ EnrollFails(r) PROVE Settled
  BY <1>1, <1>3 DEF CallEnroll, EnrollFails, Enrolls, NextNonces, cloudVars
<1>4. ASSUME NEW r \in Requests, EnrollStep(r), ~ CallEnroll(r), ~ EnrollFails(r) PROVE Settled
  BY <1>4
  DEF EnrollStep, LockEnroll, ReadKey, NeedKey, GenKey, GenKeyFails, WriteWGConf,
      WriteWGConfFails, EnableWG, WgUp, LoadTunnel, SaveTunnel, SaveSession, outside, cloudVars
<1>5. ASSUME NEW r \in Requests, HandlerStep(r) PROVE Settled
  BY <1>5
  DEF HandlerStep, Poll, PollFails, LoadDID, SaveDID, CacheVerified, Discover, PairPhone,
      CheckPaired, Trust, LoadLine, SaveLine, SaveConfig, outside, cloudVars
<1>6. ASSUME NEW r \in Requests, ResetStep(r) PROVE Settled
  BY <1>6
  DEF ResetStep, StopService, ListConfs, RemoveConf, ListPhones, RemovePhone, StopTunnel,
      DisableTunnel, RemoveWGConf, RemoveState, RemoveVerification, RemoveKey, outside, cloudVars
<1>7. ASSUME NEW r \in Requests, Rendering(r) \/ Answer(r) PROVE Settled
  BY <1>7 DEF Rendering, Answer, outside, cloudVars
<1>8. CASE ClawOps
  BY <1>1, <1>8 DEF ClawOps, Verifies, Expires
<1>9. CASE LoadForm \/ ServiceStarts \/ AgentRestarts \/ BoxReboots \/ UNCHANGED vars
  BY <1>9 DEF LoadForm, ServiceStarts, AgentRestarts, BoxReboots, Dies, vars, outside, cloudVars
<1> QED
  BY <1>2, <1>3, <1>4, <1>5, <1>6, <1>7, <1>8, <1>9 DEF Next, Proceed

-----------------------------------------------------------------------------
(* What every step does but the few that bring a number in: the number goes *)
(* from one place to another, or away.                                     *)

Moves ==
    /\ state'.did \in {state.did, Blank} \cup {prov[q].did : q \in Requests}
    /\ form'.did \in {form.did, state.did}
    /\ \A q \in Requests : prov'[q].did \in {prov[q].did, state.did, form.did, Blank}
    /\ verification' \in {verification, NoSession} \cup {sess[q] : q \in Requests}
    /\ \A q \in Requests :
          \/ sess'[q] \in {sess[q], verification, NoSession}
          \/ sess'[q].verified_number = Blank
    /\ \A q \in Requests : pc'[q] \in Answering =>
          pc[q] \in Answering /\ arg'[q] = arg[q] /\ sess'[q] = sess[q]

LEMMA MovesKeep == Settled /\ RecordsOK /\ SessionsOK /\ Moves => RecordsOK' /\ SessionsOK'
<1> SUFFICES ASSUME Settled, RecordsOK, SessionsOK, Moves PROVE RecordsOK' /\ SessionsOK'
  OBVIOUS
<1>1. \A x \in OrBlank(Verified) : x \in OrBlank(Verified')
  BY DEF Settled, Verified, OrBlank
<1>2. RecordsOK'
  BY <1>1 DEF RecordsOK, Moves, OrBlank
<1>3. \A v : Good(v) =>
        (v.verified_number # Blank =>
            /\ v.nonce \in Nonces
            /\ sessions'[v.nonce] = [status |-> "verified", number |-> v.verified_number])
  BY DEF Settled, Good
<1>4. Good(NoSession)
  BY DEF Good, NoSession
<1>5. Good(verification)'
  BY <1>3, <1>4 DEF SessionsOK, Moves, Good
<1>6. \A r \in Requests : Good(sess[r])'
  BY <1>3, <1>4 DEF SessionsOK, Moves, Good
<1>7. ASSUME NEW r \in Requests, pc'[r] \in Answering PROVE NumberOf(r)'
  BY <1>7 DEF SessionsOK, Moves, NumberOf, Settled
<1> QED
  BY <1>2, <1>5, <1>6, <1>7 DEF SessionsOK

\* What every step does but the ones that render, and a Save that will.
Unrendered ==
    /\ conf'["extensions.conf"] = conf["extensions.conf"]
          \/ conf'["extensions.conf"].kind # "rendered"
    /\ \A q \in Requests : todo'[q] # {} =>
          todo[q] # {} /\ pc'[q] = pc[q] /\ prov'[q] = prov[q]

LEMMA UnrenderedKeeps ==
    Settled /\ DialplanOK /\ RenderingOK /\ Unrendered => DialplanOK' /\ RenderingOK'
BY DEF Settled, DialplanOK, RenderingOK, Unrendered, Verified
-----------------------------------------------------------------------------
(* The steps of the handlers. *)

LEMMA Shapes ==
    ASSUME Types
    PROVE  /\ pc \in [Requests -> PCs] /\ prov \in [Requests -> Provisionings]
           /\ sess \in [Requests -> VerificationStates] /\ todo \in [Requests -> SUBSET Templates]
           /\ conf \in [Templates -> ConfContents] /\ state \in Provisionings
           /\ arg \in [Requests -> OrBlank(Phones \cup Keys \cup Numbers \cup {"wipe"})]
           /\ "extensions.conf" \in Templates
BY DEF Types, StoreTypeOK, RequestsOK, Templates

\* Save writes the record of the handler, and is to render it if it is complete.
LEMMA SavingKeeps ==
    ASSUME Types, NumberInv, Settled, NEW r \in Requests, NEW from, NEW to \in Waiting,
           Step(r, from, to), to = "verify.cache" => from = "verify.save", Saving(r),
           UNCHANGED outside
    PROVE  NumberInv'
<1> USE Shapes
<1>1. Moves
  BY DEF Step, Goto, Saving, Save, SaveFails, outside, Waiting, Answering, Moves, ZeroProvisioning
<1>2. UNCHANGED conf /\ UNCHANGED prov
  BY DEF Saving, Save, SaveFails
<1>3. DialplanOK'
  BY <1>2 DEF NumberInv, DialplanOK, Settled, Verified
<1>4. \A q \in Requests : todo'[q] # {} => q = r /\ Complete(prov[r])
  BY DEF Saving, Save, SaveFails, Idle
<1>5. RenderingOK'
  BY <1>2, <1>4 DEF RenderingOK, Step, Goto
<1> QED
  BY <1>1, <1>3, <1>5, MovesKeep DEF NumberInv

LEMMA EnrollNumbers ==
    ASSUME Types, NumberInv, Settled, NEW r \in Requests, BeginEnroll(r) \/ EnrollStep(r)
    PROVE  NumberInv'
<1> USE Shapes DEF Step, Goto
<1>1. CASE SaveTunnel(r)
  BY <1>1, SavingKeeps DEF SaveTunnel, Waiting
<1>2. CASE \/ BeginEnroll(r) \/ LockEnroll(r) \/ ReadKey(r) \/ NeedKey(r) \/ GenKey(r)
           \/ GenKeyFails(r) \/ EnrollFails(r) \/ WriteWGConf(r) \/ WriteWGConfFails(r) \/ EnableWG(r) \/ WgUp(r)
  <2>1. Moves
    BY <1>2
    DEF BeginEnroll, LockEnroll, ReadKey, NeedKey, GenKey, GenKeyFails, EnrollFails, WriteWGConf,
        WriteWGConfFails, EnableWG, WgUp, storeVars, files, locals, outside, Moves, Answering
  <2>2. Unrendered
    BY <1>2
    DEF BeginEnroll, LockEnroll, ReadKey, NeedKey, GenKey, GenKeyFails, EnrollFails, WriteWGConf,
        WriteWGConfFails, EnableWG, WgUp, storeVars, files, locals, Unrendered, NumberInv, RenderingOK, Waiting
  <2> QED
    BY <2>1, <2>2, MovesKeep, UnrenderedKeeps DEF NumberInv
<1>3. CASE CallEnroll(r)
  <2>1. Moves
    BY <1>3 DEF CallEnroll, files, Moves, Answering
  <2>2. Unrendered
    BY <1>3 DEF CallEnroll, files, Unrendered, NumberInv, RenderingOK, Waiting
  <2> QED
    BY <2>1, <2>2, MovesKeep, UnrenderedKeeps DEF NumberInv
<1>4. CASE LoadTunnel(r)
  <2>1. Moves
    BY <1>4 DEF LoadTunnel, LoadInto, files, outside, Moves, Answering, Provisionings
  <2>2. Unrendered
    BY <1>4 DEF LoadTunnel, LoadInto, Idle, files, Unrendered
  <2> QED
    BY <2>1, <2>2, MovesKeep, UnrenderedKeeps DEF NumberInv
<1>5. CASE SaveSession(r)
  <2>1. Moves
    BY <1>5
    DEF SaveSession, SavingVerification, SaveVerification, SaveVerificationFails, storeVars, files,
        locals, outside, Moves, Answering
  <2>2. Unrendered
    BY <1>5
    DEF SaveSession, SavingVerification, SaveVerification, SaveVerificationFails, storeVars, files,
        locals, Unrendered
  <2> QED
    BY <2>1, <2>2, MovesKeep, UnrenderedKeeps DEF NumberInv
<1> QED
  BY <1>1, <1>2, <1>3, <1>4, <1>5 DEF EnrollStep

\* The steps that bring the number in, and cache it.
LEMMA VerificationNumbers ==
    ASSUME Types, NumberInv, Settled, NEW r \in Requests,
           \/ BeginVerification(r) \/ Poll(r) \/ PollFails(r)
           \/ LoadDID(r) \/ SaveDID(r) \/ CacheVerified(r)
    PROVE  NumberInv'
<1> USE Shapes DEF Step, Goto
<1>1. CASE BeginVerification(r)
  <2>1. Moves
    BY <1>1 DEF BeginVerification, LoadVerification, files, outside, Moves, Answering
  <2>2. Unrendered
    BY <1>1 DEF BeginVerification, LoadVerification, Idle, files, Unrendered
  <2> QED
    BY <2>1, <2>2, MovesKeep, UnrenderedKeeps DEF NumberInv
<1>2. CASE Poll(r)
  <2> DEFINE reply == sessions[sess[r].nonce]
  <2>1. sess[r].nonce \in Nonces /\ reply \in [status : Statuses, number : OrBlank(Numbers)]
    BY <1>2 DEF Poll, Types, ArgOK, OutsideOK
  <2>2. Unrendered /\ UNCHANGED <<storeVars, outside>>
    BY <1>2 DEF Poll, storeVars, files, locals, Unrendered, NumberInv, RenderingOK, Waiting
  <2>3. RecordsOK'
    BY <2>2 DEF NumberInv, RecordsOK, Verified, storeVars, files, locals, outside, cloudVars
  <2>4. \A v : Good(v) => Good(v)'
    BY <2>2 DEF Good, outside, cloudVars
  <2>5. ASSUME NEW q \in Requests, pc'[q] \in Answering PROVE NumberOf(q)'
    <3>1. CASE q = r
      <4>1. reply.status = "verified" /\ arg'[r] = reply.number
        BY <1>2, <2>5, <3>1 DEF Poll, Answering
      <4>2. reply = [status |-> "verified", number |-> arg'[r]]
        BY <2>1, <4>1
      <4> QED
        BY <2>1, <2>2, <3>1, <4>2 DEF NumberOf, storeVars, locals, outside, cloudVars
    <3>2. CASE q # r
      BY <1>2, <2>2, <2>5, <3>2
      DEF Poll, NumberInv, SessionsOK, NumberOf, storeVars, locals, outside, cloudVars
    <3> QED
      BY <3>1, <3>2
  <2>6. SessionsOK'
    BY <2>2, <2>4, <2>5 DEF NumberInv, SessionsOK, storeVars, files, locals
  <2> QED
    BY <2>2, <2>3, <2>6, UnrenderedKeeps DEF NumberInv
<1>3. CASE PollFails(r)
  <2>1. Moves
    BY <1>3 DEF PollFails, storeVars, files, locals, outside, Moves, Answering
  <2>2. Unrendered
    BY <1>3 DEF PollFails, storeVars, files, locals, Unrendered, NumberInv, RenderingOK, Waiting
  <2> QED
    BY <2>1, <2>2, MovesKeep, UnrenderedKeeps DEF NumberInv
<1>4. CASE LoadDID(r)
  <2>1. Unrendered
    BY <1>4 DEF LoadDID, LoadInto, Idle, files, Unrendered
  <2>2. /\ prov' = [prov EXCEPT ![r] = [state EXCEPT !.did = arg[r]]]
        /\ UNCHANGED <<state, verification, sess, arg, outside>>
    BY <1>4 DEF LoadDID, LoadInto, files
  <2>3. NumberOf(r) /\ arg[r] \in Numbers
    BY <1>4 DEF LoadDID, NumberInv, SessionsOK, Answering, Types, ArgOK
  <2>4. arg[r] \in Verified
    BY <2>3 DEF NumberOf, Verified
  <2>5. prov'[r].did = arg[r]
    BY <2>2 DEF Provisionings
  <2>6. Verified' = Verified
    BY <2>2 DEF Verified, outside, cloudVars
  <2>7. RecordsOK'
    BY <2>2, <2>4, <2>5, <2>6 DEF NumberInv, RecordsOK, outside, OrBlank
  <2>8. SessionsOK'
    BY <1>4, <2>2 DEF LoadDID, NumberInv, SessionsOK, Good, NumberOf, Answering, outside, cloudVars
  <2> QED
    BY <2>1, <2>7, <2>8, UnrenderedKeeps DEF NumberInv
<1>5. CASE SaveDID(r)
  BY <1>5, SavingKeeps DEF SaveDID, Waiting
<1>6. CASE CacheVerified(r)
  <2> DEFINE v == [sess[r] EXCEPT !.verified_number = arg[r]]
  <2>1. Unrendered
    BY <1>6
    DEF CacheVerified, SavingVerification, SaveVerification, SaveVerificationFails, storeVars,
        files, locals, Unrendered
  <2>2. /\ verification' \in {verification, NoSession, v}
        /\ sess' = sess \/ sess' = [sess EXCEPT ![r] = v]
        /\ UNCHANGED <<state, prov, arg, outside>>
    BY <1>6
    DEF CacheVerified, SavingVerification, SaveVerification, SaveVerificationFails, storeVars,
        files, locals
  <2>3. Good(v)
    <3>1. NumberOf(r)
      BY <1>6 DEF CacheVerified, NumberInv, SessionsOK, Answering
    <3>2. v.nonce = sess[r].nonce /\ v.verified_number = arg[r]
      BY DEF VerificationStates
    <3> QED
      BY <3>1, <3>2 DEF NumberOf, Good
  <2>4. \A w : Good(w) => Good(w)'
    BY <2>2 DEF Good, outside, cloudVars
  <2>5. Good(NoSession)
    BY DEF Good, NoSession
  <2>6. RecordsOK'
    BY <2>2 DEF NumberInv, RecordsOK, Verified, outside, cloudVars
  <2>7. Good(verification)' /\ \A q \in Requests : Good(sess[q])'
    BY <2>2, <2>3, <2>4, <2>5 DEF NumberInv, SessionsOK, Good
  <2>8. ASSUME NEW q \in Requests, pc'[q] \in Answering PROVE NumberOf(q)'
    BY <1>6, <2>2, <2>8
    DEF CacheVerified, NumberInv, SessionsOK, NumberOf, Answering, outside, cloudVars
  <2> QED
    BY <2>1, <2>6, <2>7, <2>8, UnrenderedKeeps DEF NumberInv, SessionsOK
<1> QED
  BY <1>1, <1>2, <1>3, <1>4, <1>5, <1>6

\* Pairing, the form and resets carry a number at most, and Save it.
LEMMA OtherHandlersNumbers ==
    ASSUME Types, NumberInv, Settled, NEW r \in Requests,
           \/ BeginPair(r) \/ Discover(r) \/ PairPhone(r) \/ CheckPaired(r) \/ Trust(r)
           \/ LoadLine(r) \/ SaveLine(r) \/ BeginConfigSave(r) \/ SaveConfig(r)
           \/ BeginReset(r) \/ ResetStep(r) \/ Answer(r) \/ ServiceAction(r)
    PROVE  NumberInv'
<1> USE Shapes DEF Step, Goto
<1>1. CASE SaveLine(r) \/ SaveConfig(r)
  BY <1>1, SavingKeeps DEF SaveLine, SaveConfig, Waiting
<1>2. CASE BeginPair(r) \/ Discover(r) \/ PairPhone(r) \/ CheckPaired(r) \/ Trust(r) \/ BeginReset(r)
  <2>1. Moves
    BY <1>2
    DEF BeginPair, Discover, PairPhone, CheckPaired, Trust, BeginReset, storeVars, files, locals,
        outside, Moves, Answering
  <2>2. Unrendered
    BY <1>2
    DEF BeginPair, Discover, PairPhone, CheckPaired, Trust, BeginReset, storeVars, files, locals,
        Unrendered, NumberInv, RenderingOK, Waiting
  <2> QED
    BY <2>1, <2>2, MovesKeep, UnrenderedKeeps DEF NumberInv
<1>3. CASE LoadLine(r)
  <2>1. PICK adapter \in IF state.adapter_mac = Blank THEN OrBlank(Adapters) ELSE {state.adapter_mac},
             port \in {arg[r], state.hfp_port} :
             LoadInto(r, [state EXCEPT !.phone_mac = arg[r], !.adapter_mac = adapter,
                                       !.hfp_port = port])
    BY <1>3 DEF LoadLine
  <2> DEFINE rec == [state EXCEPT !.phone_mac = arg[r], !.adapter_mac = adapter, !.hfp_port = port]
  <2>2. rec.did = state.did
    BY DEF Provisionings
  <2>3. prov' = [prov EXCEPT ![r] = rec] /\ UNCHANGED <<state, verification, sess>>
    BY <2>1 DEF LoadInto, files
  <2> HIDE DEF rec
  <2>4. Moves
    BY <1>3, <2>2, <2>3 DEF LoadLine, outside, Moves, Answering
  <2>5. Unrendered
    BY <1>3 DEF LoadLine, LoadInto, Idle, files, Unrendered
  <2> QED
    BY <2>4, <2>5, MovesKeep, UnrenderedKeeps DEF NumberInv
<1>4. CASE BeginConfigSave(r)
  <2>1. Moves
    BY <1>4, EditedAssumption DEF BeginConfigSave, files, outside, Moves, Answering, Fields
  <2>2. Unrendered
    BY <1>4 DEF BeginConfigSave, files, Unrendered, NumberInv, RenderingOK, Waiting
  <2> QED
    BY <2>1, <2>2, MovesKeep, UnrenderedKeeps DEF NumberInv
<1>5. CASE ResetStep(r)
  <2>1. /\ Moves
        /\ conf'["extensions.conf"] = conf["extensions.conf"] \/ conf'["extensions.conf"] = Absent
        /\ todo' = todo /\ prov' = prov /\ (todo[r] # {} => pc'[r] = pc[r])
        /\ \A q \in Requests \ {r} : pc'[q] = pc[q]
    BY <1>5
    DEF ResetStep, StopService, ListConfs, RemoveConf, ListPhones, RemovePhone, StopTunnel,
        DisableTunnel, RemoveWGConf, RemoveState, RemoveVerification, RemoveKey, storeVars, files,
        locals, outside, cloudVars, Moves, Answering, ZeroProvisioning, NumberInv, RenderingOK, Waiting
  <2>2. Unrendered
    BY <2>1 DEF Unrendered, Absent
  <2> QED
    BY <2>1, <2>2, MovesKeep, UnrenderedKeeps DEF NumberInv
<1>6. CASE Answer(r)
  <2>1. Moves
    BY <1>6 DEF Answer, files, outside, Moves, Answering, ZeroProvisioning
  <2>2. Unrendered
    BY <1>6 DEF Answer, files, Unrendered
  <2> QED
    BY <2>1, <2>2, MovesKeep, UnrenderedKeeps DEF NumberInv
<1>7. CASE ServiceAction(r)
  <2>1. Moves /\ Unrendered
    BY <1>7 DEF ServiceAction, storeVars, files, locals, requestVars, Moves, Unrendered
  <2> QED
    BY <2>1, MovesKeep, UnrenderedKeeps DEF NumberInv
<1> QED
  BY <1>1, <1>2, <1>3, <1>4, <1>5, <1>6, <1>7

\* A template is rendered from a complete record, whose number is verified.
LEMMA RenderingNumbers ==
    ASSUME Types, NumberInv, Settled, NEW r \in Requests, Rendering(r)
    PROVE  NumberInv'
<1> DEFINE t == FirstOf(todo[r])
<1> USE Shapes
<1>1. todo[r] # {} /\ t \in Templates
  BY DEF Rendering, RenderNext, RenderFails, FirstOf, Templates
<1>2. Moves
  BY DEF Rendering, RenderNext, RenderFails, requestVars, outside, Moves
<1>3. RecordsOK' /\ SessionsOK'
  BY <1>2, MovesKeep DEF NumberInv
<1>4. RenderingOK'
  BY DEF Rendering, RenderNext, RenderFails, requestVars, NumberInv, RenderingOK
<1>5. DialplanOK'
  <2>1. CASE RenderNext(r) /\ t = "extensions.conf"
    <3>1. Complete(prov[r]) /\ prov[r].did \in OrBlank(Verified)
      BY <1>1 DEF NumberInv, RenderingOK, RecordsOK
    <3>2. prov[r].did \in Verified
      BY <3>1 DEF Complete, missing, Fields, OrBlank
    <3>3. conf'["extensions.conf"] = Rendered("extensions.conf", prov[r])
      BY <2>1 DEF RenderNext
    <3>4. Placeholders["extensions.conf"] = {"did"}
      BY DEF Placeholders, Templates
    <3>5. conf'["extensions.conf"].values["did"] = prov[r].did
      BY <3>3, <3>4 DEF Rendered
    <3>6. Verified' = Verified
      BY DEF Rendering, outside, cloudVars, Verified
    <3> QED
      BY <3>2, <3>5, <3>6 DEF DialplanOK
  <2>2. CASE ~ (RenderNext(r) /\ t = "extensions.conf")
    <3>1. conf'["extensions.conf"] \in {conf["extensions.conf"], Torn}
      BY <1>1, <2>2 DEF Rendering, RenderNext, RenderFails
    <3>2. Verified' = Verified
      BY DEF Rendering, outside, cloudVars, Verified
    <3> QED
      BY <3>1, <3>2 DEF NumberInv, DialplanOK, Torn
  <2> QED
    BY <2>1, <2>2
<1> QED
  BY <1>3, <1>4, <1>5 DEF NumberInv

LEMMA OutsideNumbers ==
    ASSUME Types, NumberInv, Settled,
           LoadForm \/ ServiceStarts \/ ClawOps \/ AgentRestarts \/ BoxReboots \/ UNCHANGED vars
    PROVE  NumberInv'
<1> USE Shapes
<1>1. CASE LoadForm \/ ServiceStarts \/ ClawOps \/ UNCHANGED vars
  <2>1. Moves /\ Unrendered
    BY <1>1
    DEF LoadForm, ServiceStarts, ClawOps, Verifies, Expires, vars, storeVars, files, locals,
        requestVars, outside, Moves, Unrendered
  <2> QED
    BY <2>1, MovesKeep, UnrenderedKeeps DEF NumberInv
<1>2. CASE AgentRestarts \/ BoxReboots
  <2>1. Dies
    BY <1>2 DEF AgentRestarts, BoxReboots
  <2>2. /\ state' \in {state, ZeroProvisioning} /\ verification' \in {verification, NoSession}
        /\ conf'["extensions.conf"] \in {conf["extensions.conf"], Torn}
    BY <2>1 DEF Dies, files, TearState, TearVerification, TearConf
  <2>3. Moves
    BY <2>1, <2>2 DEF Dies, Forget, Moves, Answering, ZeroProvisioning
  <2>4. Unrendered
    BY <2>1, <2>2 DEF Dies, Forget, Unrendered, Torn
  <2> QED
    BY <2>3, <2>4, MovesKeep, UnrenderedKeeps DEF NumberInv
<1> QED
  BY <1>1, <1>2

LEMMA NumberInvStep == Types /\ NumberInv /\ [Next]_vars => NumberInv'
<1> SUFFICES ASSUME Types, NumberInv, [Next]_vars PROVE NumberInv'
  OBVIOUS
<1>1. Settled
  BY SettledStep
<1>2. ASSUME NEW r \in Requests, Begin(r) PROVE NumberInv'
  BY <1>1, <1>2, EnrollNumbers, VerificationNumbers, OtherHandlersNumbers DEF Begin
<1>3. ASSUME NEW r \in Requests, Proceed(r) PROVE NumberInv'
  BY <1>1, <1>3, EnrollNumbers, VerificationNumbers, OtherHandlersNumbers, RenderingNumbers
  DEF Proceed, HandlerStep
<1>4. CASE LoadForm \/ ServiceStarts \/ ClawOps \/ AgentRestarts \/ BoxReboots \/ UNCHANGED vars
  BY <1>1, <1>4, OutsideNumbers
<1> QED
  BY <1>2, <1>3, <1>4 DEF Next

LEMMA NumberInvariance == Spec => [](Types /\ NumberInv)
<1>1. Types /\ NumberInv /\ [Next]_vars => (Types /\ NumberInv)'
  BY TypesStep, NumberInvStep
<1> QED
  BY TypesInit, NumberInvInit, <1>1, PTL DEF Spec

-----------------------------------------------------------------------------
\* No number that ClawOps has not verified reaches state.json or the dialplan:
\* not with an old form posted, not when polls and enrollments race, and not
\* when writes fail or the agent dies (DIDIsVerified).
THEOREM NumbersAreVerified == Spec => []DIDIsVerified
<1>1. Types /\ NumberInv => DIDIsVerified
  <2> SUFFICES ASSUME Types, NumberInv PROVE DIDIsVerified
    OBVIOUS
  <2> DEFINE verifiedNumbers ==
               {sessions[n].number : n \in {k \in Nonces : sessions[k].status = "verified"}}
  <2>1. Verified \subseteq verifiedNumbers
    BY DEF Verified
  <2> QED
    BY <2>1 DEF NumberInv, RecordsOK, DialplanOK, DIDIsVerified, OrBlank
<1> QED
  BY <1>1, NumberInvariance, PTL

\* The cached number is the one ClawOps verified for the stored session, and
\* for no other (CachedNumberIsVerified), however polls of an old session,
\* enrollments and resets interleave.
THEOREM CachedNumbersMatch == Spec => []CachedNumberIsVerified
<1>1. NumberInv => CachedNumberIsVerified
  BY DEF NumberInv, SessionsOK, Good, CachedNumberIsVerified
<1> QED
  BY <1>1, NumberInvariance, PTL

\* A box that ClawOps enrolls once has no DID before its verification, as
\* enroll.go:124 says (NoDIDBeforeVerification): only another session makes that
\* statement false, see MCAgentKeptDID.cfg.
THEOREM FirstDIDIsVerified ==
    ASSUME \A m, n \in Nonces : m = n
    PROVE  Spec => []NoDIDBeforeVerification
<1>1. Types /\ NumberInv => NoDIDBeforeVerification
  <2> SUFFICES ASSUME Types, NumberInv, verification.nonce # Blank,
                      sessions[verification.nonce].status # "verified"
               PROVE  state.did = Blank
    BY DEF NoDIDBeforeVerification
  <2>1. verification.nonce \in Nonces
    BY DEF Types, StoreTypeOK, VerificationStates, OrBlank
  <2>2. Verified = {}
    BY <2>1 DEF Verified
  <2> QED
    BY <2>2 DEF NumberInv, RecordsOK, OrBlank
<1> QED
  BY <1>1, NumberInvariance, PTL
=============================================================================
