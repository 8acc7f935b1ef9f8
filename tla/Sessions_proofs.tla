-------------------------- MODULE Sessions_proofs --------------------------
(***************************************************************************)
(* Proofs about the verification session, for any requests, jobs and       *)
(* faults: what an enrollment stores is the newest session there is.  An   *)
(* old session can still come back, from a poll: see MCAgentOldSession.cfg. *)
(***************************************************************************)
EXTENDS Agent_proofs

-----------------------------------------------------------------------------
(* The sessions ClawOps has issued. *)

Issued(n) == sessions[n].status # "unissued"

IssuedInOrder == \A m, n \in Nonces : m < n /\ Issued(n) => Issued(m)

SameSessions == \A n \in Nonces : Issued(n)' <=> Issued(n)

LEMMA SessionShapes ==
    ASSUME Types
    PROVE  /\ sessions \in [Nonces -> [status : Statuses, number : OrBlank(Numbers)]]
           /\ pc \in [Requests -> PCs]
           /\ sess \in [Requests -> VerificationStates]
           /\ Nonces \subseteq Nat /\ Blank \notin Nonces
BY BlankAssumption DEF Types, StoreTypeOK, RequestsOK, OutsideOK

\* A new session comes after those that were issued.
LEMMA EnrollsInOrder ==
    ASSUME Types, IssuedInOrder, NEW k, NEW n \in NextNonces, Enrolls(k, n)
    PROVE  /\ n \in Nonces
           /\ \A m \in Nonces : Issued(m)' => m <= n
           /\ IssuedInOrder'
<1> USE SessionShapes
<1>1. /\ n \in Nonces /\ ~ Issued(n)
      /\ \A m \in Nonces : m < n => Issued(m)
  BY DEF NextNonces, Issued
<1>2. \A m \in Nonces : Issued(m)' <=> Issued(m) \/ m = n
  BY <1>1 DEF Enrolls, Issued
<1>3. \A m \in Nonces : Issued(m)' => m <= n
  BY <1>1, <1>2 DEF IssuedInOrder
<1>4. IssuedInOrder'
  <2> SUFFICES ASSUME NEW a \in Nonces, NEW b \in Nonces, a < b, Issued(b)' PROVE Issued(a)'
    BY DEF IssuedInOrder
  <2>1. CASE b = n
    BY <1>1, <1>2, <2>1
  <2>2. CASE Issued(b)
    BY <1>2, <2>2 DEF IssuedInOrder
  <2> QED
    BY <1>2, <2>1, <2>2
<1> QED
  BY <1>1, <1>3, <1>4

-----------------------------------------------------------------------------
(* Between the reply of ClawOps and the writing of its session a handler   *)
(* holds enrollMu, so that no other enrollment brings in a newer one.      *)

\* Where handleEnroll holds the session of its reply.
Replied == {"enroll.wgconf", "enroll.enable", "enroll.wgup", "enroll.load", "enroll.save", "enroll.session"}

HoldsNewest ==
    \A r \in Requests : pc[r] \in Replied /\ sess[r].nonce # Blank
        => \A n \in Nonces : Issued(n) => n <= sess[r].nonce

NewestInv == IssuedInOrder /\ HoldsNewest

LEMMA NewestInvInit == Init => NewestInv
BY DEF Init, NewestInv, IssuedInOrder, HoldsNewest, Issued, Replied

\* What every step does but a call to ClawOps.
Passes ==
    /\ SameSessions
    /\ \A r \in Requests : pc'[r] \in Replied => pc[r] \in Replied /\ sess'[r] = sess[r]

LEMMA PassesKeeps == NewestInv /\ Passes => NewestInv'
BY DEF NewestInv, IssuedInOrder, HoldsNewest, Passes, SameSessions

LEMMA CallKeeps ==
    ASSUME Types, KeyInv, NewestInv, NEW r \in Requests, CallEnroll(r) \/ EnrollFails(r)
    PROVE  NewestInv'
<1> USE SessionShapes DEF Step, Goto
<1>1. \A q \in Requests \ {r} : pc[q] \notin Replied /\ pc'[q] = pc[q]
  BY DEF CallEnroll, EnrollFails, KeyInv, EnrollPCs, Replied
<1>2. CASE CallEnroll(r)
  <2>1. PICK n \in NextNonces : Enrolls(arg[r], n) /\ sess'[r].nonce \in {n, Blank}
    BY <1>2 DEF CallEnroll
  <2>2. IssuedInOrder' /\ \A m \in Nonces : Issued(m)' => m <= n
    BY <2>1, EnrollsInOrder DEF NewestInv
  <2> QED
    BY <1>1, <2>1, <2>2 DEF NewestInv, HoldsNewest
<1>3. CASE EnrollFails(r)
  <2>1. pc'[r] \notin Replied
    BY <1>3 DEF EnrollFails, Replied
  <2>2. IssuedInOrder'
    BY <1>3, EnrollsInOrder DEF EnrollFails, NewestInv, cloudVars, IssuedInOrder, Issued
  <2> QED
    BY <1>1, <2>1, <2>2 DEF NewestInv, HoldsNewest
<1> QED
  BY <1>2, <1>3

LEMMA EnrollPasses ==
    ASSUME Types, NEW r \in Requests, BeginEnroll(r) \/ EnrollStep(r), ~ CallEnroll(r), ~ EnrollFails(r)
    PROVE  Passes
<1> USE SessionShapes DEF Step, Goto, Passes, SameSessions, Issued
<1>1. CASE BeginEnroll(r) \/ LockEnroll(r) \/ ReadKey(r) \/ NeedKey(r) \/ GenKey(r) \/ GenKeyFails(r)
  BY <1>1
  DEF BeginEnroll, LockEnroll, ReadKey, NeedKey, GenKey, GenKeyFails, Replied, storeVars, locals,
      outside, cloudVars
<1>2. CASE WriteWGConf(r) \/ WriteWGConfFails(r) \/ EnableWG(r) \/ WgUp(r) \/ LoadTunnel(r)
  BY <1>2
  DEF WriteWGConf, WriteWGConfFails, EnableWG, WgUp, LoadTunnel, LoadInto, Replied, storeVars, locals,
      outside, cloudVars
<1>3. CASE SaveTunnel(r) \/ SaveSession(r)
  BY <1>3
  DEF SaveTunnel, Saving, Save, SaveFails, SaveSession, SavingVerification, SaveVerification,
      SaveVerificationFails, Replied, storeVars, locals, outside, cloudVars
<1> QED
  BY <1>1, <1>2, <1>3 DEF EnrollStep

LEMMA HandlersPass ==
    ASSUME Types, NEW r \in Requests,
           \/ BeginVerification(r) \/ BeginPair(r) \/ BeginConfigSave(r) \/ BeginReset(r)
           \/ HandlerStep(r) \/ ResetStep(r) \/ Answer(r)
    PROVE  Passes
<1> USE SessionShapes DEF Step, Goto, Passes, SameSessions, Issued
<1>1. CASE BeginVerification(r) \/ BeginPair(r) \/ BeginConfigSave(r) \/ BeginReset(r)
  BY <1>1
  DEF BeginVerification, LoadVerification, BeginPair, BeginConfigSave, BeginReset, Replied, storeVars,
      locals, outside, cloudVars
<1>2. CASE Poll(r) \/ PollFails(r) \/ LoadDID(r) \/ SaveDID(r) \/ CacheVerified(r)
  BY <1>2
  DEF Poll, PollFails, LoadDID, LoadInto, SaveDID, CacheVerified, Saving, Save, SaveFails,
      SavingVerification, SaveVerification, SaveVerificationFails, Replied, storeVars, locals,
      outside, cloudVars
<1>3. CASE \/ Discover(r) \/ PairPhone(r) \/ CheckPaired(r) \/ Trust(r) \/ LoadLine(r) \/ SaveLine(r)
           \/ SaveConfig(r)
  BY <1>3
  DEF Discover, PairPhone, CheckPaired, Trust, LoadLine, LoadInto, SaveLine, SaveConfig, Saving, Save,
      SaveFails, Replied, storeVars, locals, outside, cloudVars
<1>4. CASE ResetStep(r)
  BY <1>4
  DEF ResetStep, StopService, ListConfs, RemoveConf, ListPhones, RemovePhone, StopTunnel,
      DisableTunnel, RemoveWGConf, RemoveState, RemoveVerification, RemoveKey, Replied, storeVars,
      locals, outside, cloudVars
<1>5. CASE Answer(r)
  BY <1>5 DEF Answer, Replied, outside, cloudVars
<1> QED
  BY <1>1, <1>2, <1>3, <1>4, <1>5 DEF HandlerStep

LEMMA OthersPass ==
    ASSUME Types,
           \/ \E r \in Requests : ServiceAction(r) \/ Rendering(r)
           \/ LoadForm \/ ServiceStarts \/ ClawOps \/ AgentRestarts \/ BoxReboots \/ UNCHANGED vars
    PROVE  Passes
<1> USE SessionShapes
<1>1. CASE \/ \E r \in Requests : ServiceAction(r) \/ Rendering(r)
           \/ LoadForm \/ ServiceStarts \/ UNCHANGED vars
  BY <1>1
  DEF ServiceAction, Rendering, RenderNext, RenderFails, LoadForm, ServiceStarts, vars, requestVars,
      storeVars, locals, outside, cloudVars, Passes, SameSessions, Issued
<1>2. CASE ClawOps
  <2>1. PICK n \in Nonces : Expires(n) \/ \E num \in Numbers : Verifies(n, num)
    BY <1>2 DEF ClawOps
  <2>2. /\ Issued(n) /\ sessions'[n].status # "unissued"
        /\ \A m \in Nonces \ {n} : sessions'[m] = sessions[m]
    BY <2>1 DEF Expires, Verifies, Issued
  <2>3. UNCHANGED <<pc, sess>>
    BY <2>1 DEF Expires, Verifies, requestVars, storeVars, locals
  <2> QED
    BY <2>2, <2>3 DEF Passes, SameSessions, Issued
<1>3. CASE AgentRestarts \/ BoxReboots
  BY <1>3 DEF AgentRestarts, BoxReboots, Dies, cloudVars, Passes, SameSessions, Issued, Replied
<1> QED
  BY <1>1, <1>2, <1>3

LEMMA NewestInvStep == Types /\ KeyInv /\ NewestInv /\ [Next]_vars => NewestInv'
<1> SUFFICES ASSUME Types, KeyInv, NewestInv, [Next]_vars PROVE NewestInv'
  OBVIOUS
<1>1. ASSUME NEW r \in Requests, Begin(r) \/ Proceed(r), ~ CallEnroll(r), ~ EnrollFails(r)
      PROVE  NewestInv'
  BY <1>1, EnrollPasses, HandlersPass, OthersPass, PassesKeeps DEF Begin, Proceed
<1>2. CASE LoadForm \/ ServiceStarts \/ ClawOps \/ AgentRestarts \/ BoxReboots \/ UNCHANGED vars
  BY <1>2, OthersPass, PassesKeeps
<1> QED
  BY <1>1, <1>2, CallKeeps DEF Next

-----------------------------------------------------------------------------
\* Two handlers write verification.json; all else leaves it alone or empty.
LEMMA VerificationMoves ==
    ASSUME [Next]_vars
    PROVE  \/ verification' \in {verification, NoSession}
           \/ \E r \in Requests : SaveSession(r) \/ CacheVerified(r)
<1>1. ASSUME NEW r \in Requests, Begin(r) PROVE verification' = verification
  BY <1>1
  DEF Begin, BeginEnroll, BeginVerification, LoadVerification, BeginPair, BeginConfigSave,
      ServiceAction, BeginReset, storeVars, files
<1>2. ASSUME NEW r \in Requests, EnrollStep(r), ~ SaveSession(r) PROVE verification' = verification
  BY <1>2
  DEF EnrollStep, LockEnroll, ReadKey, NeedKey, GenKey, GenKeyFails, CallEnroll, EnrollFails,
      WriteWGConf, WriteWGConfFails, EnableWG, WgUp, LoadTunnel, LoadInto, SaveTunnel, Saving, Save,
      SaveFails, storeVars, files
<1>3. ASSUME NEW r \in Requests, HandlerStep(r), ~ CacheVerified(r) PROVE verification' = verification
  BY <1>3
  DEF HandlerStep, Poll, PollFails, LoadDID, SaveDID, Discover, PairPhone, CheckPaired, Trust,
      LoadLine, LoadInto, SaveLine, SaveConfig, Saving, Save, SaveFails, storeVars, files
<1>4. ASSUME NEW r \in Requests, ResetStep(r) PROVE verification' \in {verification, NoSession}
  BY <1>4
  DEF ResetStep, StopService, ListConfs, RemoveConf, ListPhones, RemovePhone, StopTunnel,
      DisableTunnel, RemoveWGConf, RemoveState, RemoveVerification, RemoveKey, storeVars, files
<1>5. ASSUME NEW r \in Requests, Rendering(r) \/ Answer(r) PROVE verification' = verification
  BY <1>5 DEF Rendering, RenderNext, RenderFails, Answer, files
<1>6. CASE LoadForm \/ ServiceStarts \/ ClawOps \/ UNCHANGED vars
  BY <1>6 DEF LoadForm, ServiceStarts, ClawOps, Verifies, Expires, vars, storeVars, files
<1>7. CASE AgentRestarts \/ BoxReboots
  BY <1>7 DEF AgentRestarts, BoxReboots, Dies, files, TearState, TearVerification, TearConf, NoSession
<1> QED
  BY <1>1, <1>2, <1>3, <1>4, <1>5, <1>6, <1>7 DEF Next, Proceed

LEMMA StoresNewest ==
    ASSUME Types, NewestInv, [Next]_vars, NEW r \in Requests,
           pc[r] = "enroll.session", pc'[r] = "answer",
           verification' # verification, verification'.nonce # Blank, NEW n \in Nonces, Issued(n)
    PROVE  n <= verification'.nonce
<1> USE SessionShapes DEF Step, Goto
<1>1. PICK q \in Requests : SaveSession(q) \/ CacheVerified(q)
  BY VerificationMoves DEF NoSession
<1>2. SaveSession(r)
  BY <1>1 DEF SaveSession, CacheVerified
<1>3. verification' = sess[r]
  BY <1>2
  DEF SaveSession, SavingVerification, SaveVerification, SaveVerificationFails, storeVars, files, NoSession
<1> QED
  BY <1>3 DEF NewestInv, HoldsNewest, Replied

\* However enrollments, polls, resets, failures and deaths interleave, an
\* enrollment stores the newest session ClawOps has issued: one whose reply was
\* overtaken cannot put its older session over a newer one (StoresLatestSession).
\* Without enrollMu it could.
THEOREM LatestStored == Spec => StoresLatestSession
<1> DEFINE Stores(r) ==
        /\ pc[r] = "enroll.session" /\ pc'[r] = "answer"
        /\ verification' # verification /\ verification'.nonce # Blank
        => \A n \in Nonces : sessions[n].status # "unissued" => n <= verification'.nonce
<1>1. Types /\ KeyInv /\ NewestInv /\ [Next]_vars => (Types /\ KeyInv /\ NewestInv)'
  BY TypesStep, KeyInvStep, NewestInvStep
<1>2. Types /\ NewestInv /\ [Next]_vars => [\A r \in Requests : Stores(r)]_vars
  BY StoresNewest DEF Issued
<1> QED
  BY TypesInit, KeyInvInit, NewestInvInit, <1>1, <1>2, PTL DEF Spec, StoresLatestSession
=============================================================================
