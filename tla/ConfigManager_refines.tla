----------------------- MODULE ConfigManager_refines -----------------------
(***************************************************************************)
(* ConfigManager implements AtomicStore.  Each operation takes effect in   *)
(* one step, the read or the write of its file, and every other step       *)
(* changes nothing a client can see: the file that is truncated and not    *)
(* yet written counts as what it was, which only its writer could dispute, *)
(* since mu keeps every other request out.                                 *)
(***************************************************************************)
EXTENDS ConfigManager_proofs

\* A file is torn between the two steps of its write.
Truncated ==
    \A r \in Requests :
        /\ pc[r] = "Save.write" => stateFile = Torn
        /\ pc[r] = "SaveVerification.write" => verificationFile = Torn
        /\ pc[r] = "Render.write" => conf[FirstOf(todo[r])] = Torn

RInv == Inv /\ Truncated

LEMMA TruncatedStep == Inv /\ Truncated /\ [Next]_vars => Truncated'
<1> SUFFICES ASSUME Inv, Truncated, [Next]_vars PROVE Truncated'
  OBVIOUS
<1> USE DEF Inv, TypeOK, Truncated
<1>1. ASSUME NEW r \in Requests,
             \/ Assign(r) \/ Lock(r) \/ Return(r) \/ Load(r) \/ LoadVerification(r)
             \/ SaveFails(r) \/ RenderFails(r) \/ SaveVerificationFails(r)
      PROVE Truncated'
  BY <1>1, Alone DEF Assign, Lock, Return, Load, LoadVerification, SaveFails, RenderFails,
     SaveVerificationFails, Goto, Operations, files, locals
<1>2. ASSUME NEW r \in Requests,
             \/ SaveTruncates(r) \/ SaveWrites(r)
             \/ SaveVerificationTruncates(r) \/ SaveVerificationWrites(r)
      PROVE Truncated'
  BY <1>2, Alone DEF SaveTruncates, SaveWrites, SaveVerificationTruncates,
     SaveVerificationWrites, Goto, locals
<1>3. ASSUME NEW r \in Requests, RenderTruncates(r) PROVE Truncated'
  <2>1. FirstOf(todo[r]) \in Templates
    BY <1>3, FirstOfTodo DEF RenderTruncates, Goto, TodoWhileRendering, Rendering
  <2> QED
    BY <1>3, <2>1, Alone DEF RenderTruncates, Goto, locals
<1>4. ASSUME NEW r \in Requests, RenderWrites(r) PROVE Truncated'
  BY <1>4, Alone DEF RenderWrites, Goto
<1>5. CASE Crash
  BY <1>5 DEF Crash
<1>6. CASE UNCHANGED vars
  BY <1>6 DEF vars, files, locals
<1> QED
  BY <1>1, <1>2, <1>3, <1>4, <1>5, <1>6 DEF Next

LEMMA RInvariance == Spec => []RInv
<1>1. Init => Truncated
  BY DEF Init, Truncated
<1> QED
  BY <1>1, TruncatedStep, Invariance, PTL DEF Spec, RInv

-----------------------------------------------------------------------------
(* The abstract files, seen from the one request that may be writing.      *)

OthersReady(r) == \A q \in Requests \ {r} : pc[q] = "ready"

LEMMA BarsOf ==
    \A r \in Requests : OthersReady(r) =>
        /\ StateBar = IF pc[r] = "Save.write"
                      THEN Parsed(before, ZeroProvisioning) ELSE stateRead
        /\ VerificationBar = IF pc[r] = "SaveVerification.write"
                             THEN Parsed(before, NoSession) ELSE verificationRead
        /\ ConfBar = [t \in Templates |->
                        IF pc[r] = "Render.write" /\ FirstOf(todo[r]) = t
                        THEN before ELSE conf[t]]
BY DEF OthersReady, StateBar, VerificationBar, ConfBar

LEMMA BarsOfNext ==
    (\A r \in Requests : OthersReady(r) =>
        /\ StateBar = IF pc[r] = "Save.write"
                      THEN Parsed(before, ZeroProvisioning) ELSE stateRead
        /\ VerificationBar = IF pc[r] = "SaveVerification.write"
                             THEN Parsed(before, NoSession) ELSE verificationRead
        /\ ConfBar = [t \in Templates |->
                        IF pc[r] = "Render.write" /\ FirstOf(todo[r]) = t
                        THEN before ELSE conf[t]])'
BY BarsOf, PTL

\* Nobody is between the truncate and the write of a file.
Quiet == \A r \in Requests : pc[r] \notin {"Save.write", "SaveVerification.write", "Render.write"}

LEMMA QuietBars ==
    TypeOK /\ Quiet =>
        StateBar = stateRead /\ VerificationBar = verificationRead /\ ConfBar = conf
<1> SUFFICES ASSUME TypeOK, Quiet
             PROVE  StateBar = stateRead /\ VerificationBar = verificationRead /\ ConfBar = conf
  OBVIOUS
<1>1. conf = [t \in Templates |-> conf[t]]
  BY DEF TypeOK
<1> QED
  BY <1>1 DEF Quiet, StateBar, VerificationBar, ConfBar

-----------------------------------------------------------------------------
(* One lemma per kind of step. *)

FilesBar == <<StateBar, VerificationBar, ConfBar>>

LEMMA InitRefines == Init => Store!StoreInit
<1> SUFFICES ASSUME Init PROVE Store!StoreInit
  OBVIOUS
<1>1. /\ StateBar = ZeroProvisioning /\ VerificationBar = NoSession
      /\ ConfBar = [t \in Templates |-> Sample]
  BY DEF Init, StateBar, VerificationBar, ConfBar, stateRead, verificationRead, Parsed, Absent
<1> QED
  BY <1>1 DEF Init, Store!StoreInit, Store!ZeroProvisioning, ZeroProvisioning,
     Store!NoSession, NoSession, Store!Templates, Templates, Store!Sample, Sample

\* A step inside an operation: the others are outside, before it and after it.
LEMMA InsideStep ==
    ASSUME RInv, NEW r \in Requests, pc[r] # "ready",
           NEW to, pc' = [pc EXCEPT ![r] = to]
    PROVE  OthersReady(r) /\ OthersReady(r)' /\ pc'[r] = to
           /\ \A q \in Requests \ {r} : todo[q] = {}
BY Alone DEF RInv, Inv, TypeOK, OthersReady

\* The steps no client can see.
LEMMA StutterRefines ==
    ASSUME RInv, NEW r \in Requests,
           \/ Lock(r) \/ Return(r)
           \/ SaveTruncates(r) \/ RenderTruncates(r) \/ SaveVerificationTruncates(r)
    PROVE  UNCHANGED Store!storeVars
<1> USE DEF RInv, Inv, TypeOK, Store!storeVars, Store!files, Store!locals
<1>1. CASE Lock(r)
  BY <1>1 DEF Lock, Goto, Operations, files, locals, StateBar, VerificationBar, ConfBar,
     stateRead, verificationRead
<1>2. CASE Return(r)
  BY <1>2 DEF Return, Goto, files, locals, StateBar, VerificationBar, ConfBar,
     stateRead, verificationRead
<1>3. CASE SaveTruncates(r)
  <2>1. OthersReady(r) /\ OthersReady(r)' /\ pc[r] = "Save" /\ pc'[r] = "Save.write"
    BY <1>3, InsideStep DEF SaveTruncates, Goto
  <2> QED
    BY <1>3, <2>1, BarsOf, BarsOfNext DEF SaveTruncates, locals, stateRead, verificationRead
<1>4. CASE RenderTruncates(r)
  <2> DEFINE u == FirstOf(todo[r])
  <2>1. OthersReady(r) /\ OthersReady(r)' /\ pc[r] = "Render" /\ pc'[r] = "Render.write"
    BY <1>4, InsideStep DEF RenderTruncates, Goto
  <2>2. todo' = todo /\ before' = conf[u] /\ conf' = [conf EXCEPT ![u] = Torn]
    BY <1>4 DEF RenderTruncates, locals
  <2>3. ConfBar' = ConfBar
    BY <2>1, <2>2, BarsOf, BarsOfNext
  <2> QED
    BY <1>4, <2>1, <2>3, BarsOf, BarsOfNext DEF RenderTruncates, locals, stateRead, verificationRead
<1>5. CASE SaveVerificationTruncates(r)
  <2>1. /\ OthersReady(r) /\ OthersReady(r)'
        /\ pc[r] = "SaveVerification" /\ pc'[r] = "SaveVerification.write"
    BY <1>5, InsideStep DEF SaveVerificationTruncates, Goto
  <2> QED
    BY <1>5, <2>1, BarsOf, BarsOfNext
    DEF SaveVerificationTruncates, locals, stateRead, verificationRead
<1> QED
  BY <1>1, <1>2, <1>3, <1>4, <1>5

LEMMA LoadRefines ==
    ASSUME RInv, NEW r \in Requests
    PROVE  /\ Load(r) => Store!LoadInto(r, StateBar)
           /\ LoadVerification(r) => Store!LoadVerification(r)
<1> USE DEF RInv, Inv, TypeOK, TodoWhileRendering, Rendering
<1>1. ASSUME Load(r) PROVE Store!LoadInto(r, StateBar)
  <2>1. /\ OthersReady(r) /\ OthersReady(r)' /\ pc[r] = "Load" /\ pc'[r] = "return"
        /\ \A q \in Requests : todo[q] = {}
    BY <1>1, InsideStep DEF Load, Goto
  <2>2. StateBar = stateRead
    BY <2>1, BarsOf
  <2>3. UNCHANGED FilesBar
    BY <1>1, <2>1, BarsOf, BarsOfNext DEF Load, files, stateRead, verificationRead, FilesBar
  <2> QED
    BY <1>1, <2>1, <2>2, <2>3 DEF Load, FilesBar, Store!LoadInto, Store!Idle, Store!files
<1>2. ASSUME LoadVerification(r) PROVE Store!LoadVerification(r)
  <2>1. /\ OthersReady(r) /\ OthersReady(r)' /\ pc[r] = "LoadVerification" /\ pc'[r] = "return"
        /\ \A q \in Requests : todo[q] = {}
    BY <1>2, InsideStep DEF LoadVerification, Goto
  <2>2. VerificationBar = verificationRead
    BY <2>1, BarsOf
  <2>3. UNCHANGED FilesBar
    BY <1>2, <2>1, BarsOf, BarsOfNext
    DEF LoadVerification, files, stateRead, verificationRead, FilesBar
  <2> QED
    BY <1>2, <2>1, <2>2, <2>3
    DEF LoadVerification, FilesBar, Store!LoadVerification, Store!Idle, Store!files
<1> QED
  BY <1>1, <1>2

LEMMA SaveRefines ==
    ASSUME RInv, NEW r \in Requests
    PROVE  /\ SaveWrites(r) => Store!Save(r)
           /\ SaveFails(r) => Store!SaveFails(r)
<1> USE DEF RInv, Inv, TypeOK, TodoWhileRendering, Rendering
<1>1. ASSUME SaveWrites(r) PROVE Store!Save(r)
  <2>1. /\ OthersReady(r) /\ OthersReady(r)' /\ pc[r] = "Save.write"
        /\ pc'[r] \in {"Render", "return"}
        /\ \A q \in Requests : todo[q] = {}
    BY <1>1, InsideStep DEF SaveWrites, Goto
  <2>2. StateBar' = prov[r]
    BY <1>1, <2>1, BarsOfNext, ReadBack DEF SaveWrites, stateRead
  <2>3. VerificationBar' = VerificationBar /\ ConfBar' = ConfBar
    BY <1>1, <2>1, BarsOf, BarsOfNext DEF SaveWrites, verificationRead
  <2> QED
    BY <1>1, <2>1, <2>2, <2>3
    DEF SaveWrites, Store!Save, Store!Idle, Store!Complete, Complete, Store!missing, missing,
        Store!Templates, Templates, Store!Fields, Fields
<1>2. ASSUME SaveFails(r) PROVE Store!SaveFails(r)
  <2>1. /\ OthersReady(r) /\ OthersReady(r)' /\ pc[r] \in {"Save", "Save.write"}
        /\ pc'[r] = "return"
        /\ \A q \in Requests : todo[q] = {}
    BY <1>2, InsideStep DEF SaveFails, Goto
  <2>2. StateBar' = stateRead
    BY <1>2, <2>1, BarsOfNext DEF SaveFails, stateRead
  <2>3. pc[r] = "Save" => StateBar = stateRead
    BY <2>1, BarsOf
  <2>4. pc[r] = "Save.write" => stateRead = ZeroProvisioning
    BY DEF Truncated, stateRead, Parsed, Torn
  <2>5. VerificationBar' = VerificationBar /\ ConfBar' = ConfBar
    BY <1>2, <2>1, BarsOf, BarsOfNext DEF SaveFails, verificationRead
  <2> QED
    BY <1>2, <2>1, <2>2, <2>3, <2>4, <2>5
    DEF SaveFails, Store!SaveFails, Store!Idle, Store!ZeroProvisioning, ZeroProvisioning
<1> QED
  BY <1>1, <1>2

LEMMA RenderRefines ==
    ASSUME RInv, NEW r \in Requests
    PROVE  /\ RenderWrites(r) => Store!RenderNext(r)
           /\ RenderFails(r) => Store!RenderFails(r)
<1> DEFINE u == FirstOf(todo[r])
<1> USE DEF RInv, Inv, TypeOK, TodoWhileRendering, Rendering
<1>1. ASSUME RenderWrites(r) PROVE Store!RenderNext(r)
  <2>1. /\ OthersReady(r) /\ OthersReady(r)' /\ pc[r] = "Render.write"
        /\ pc'[r] \in {"Render", "return"}
    BY <1>1, InsideStep DEF RenderWrites, Goto
  <2>2. todo[r] # {} /\ u \in Templates
    BY <2>1, FirstOfTodo
  <2>3. ConfBar' = [ConfBar EXCEPT ![u] = Rendered(u, prov[r])]
    BY <1>1, <2>1, <2>2, BarsOf, BarsOfNext DEF RenderWrites
  <2>4. StateBar' = StateBar /\ VerificationBar' = VerificationBar
    BY <1>1, <2>1, BarsOf, BarsOfNext DEF RenderWrites, stateRead, verificationRead
  <2> QED
    BY <1>1, <2>2, <2>3, <2>4
    DEF RenderWrites, Store!RenderNext, Store!FirstOf, FirstOf, Store!Rendered, Rendered,
        Store!Placeholders, Placeholders, Store!Templates, Templates
<1>2. ASSUME RenderFails(r) PROVE Store!RenderFails(r)
  <2>1. /\ OthersReady(r) /\ OthersReady(r)' /\ pc[r] \in {"Render", "Render.write"}
        /\ pc'[r] = "return"
    BY <1>2, InsideStep DEF RenderFails, Goto
  <2>2. todo[r] # {} /\ u \in Templates
    BY <2>1, FirstOfTodo
  <2>3. ConfBar' = conf /\ conf = [t \in Templates |-> conf[t]]
    BY <1>2, <2>1, BarsOfNext DEF RenderFails
  <2>4. \E left \in {ConfBar[u], Torn} : ConfBar' = [ConfBar EXCEPT ![u] = left]
    <3>1. CASE pc[r] = "Render"
      BY <2>1, <2>2, <2>3, <3>1, BarsOf
    <3>2. CASE pc[r] = "Render.write"
      <4>1. conf[u] = Torn
        BY <3>2 DEF Truncated
      <4>2. ConfBar' = [ConfBar EXCEPT ![u] = Torn]
        BY <2>1, <2>2, <2>3, <3>2, <4>1, BarsOf
      <4> QED
        BY <4>2
    <3> QED
      BY <2>1, <3>1, <3>2
  <2>5. StateBar' = StateBar /\ VerificationBar' = VerificationBar
    BY <1>2, <2>1, BarsOf, BarsOfNext DEF RenderFails, stateRead, verificationRead
  <2> QED
    BY <1>2, <2>2, <2>4, <2>5
    DEF RenderFails, Store!RenderFails, Store!FirstOf, FirstOf, Store!Torn, Torn
<1> QED
  BY <1>1, <1>2

LEMMA SaveVerificationRefines ==
    ASSUME RInv, NEW r \in Requests
    PROVE  /\ SaveVerificationWrites(r) => Store!SaveVerification(r, sess[r])
           /\ SaveVerificationFails(r) => Store!SaveVerificationFails(r, sess[r])
<1> USE DEF RInv, Inv, TypeOK, TodoWhileRendering, Rendering
<1>1. sess = [sess EXCEPT ![r] = sess[r]]
  OBVIOUS
<1>2. ASSUME SaveVerificationWrites(r) PROVE Store!SaveVerification(r, sess[r])
  <2>1. /\ OthersReady(r) /\ OthersReady(r)' /\ pc[r] = "SaveVerification.write"
        /\ pc'[r] = "return"
        /\ \A q \in Requests : todo[q] = {}
    BY <1>2, InsideStep DEF SaveVerificationWrites, Goto
  <2>2. VerificationBar' = sess[r]
    BY <1>2, <2>1, BarsOfNext DEF SaveVerificationWrites, verificationRead, Parsed, Whole
  <2>3. StateBar' = StateBar /\ ConfBar' = ConfBar
    BY <1>2, <2>1, BarsOf, BarsOfNext DEF SaveVerificationWrites, stateRead
  <2> QED
    BY <1>1, <1>2, <2>1, <2>2, <2>3
    DEF SaveVerificationWrites, locals, Store!SaveVerification, Store!Idle
<1>3. ASSUME SaveVerificationFails(r) PROVE Store!SaveVerificationFails(r, sess[r])
  <2>1. /\ OthersReady(r) /\ OthersReady(r)'
        /\ pc[r] \in {"SaveVerification", "SaveVerification.write"}
        /\ pc'[r] = "return"
        /\ \A q \in Requests : todo[q] = {}
    BY <1>3, InsideStep DEF SaveVerificationFails, Goto
  <2>2. VerificationBar' = verificationRead
    BY <1>3, <2>1, BarsOfNext DEF SaveVerificationFails, verificationRead
  <2>3. pc[r] = "SaveVerification" => VerificationBar = verificationRead
    BY <2>1, BarsOf
  <2>4. pc[r] = "SaveVerification.write" => verificationRead = NoSession
    BY DEF Truncated, verificationRead, Parsed, Torn
  <2>5. StateBar' = StateBar /\ ConfBar' = ConfBar
    BY <1>3, <2>1, BarsOf, BarsOfNext DEF SaveVerificationFails, stateRead
  <2> QED
    BY <1>1, <1>3, <2>1, <2>2, <2>3, <2>4, <2>5
    DEF SaveVerificationFails, locals, Store!SaveVerificationFails, Store!Idle,
        Store!NoSession, NoSession
<1> QED
  BY <1>2, <1>3

LEMMA AssignRefines ==
    ASSUME RInv, NEW r \in Requests, Assign(r)
    PROVE  Store!Assign(r)
BY DEF Assign, files, RInv, Inv, TypeOK, TodoWhileRendering, Rendering, StateBar, VerificationBar,
   ConfBar, stateRead, verificationRead, Store!Assign, Store!files

LEMMA CrashRefines == RInv /\ Crash => Store!Die
<1> SUFFICES ASSUME RInv, Crash PROVE Store!Die
  OBVIOUS
<1> USE DEF RInv, Inv, TypeOK, TodoWhileRendering, Rendering
<1>1. Store!Forget
  BY DEF Crash, Store!Forget, Store!ZeroProvisioning, ZeroProvisioning, Store!NoSession, NoSession
<1>2. /\ \A r \in Requests : OthersReady(r)' /\ pc'[r] = "ready"
      /\ stateRead' = stateRead /\ verificationRead' = verificationRead /\ conf' = conf
      /\ conf = [t \in Templates |-> conf[t]]
  BY DEF Crash, OthersReady, stateRead, verificationRead
<1>3. StateBar' = stateRead /\ VerificationBar' = verificationRead /\ ConfBar' = conf
  BY <1>2 DEF StateBar, VerificationBar, ConfBar
<1>4. CASE Quiet
  BY <1>1, <1>3, <1>4, QuietBars DEF Store!Die, Store!files
<1>5. ASSUME NEW r \in Requests,
             pc[r] \in {"Save.write", "SaveVerification.write", "Render.write"}
      PROVE  Store!Die
  <2>1. OthersReady(r) /\ \A q \in Requests \ {r} : todo[q] = {}
    BY <1>5, Alone DEF OthersReady
  <2>2. CASE pc[r] = "Save.write"
    <3>1. stateRead = ZeroProvisioning
      BY <2>2 DEF Truncated, stateRead, Parsed, Torn
    <3>2. VerificationBar = verificationRead /\ ConfBar = conf
      BY <1>2, <2>1, <2>2, BarsOf
    <3>3. Store!TearState
      BY <1>3, <2>1, <2>2, <3>1, <3>2
      DEF Store!TearState, Store!Idle, Store!ZeroProvisioning, ZeroProvisioning
    <3> QED
      BY <1>1, <3>3 DEF Store!Die
  <2>3. CASE pc[r] = "SaveVerification.write"
    <3>1. verificationRead = NoSession
      BY <2>3 DEF Truncated, verificationRead, Parsed, Torn
    <3>2. StateBar = stateRead /\ ConfBar = conf
      BY <1>2, <2>1, <2>3, BarsOf
    <3>3. Store!TearVerification
      BY <1>3, <2>1, <2>3, <3>1, <3>2
      DEF Store!TearVerification, Store!Idle, Store!NoSession, NoSession
    <3> QED
      BY <1>1, <3>3 DEF Store!Die
  <2>4. CASE pc[r] = "Render.write"
    <3> DEFINE u == FirstOf(todo[r])
    <3>1. todo[r] # {} /\ u \in Templates /\ conf[u] = Torn
      BY <2>4, FirstOfTodo DEF Truncated
    <3>2. ConfBar' = [ConfBar EXCEPT ![u] = Torn]
      BY <1>2, <1>3, <2>1, <2>4, <3>1, BarsOf
    <3>3. StateBar' = StateBar /\ VerificationBar' = VerificationBar
      BY <1>3, <2>1, <2>4, BarsOf
    <3>4. Store!TearConf(r)
      BY <3>1, <3>2, <3>3 DEF Store!TearConf, Store!FirstOf, FirstOf, Store!Torn, Torn
    <3> QED
      BY <1>1, <3>4 DEF Store!Die
  <2> QED
    BY <1>5, <2>2, <2>3, <2>4
<1> QED
  BY <1>4, <1>5 DEF Quiet

LEMMA StepRefines == RInv /\ [Next]_vars => [Store!Next]_Store!storeVars
<1> SUFFICES ASSUME RInv, [Next]_vars PROVE [Store!Next]_Store!storeVars
  OBVIOUS
<1>1. ASSUME NEW r \in Requests,
             \/ Lock(r) \/ Return(r)
             \/ SaveTruncates(r) \/ RenderTruncates(r) \/ SaveVerificationTruncates(r)
      PROVE  UNCHANGED Store!storeVars
  BY <1>1, StutterRefines
<1>2. ASSUME NEW r \in Requests,
             \/ Assign(r) \/ Load(r) \/ LoadVerification(r)
             \/ SaveWrites(r) \/ SaveFails(r) \/ RenderWrites(r) \/ RenderFails(r)
             \/ SaveVerificationWrites(r) \/ SaveVerificationFails(r)
      PROVE  Store!Next
  BY <1>2, AssignRefines, LoadRefines, SaveRefines, RenderRefines, SaveVerificationRefines
  DEF Store!Next
<1>3. CASE Crash
  BY <1>3, CrashRefines DEF Store!Next
<1>4. CASE UNCHANGED vars
  BY <1>4 DEF vars, files, locals, Store!storeVars, Store!files, Store!locals, StateBar,
     VerificationBar, ConfBar, stateRead, verificationRead
<1> QED
  BY <1>1, <1>2, <1>3, <1>4 DEF Next

\* Whatever its clients do and whatever fails, ConfigManager is an AtomicStore
\* (ImplementsStore): no request ever sees a file half written by another.
THEOREM Refinement == Spec => ImplementsStore
BY InitRefines, StepRefines, RInvariance, PTL DEF Spec, Store!Spec, ImplementsStore

=============================================================================
