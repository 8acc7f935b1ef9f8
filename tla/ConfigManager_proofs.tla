------------------------ MODULE ConfigManager_proofs ------------------------
(***************************************************************************)
(* Proofs about ConfigManager, for any requests, records and faults.       *)
(***************************************************************************)
EXTENDS ConfigManager, Provisioning_proofs

-----------------------------------------------------------------------------
(* Reading a file. *)

\* What is read from a file is a record, whatever is left of the file.
LEMMA ParsedType ==
    ASSUME NEW S, NEW zero \in S, NEW file \in FileContents(S)
    PROVE  Parsed(file, zero) \in S
BY DEF Parsed, FileContents, Absent, Torn

-----------------------------------------------------------------------------
(* Type correctness. *)

LEMMA TypeInit == Init => TypeOK
BY ZeroTypes DEF Init, TypeOK, FileContents, ConfContents, PCs, Absent, Sample

LEMMA TypeStep == TypeOK /\ [Next]_vars => TypeOK'
<1> SUFFICES ASSUME TypeOK, [Next]_vars PROVE TypeOK'
  OBVIOUS
<1> USE ManagerAssumption DEF TypeOK
<1>1. ASSUME NEW r \in Requests, Assign(r) PROVE TypeOK'
  BY <1>1 DEF Assign, files
<1>2. ASSUME NEW r \in Requests, Lock(r) PROVE TypeOK'
  BY <1>2 DEF Lock, Goto, Operations, PCs, files, locals
<1>3. ASSUME NEW r \in Requests, Return(r) PROVE TypeOK'
  BY <1>3 DEF Return, Goto, PCs, files, locals
<1>4. ASSUME NEW r \in Requests, Load(r) PROVE TypeOK'
  <2>1. stateRead \in Provisionings
    BY ParsedType, ZeroTypes DEF stateRead
  <2> QED
    BY <1>4, <2>1 DEF Load, Goto, PCs, files
<1>5. ASSUME NEW r \in Requests, LoadVerification(r) PROVE TypeOK'
  <2>1. verificationRead \in VerificationStates
    BY ParsedType, ZeroTypes DEF verificationRead
  <2> QED
    BY <1>5, <2>1 DEF LoadVerification, Goto, PCs, files
<1>6. ASSUME NEW r \in Requests, SaveTruncates(r) PROVE TypeOK'
  BY <1>6 DEF SaveTruncates, Goto, PCs, locals, FileContents
<1>7. ASSUME NEW r \in Requests, SaveWrites(r) PROVE TypeOK'
  BY <1>7 DEF SaveWrites, Goto, PCs, FileContents, Whole
<1>8. ASSUME NEW r \in Requests, SaveFails(r) PROVE TypeOK'
  BY <1>8 DEF SaveFails, Goto, PCs, FileContents
<1>9. ASSUME NEW r \in Requests, RenderTruncates(r) PROVE TypeOK'
  <2>1. FirstOf(todo[r]) \in Templates
    BY <1>9 DEF FirstOf, Templates
  <2>2. conf[FirstOf(todo[r])] \in ConfContents /\ Torn \in ConfContents
    BY <2>1 DEF ConfContents
  <2> QED
    BY <1>9, <2>1, <2>2 DEF RenderTruncates, Goto, PCs, locals
<1>10. ASSUME NEW r \in Requests, RenderWrites(r) PROVE TypeOK'
  <2> DEFINE t == FirstOf(todo[r])
  <2>1. t \in Templates
    BY <1>10 DEF FirstOf, Templates
  <2>2. Rendered(t, prov[r]) \in ConfContents
    BY <2>1, RenderedType
  <2> QED
    BY <1>10, <2>1, <2>2 DEF RenderWrites, Goto, PCs, FileContents
<1>11. ASSUME NEW r \in Requests, RenderFails(r) PROVE TypeOK'
  BY <1>11 DEF RenderFails, Goto, PCs, FileContents
<1>12. ASSUME NEW r \in Requests, SaveVerificationTruncates(r) PROVE TypeOK'
  BY <1>12 DEF SaveVerificationTruncates, Goto, PCs, locals, FileContents
<1>13. ASSUME NEW r \in Requests, SaveVerificationWrites(r) PROVE TypeOK'
  BY <1>13 DEF SaveVerificationWrites, Goto, PCs, locals, FileContents, Whole
<1>14. ASSUME NEW r \in Requests, SaveVerificationFails(r) PROVE TypeOK'
  BY <1>14 DEF SaveVerificationFails, Goto, PCs, locals, FileContents
<1>15. CASE Crash
  BY <1>15, ZeroTypes DEF Crash, PCs, FileContents
<1>16. CASE UNCHANGED vars
  BY <1>16 DEF vars, files, locals
<1> QED
  BY <1>1, <1>2, <1>3, <1>4, <1>5, <1>6, <1>7, <1>8, <1>9, <1>10, <1>11, <1>12, <1>13,
     <1>14, <1>15, <1>16 DEF Next

\* The variables of ConfigManager have their types in every behaviour.
THEOREM TypeCorrect == Spec => []TypeOK
BY TypeInit, TypeStep, PTL DEF Spec

-----------------------------------------------------------------------------
(* The invariant: mu is held by the one request that is inside an operation, *)
(* and the one that renders has written the record it renders from, which is *)
(* complete, and the templates it is done with.                            *)

Rendering == {"Render", "Render.write"}

\* A template whose .conf is as the record of r makes it.
DoneBy(r) == Templates \ todo[r]

Exclusive == \A r \in Requests : pc[r] # "ready" => mu = r

TodoWhileRendering == \A r \in Requests : pc[r] \in Rendering <=> todo[r] # {}

RenderedSoFar ==
    \A r \in Requests : pc[r] \in Rendering =>
        /\ stateFile = Whole(prov[r])
        /\ Complete(prov[r])
        /\ \A t \in DoneBy(r) : conf[t] = Rendered(t, prov[r])

Inv == TypeOK /\ Exclusive /\ TodoWhileRendering /\ RenderedSoFar /\ NeverRenderedBlank

LEMMA InvInit == Init => Inv
<1> SUFFICES ASSUME Init PROVE Inv
  OBVIOUS
<1>1. TypeOK
  BY TypeInit
<1>2. NeverRenderedBlank
  BY DEF Init, NeverRenderedBlank, Sample
<1> QED
  BY <1>1, <1>2 DEF Init, Inv, Exclusive, TodoWhileRendering, RenderedSoFar, Rendering

\* Nobody is inside an operation but the request that is.
LEMMA Alone ==
    ASSUME Inv, NEW r \in Requests, pc[r] # "ready",
           NEW q \in Requests, q # r
    PROVE  pc[q] = "ready" /\ todo[q] = {}
BY DEF Inv, Exclusive, TodoWhileRendering, Rendering, TypeOK

LEMMA InvStep == Inv /\ [Next]_vars => Inv'
<1> SUFFICES ASSUME Inv, [Next]_vars PROVE Inv'
  OBVIOUS
<1>t. TypeOK /\ TypeOK'
  BY TypeStep DEF Inv
<1> USE ManagerAssumption, <1>t DEF Inv, TypeOK, Exclusive, TodoWhileRendering, RenderedSoFar,
        DoneBy, Rendering
<1>1. ASSUME NEW r \in Requests, Assign(r) PROVE Inv'
  BY <1>1 DEF Assign, files, NeverRenderedBlank
<1>2. ASSUME NEW r \in Requests, Lock(r) PROVE Inv'
  BY <1>2 DEF Lock, Goto, Operations, files, locals, NeverRenderedBlank
<1>3. ASSUME NEW r \in Requests, Return(r) PROVE Inv'
  BY <1>3, Alone DEF Return, Goto, files, locals, NeverRenderedBlank
<1>4. ASSUME NEW r \in Requests, Load(r) PROVE Inv'
  BY <1>4 DEF Load, Goto, files, NeverRenderedBlank
<1>5. ASSUME NEW r \in Requests, LoadVerification(r) PROVE Inv'
  BY <1>5 DEF LoadVerification, Goto, files, NeverRenderedBlank
<1>6. ASSUME NEW r \in Requests, SaveTruncates(r) PROVE Inv'
  BY <1>6, Alone DEF SaveTruncates, Goto, locals, NeverRenderedBlank
<1>7. ASSUME NEW r \in Requests, SaveWrites(r) PROVE Inv'
  <2>1. \A q \in Requests \ {r} : pc[q] = "ready" /\ todo[q] = {}
    BY <1>7, Alone DEF SaveWrites, Goto
  <2>2. CASE Complete(prov[r])
    <3>1. DoneBy(r)' = {} /\ Complete(prov'[r])
      BY <1>7, <2>2 DEF SaveWrites
    <3> QED
      BY <1>7, <2>1, <2>2, <3>1 DEF SaveWrites, Goto, NeverRenderedBlank, Templates
  <2>3. CASE ~ Complete(prov[r])
    BY <1>7, <2>1, <2>3 DEF SaveWrites, Goto, NeverRenderedBlank
  <2> QED
    BY <2>2, <2>3
<1>8. ASSUME NEW r \in Requests, SaveFails(r) PROVE Inv'
  BY <1>8, Alone DEF SaveFails, Goto, NeverRenderedBlank
<1>9. ASSUME NEW r \in Requests, RenderTruncates(r) PROVE Inv'
  <2>1. \A q \in Requests \ {r} : pc[q] = "ready" /\ todo[q] = {}
    BY <1>9, Alone DEF RenderTruncates, Goto
  <2>2. FirstOf(todo[r]) \in todo[r]
    BY <1>9, FirstOfTodo DEF RenderTruncates, Goto
  <2>3. NeverRenderedBlank'
    BY <1>9, <2>2 DEF RenderTruncates, NeverRenderedBlank, Torn
  <2> QED
    BY <1>9, <2>1, <2>2, <2>3 DEF RenderTruncates, Goto, locals
<1>10. ASSUME NEW r \in Requests, RenderWrites(r) PROVE Inv'
  <2> DEFINE t == FirstOf(todo[r])
  <2>1. \A q \in Requests \ {r} : pc[q] = "ready" /\ todo[q] = {}
    BY <1>10, Alone DEF RenderWrites, Goto
  <2>2. t \in todo[r] /\ t \in Templates
    BY <1>10, FirstOfTodo DEF RenderWrites, Goto
  <2>3. Complete(prov[r])
    BY <1>10 DEF RenderWrites, Goto
  <2>4. NeverRenderedBlank'
    <3>1. \A f \in Placeholders[t] : Rendered(t, prov[r]).values[f] # Blank
      BY <2>2, <2>3, RenderedComplete
    <3> QED
      BY <1>10, <2>2, <3>1 DEF RenderWrites, NeverRenderedBlank
  <2>5. conf' = [conf EXCEPT ![t] = Rendered(t, prov[r])] /\ todo' = [todo EXCEPT ![r] = @ \ {t}]
    BY <1>10 DEF RenderWrites
  <2>6. prov'[r] = prov[r] /\ stateFile' = stateFile /\ mu' = mu
    BY <1>10 DEF RenderWrites
  <2>7. \A u \in DoneBy(r)' : conf'[u] = Rendered(u, prov'[r])
    BY <1>10, <2>2, <2>5, <2>6 DEF RenderWrites, Goto
  <2>8. pc' = [pc EXCEPT ![r] = IF todo[r] = {t} THEN "return" ELSE "Render"]
        /\ pc[r] = "Render.write"
    BY <1>10 DEF RenderWrites, Goto
  <2>9. Exclusive' /\ TodoWhileRendering'
    BY <2>1, <2>2, <2>5, <2>6, <2>8
  <2>10. RenderedSoFar'
    <3>1. Complete(prov'[r])
      BY <2>3, <2>6
    <3> QED
      BY <2>1, <2>6, <2>7, <2>8, <3>1
  <2> QED
    BY <2>4, <2>9, <2>10
<1>11. ASSUME NEW r \in Requests, RenderFails(r) PROVE Inv'
  BY <1>11, Alone DEF RenderFails, Goto, NeverRenderedBlank
<1>12. ASSUME NEW r \in Requests, SaveVerificationTruncates(r) PROVE Inv'
  BY <1>12, Alone DEF SaveVerificationTruncates, Goto, locals, NeverRenderedBlank
<1>13. ASSUME NEW r \in Requests, SaveVerificationWrites(r) PROVE Inv'
  BY <1>13, Alone DEF SaveVerificationWrites, Goto, locals, NeverRenderedBlank
<1>14. ASSUME NEW r \in Requests, SaveVerificationFails(r) PROVE Inv'
  BY <1>14, Alone DEF SaveVerificationFails, Goto, locals, NeverRenderedBlank
<1>15. CASE Crash
  BY <1>15 DEF Crash, NeverRenderedBlank
<1>16. CASE UNCHANGED vars
  BY <1>16 DEF vars, files, locals, NeverRenderedBlank
<1> QED
  BY <1>1, <1>2, <1>3, <1>4, <1>5, <1>6, <1>7, <1>8, <1>9, <1>10, <1>11, <1>12, <1>13,
     <1>14, <1>15, <1>16 DEF Next

THEOREM Invariance == Spec => []Inv
BY InvInit, InvStep, PTL DEF Spec

\* No .conf is ever rendered with a value missing (NeverRenderedBlank).
THEOREM NeverBlank == Spec => []NeverRenderedBlank
BY Invariance, PTL DEF Inv

-----------------------------------------------------------------------------
(* A Save that succeeds. *)

LEMMA SaveSucceedsStep ==
    ASSUME Inv, [Next]_vars, NEW r \in Requests,
           pc[r] \in {"Save.write", "Render.write"}, pc'[r] = "return", saved'[r] = "ok"
    PROVE  /\ stateFile' = Whole(prov[r])
           /\ Complete(prov[r]) => \A t \in Templates : conf'[t] = Rendered(t, prov[r])
<1> USE DEF Inv, TypeOK
<1>1. \A q \in Requests \ {r} : pc[q] = "ready"
  BY Alone
<1>2. CASE SaveWrites(r)
  BY <1>2 DEF SaveWrites, Goto
<1>3. CASE RenderWrites(r)
  <2>1. todo[r] = {FirstOf(todo[r])} /\ FirstOf(todo[r]) \in Templates
    BY <1>3, FirstOfTodo DEF RenderWrites, Goto, TodoWhileRendering, Rendering
  <2> QED
    BY <1>3, <2>1 DEF RenderWrites, Goto, RenderedSoFar, Rendering, DoneBy
<1>4. CASE Crash
  BY <1>4 DEF Crash
<1>5. CASE UNCHANGED vars
  BY <1>5 DEF vars
<1>6. CASE SaveFails(r) \/ RenderFails(r)
  BY <1>6 DEF SaveFails, RenderFails
<1>7. CASE Assign(r) \/ Lock(r) \/ Return(r) \/ Load(r) \/ LoadVerification(r)
           \/ SaveTruncates(r) \/ RenderTruncates(r) \/ SaveVerificationTruncates(r)
           \/ SaveVerificationWrites(r) \/ SaveVerificationFails(r)
  BY <1>7 DEF Assign, Lock, Return, Load, LoadVerification, SaveTruncates, RenderTruncates,
     SaveVerificationTruncates, SaveVerificationWrites, SaveVerificationFails, Goto, Operations
<1>8. ASSUME NEW q \in Requests, q # r,
             \/ Assign(q) \/ Lock(q) \/ Return(q) \/ Load(q) \/ LoadVerification(q)
             \/ SaveTruncates(q) \/ SaveWrites(q) \/ SaveFails(q)
             \/ RenderTruncates(q) \/ RenderWrites(q) \/ RenderFails(q)
             \/ SaveVerificationTruncates(q) \/ SaveVerificationWrites(q)
             \/ SaveVerificationFails(q)
      PROVE FALSE
  <2>1. pc'[r] = pc[r]
    BY <1>8 DEF Assign, Lock, Return, Load, LoadVerification, SaveTruncates, SaveWrites,
       SaveFails, RenderTruncates, RenderWrites, RenderFails, SaveVerificationTruncates,
       SaveVerificationWrites, SaveVerificationFails, Goto
  <2> QED
    BY <2>1
<1> QED
  BY <1>2, <1>3, <1>4, <1>5, <1>6, <1>7, <1>8 DEF Next

\* A Save that reports success has written state.json and every template from
\* its record (SaveSucceedsWhole), whatever failed before and whoever else saves.
THEOREM SuccessIsWhole == Spec => SaveSucceedsWhole
<1>1. Inv /\ [Next]_vars =>
        [\A r \in Requests :
          /\ pc[r] \in {"Save.write", "Render.write"}
          /\ pc'[r] = "return"
          /\ saved'[r] = "ok"
          =>
              /\ stateFile' = Whole(prov[r])
              /\ Complete(prov[r]) =>
                    \A t \in Templates : conf'[t] = Rendered(t, prov[r])]_vars
  BY SaveSucceedsStep
<1> QED
  BY <1>1, Invariance, PTL DEF Spec, SaveSucceedsWhole

-----------------------------------------------------------------------------
(* The files agree whenever nobody is writing them, unless the last          *)
(* rendering was cut short: a Save that is cut short leaves a state.json     *)
(* that does not parse, and is read as a record with everything missing.     *)

TornWhileSaving == \A r \in Requests : pc[r] = "Save.write" => stateFile = Torn

Matching ==
    /\ rendered
    /\ \A r \in Requests : pc[r] \notin {"Save.write"} \cup Rendering
    /\ Complete(stateRead)
    => \A t \in Templates : conf[t] = Rendered(t, stateRead)

LEMMA TornStep == Inv /\ TornWhileSaving /\ [Next]_vars => TornWhileSaving'
<1> SUFFICES ASSUME Inv, TornWhileSaving, [Next]_vars PROVE TornWhileSaving'
  OBVIOUS
<1> USE DEF Inv, TypeOK, TornWhileSaving
<1>1. ASSUME NEW r \in Requests, SaveTruncates(r) PROVE TornWhileSaving'
  BY <1>1 DEF SaveTruncates
<1>2. ASSUME NEW r \in Requests, SaveWrites(r) PROVE TornWhileSaving'
  <2>1. \A q \in Requests : pc'[q] # "Save.write"
    BY <1>2, Alone DEF SaveWrites, Goto
  <2> QED
    BY <2>1
<1>3. ASSUME NEW r \in Requests,
             \/ Assign(r) \/ Lock(r) \/ Return(r) \/ Load(r) \/ LoadVerification(r)
             \/ SaveFails(r) \/ RenderTruncates(r) \/ RenderWrites(r) \/ RenderFails(r)
             \/ SaveVerificationTruncates(r) \/ SaveVerificationWrites(r)
             \/ SaveVerificationFails(r)
      PROVE TornWhileSaving'
  <2>1. /\ \A q \in Requests : pc'[q] = "Save.write" => pc[q] = "Save.write"
        /\ stateFile' = stateFile
    BY <1>3 DEF Assign, Lock, Return, Load, LoadVerification, SaveFails, RenderTruncates,
       RenderWrites, RenderFails, SaveVerificationTruncates, SaveVerificationWrites,
       SaveVerificationFails, Goto, Operations, files
  <2> QED
    BY <2>1
<1>4. CASE Crash
  BY <1>4 DEF Crash
<1>5. CASE UNCHANGED vars
  BY <1>5 DEF vars, files
<1> QED
  BY <1>1, <1>2, <1>3, <1>4, <1>5 DEF Next

LEMMA ReadBack == \A p : Parsed(Whole(p), ZeroProvisioning) = p
BY DEF Parsed, Whole

LEMMA ZeroIsIncomplete == ~ Complete(ZeroProvisioning)
BY DEF Complete, missing, ZeroProvisioning, Fields

LEMMA MatchingStep ==
    ASSUME Inv, TornWhileSaving, Matching, [Next]_vars
    PROVE  Matching'
<1> USE DEF Inv, TypeOK, Matching, Rendering
<1>1. ASSUME NEW r \in Requests, SaveWrites(r) PROVE Matching'
  <2>1. CASE Complete(prov[r])
    <3>1. pc'[r] = "Render"
      BY <1>1, <2>1 DEF SaveWrites, Goto
    <3> QED
      BY <3>1
  <2>2. CASE ~ Complete(prov[r])
    <3>1. stateRead' = prov[r]
      BY <1>1, ReadBack DEF SaveWrites, stateRead
    <3> QED
      BY <2>2, <3>1
  <2> QED
    BY <2>1, <2>2
<1>2. ASSUME NEW r \in Requests, RenderWrites(r) PROVE Matching'
  <2> DEFINE t == FirstOf(todo[r])
  <2>1. CASE todo[r] = {t}
    <3>1. stateRead' = prov[r]
      BY <1>2, ReadBack DEF RenderWrites, Goto, stateRead, RenderedSoFar
    <3>2. t \in Templates
      BY <2>1
    <3>3. \A u \in Templates \ {t} : conf[u] = Rendered(u, prov[r])
      BY <1>2, <2>1 DEF RenderWrites, Goto, RenderedSoFar, DoneBy
    <3> QED
      BY <1>2, <3>1, <3>2, <3>3 DEF RenderWrites
  <2>2. CASE todo[r] # {t}
    <3>1. pc'[r] = "Render"
      BY <1>2, <2>2 DEF RenderWrites, Goto
    <3> QED
      BY <3>1
  <2> QED
    BY <2>1, <2>2
<1>3. ASSUME NEW r \in Requests, SaveTruncates(r) PROVE Matching'
  <2>1. pc'[r] = "Save.write"
    BY <1>3 DEF SaveTruncates, Goto
  <2> QED
    BY <2>1
<1>4. ASSUME NEW r \in Requests, RenderTruncates(r) PROVE Matching'
  <2>1. pc'[r] = "Render.write"
    BY <1>4 DEF RenderTruncates, Goto
  <2> QED
    BY <2>1
<1>5. ASSUME NEW r \in Requests,
             \/ Assign(r) \/ Lock(r) \/ Return(r) \/ Load(r) \/ LoadVerification(r)
             \/ SaveVerificationTruncates(r) \/ SaveVerificationWrites(r)
      PROVE Matching'
  <2>1. /\ \A q \in Requests : pc'[q] \notin {"Save.write", "Render", "Render.write"}
                => pc[q] \notin {"Save.write", "Render", "Render.write"}
        /\ stateFile' = stateFile /\ conf' = conf /\ rendered' = rendered
    BY <1>5 DEF Assign, Lock, Return, Load, LoadVerification, SaveVerificationTruncates,
       SaveVerificationWrites, Goto, Operations, files
  <2> QED
    BY <2>1 DEF stateRead
<1>6. ASSUME NEW r \in Requests, SaveFails(r) PROVE Matching'
  <2>1. CASE pc[r] = "Save"
    BY <1>6, <2>1 DEF SaveFails, Goto, stateRead
  <2>2. CASE pc[r] = "Save.write"
    <3>1. stateRead' = ZeroProvisioning
      BY <1>6, <2>2 DEF SaveFails, TornWhileSaving, stateRead, Parsed, Torn
    <3> QED
      BY <3>1, ZeroIsIncomplete
  <2> QED
    BY <1>6, <2>1, <2>2 DEF SaveFails, Goto
<1>8. CASE Crash
  <2>1. CASE \E r \in Requests : pc[r] = "Save.write"
    <3>1. stateRead' = ZeroProvisioning
      BY <1>8, <2>1 DEF Crash, TornWhileSaving, stateRead, Parsed, Torn
    <3> QED
      BY <3>1, ZeroIsIncomplete
  <2>2. CASE \E r \in Requests : pc[r] \in Rendering
    BY <1>8, <2>2 DEF Crash, TodoWhileRendering
  <2>3. CASE \A r \in Requests : pc[r] \notin {"Save.write"} \cup Rendering
    BY <1>8, <2>3 DEF Crash, stateRead
  <2> QED
    BY <2>1, <2>2, <2>3
<1>9. ASSUME NEW r \in Requests, RenderFails(r) PROVE Matching'
  BY <1>9 DEF RenderFails
<1>10. ASSUME NEW r \in Requests, SaveVerificationFails(r) PROVE Matching'
  BY <1>10 DEF SaveVerificationFails, Goto, stateRead
<1>7. CASE UNCHANGED vars
  BY <1>7 DEF vars, files, stateRead
<1> QED
  BY <1>1, <1>2, <1>3, <1>4, <1>5, <1>6, <1>7, <1>8, <1>9, <1>10 DEF Next

\* Unless the last rendering was cut short, state.json and the files Asterisk
\* reads agree whenever mu is free (ConfsMatchState), whatever else fails.
THEOREM ConfsMatch == Spec => []ConfsMatchState
<1>1. Init => Matching /\ TornWhileSaving
  BY ZeroIsIncomplete DEF Init, Matching, TornWhileSaving, stateRead, Parsed, Absent
<1>2. Inv /\ TornWhileSaving /\ Matching /\ [Next]_vars => Matching'
  BY MatchingStep
<1>3. Inv /\ Matching => ConfsMatchState
  BY ManagerAssumption DEF Inv, Exclusive, Matching, ConfsMatchState, Rendering
<1> QED
  BY <1>1, <1>2, <1>3, TornStep, Invariance, PTL DEF Spec

=============================================================================
