---------------------------- MODULE WebUI_proofs ----------------------------
(***************************************************************************)
(* Proofs about the page and the gateway behind it, for any nonces, faults *)
(* and users: the types of the variables, and that nothing is offered before   *)
(* ClawOps has verified a number.                                          *)
(***************************************************************************)
EXTENDS WebUI, FiniteSetTheorems, TLAPS

-----------------------------------------------------------------------------
(* What a step of the page, its user or the world does to the gateway.     *)

\* An answer is lost or wrong, or a form is edited.
Suffers == Detour /\ loaded' \in {loaded, {}} /\ UNCHANGED <<recordVars, link, service, cloudVars>>

GatewayMoves ==
    \/ UNCHANGED gatewayVars
    \/ Suffers
    \/ \E answer \in Answers : AnswersVerification(answer)
    \/ \E b \in Buttons : Granted(b) \/ Refused(b)
    \/ SaveLine \/ Boots
    \/ Ages
    \/ \E n \in Nonces : Verifies(n) \/ Expires(n)
    \/ Revokes \/ Handshakes \/ ServiceRuns

LEMMA StatusMoves == ASSUME NEW b, AnswersStatus(b) PROVE GatewayMoves
BY DEF AnswersStatus, GatewayMoves, Suffers, Fails, gatewayVars, recordVars, hostVars, cloudVars

LEMMA EveryStepMoves == [Next]_vars => GatewayMoves
<1> SUFFICES ASSUME [Next]_vars PROVE GatewayMoves
  OBVIOUS
<1>1. CASE Refresh
  BY <1>1, StatusMoves DEF Refresh
<1>2. CASE (\E f \in Fetches : ApplyStatus(f)) \/ verificationLoop
  BY <1>2 DEF ApplyStatus, verificationLoop, refreshVerification, GatewayMoves
<1>3. CASE \E p \in Polls : ApplyPoll(p)
  BY <1>3 DEF ApplyPoll, GatewayMoves
<1>4. CASE \E b \in Buttons : Click(b)
  BY <1>4 DEF Click, GatewayMoves
<1>5. CASE ApplyPost \/ ApplyReset
  BY <1>5, StatusMoves DEF ApplyPost, ApplyReset, GatewayMoves
<1>6. CASE Reload \/ Rejected
  BY <1>6 DEF Reload, Rejected, GatewayMoves, Suffers, Fails, hostVars
<1>7. CASE EditForm
  BY <1>7 DEF EditForm, GatewayMoves, Suffers, gatewayVars, hostVars
<1>8. CASE PairingSaves \/ Reboot \/ GoesStale \/ Outside
  BY <1>8 DEF PairingSaves, Reboot, GoesStale, Outside, GatewayMoves
<1>9. CASE UNCHANGED vars
  BY <1>9 DEF vars, GatewayMoves
<1> QED
  BY <1>1, <1>2, <1>3, <1>4, <1>5, <1>6, <1>7, <1>8, <1>9 DEF Next

-----------------------------------------------------------------------------
(* The types of the gateway.  The bound on detours counts the enrollments, *)
(* so that their number must be known to be finite.                        *)

Issued == {n \in Nonces : sessions[n] # "unissued"}

GatewayTypes == GatewayTypeOK /\ IsFiniteSet(Issued)

LEMMA DetourLeft ==
    ASSUME GatewayTypes, Detour
    PROVE  detours' \in 0 .. MaxDetours
<1> DEFINE again == {n \in Nonces : sessions[n] # "unissued" /\ \E m \in Nonces : m < n}
<1>1. again \in SUBSET Issued
  BY DEF Issued
<1>2. Cardinality(again) \in Nat
  BY <1>1, FS_Subset, FS_CardinalityType DEF GatewayTypes
<1>3. detours + Cardinality(again) < MaxDetours /\ detours' = detours + 1
  BY DEF Detour, MayDetour
<1>4. detours \in Nat /\ MaxDetours \in Nat
  BY GatewayAssumption DEF GatewayTypes, GatewayTypeOK
<1> HIDE DEF again
<1> QED
  BY <1>2, <1>3, <1>4

LEMMA FailureLeft ==
    ASSUME GatewayTypes, NEW fault, Fails(fault)
    PROVE  detours' \in 0 .. MaxDetours
BY DetourLeft DEF Fails

\* A session leaves "unissued" only in an enrollment, one at a time.
LEMMA IssuesType ==
    ASSUME GatewayTypes, NEW n \in Nonces, Issues(n)
    PROVE  /\ sessions' \in [Nonces -> {"unissued", "pending", "verified", "expired"}]
           /\ IsFiniteSet(Issued')
           /\ peer' \in BOOLEAN
<1>1. sessions' = [sessions EXCEPT ![n] = "pending"] /\ peer' = FALSE
  BY DEF Issues
<1>2. sessions \in [Nonces -> {"unissued", "pending", "verified", "expired"}]
  BY DEF GatewayTypes, GatewayTypeOK
<1>3. Issued' = Issued \cup {n}
  BY <1>1, <1>2 DEF Issued
<1>4. IsFiniteSet(Issued \cup {n})
  BY FS_AddElement DEF GatewayTypes
<1> QED
  BY <1>1, <1>2, <1>3, <1>4

LEMMA SameIssued ==
    ASSUME GatewayTypes, UNCHANGED sessions
    PROVE  IsFiniteSet(Issued')
BY DEF GatewayTypes, Issued

RecordTypes == {tunnel_ip, line} \subseteq BOOLEAN /\ did \in Nonces \cup {None}

LEMMA RecordType ==
    ASSUME GatewayTypes
    PROVE  Record \in Records /\ ZeroRecord \in Records /\ Merged \in Records
BY DEF GatewayTypes, GatewayTypeOK, Record, ZeroRecord, Merged, Records

LEMMA SavesType ==
    ASSUME NEW p \in Records, Saves(p)
    PROVE  RecordTypes'
BY DEF Records, Saves, RecordTypes

LEMMA SaveFailsType ==
    ASSUME GatewayTypes, NEW p \in Records, SaveFails(p)
    PROVE  RecordTypes' /\ detours' \in 0 .. MaxDetours
BY RecordType, SavesType, FailureLeft DEF SaveFails

LEMMA OverwritesType == ASSUME Overwrites PROVE overwritten' \in BOOLEAN
BY DEF Overwrites

LEMMA EnrollType ==
    ASSUME GatewayTypes, NewSession \/ NoSession, NEW up \in BOOLEAN, TunnelUp(up),
           RecordTypes', detours' \in 0 .. MaxDetours
    PROVE  GatewayTypes'
<1> USE DEF GatewayTypes, GatewayTypeOK
<1>1. link' \in {"down", "stale", "fresh"} /\ UNCHANGED <<paired, loaded, service>>
  BY DEF TunnelUp
<1>2. CASE NewSession
  <2>1. PICK n \in Nonces : Issues(n) /\ nonce' = n
    BY <1>2 DEF NewSession
  <2>2. /\ sessions' \in [Nonces -> {"unissued", "pending", "verified", "expired"}]
        /\ IsFiniteSet(Issued') /\ peer' \in BOOLEAN
    BY <2>1, IssuesType
  <2> QED
    BY <1>1, <1>2, <2>1, <2>2 DEF NewSession, RecordTypes
<1>3. CASE NoSession
  BY <1>1, <1>3, SameIssued, OverwritesType DEF NoSession, RecordTypes
<1> QED
  BY <1>2, <1>3

LEMMA EnrollTypes ==
    ASSUME GatewayTypes, EnrollGranted \/ EnrollRefused
    PROVE  GatewayTypes'
<1>1. Merged \in Records /\ TRUE \in BOOLEAN /\ FALSE \in BOOLEAN
  BY RecordType
<1>2. CASE Enroll(TRUE) /\ UNCHANGED detours
  <2>1. detours' \in 0 .. MaxDetours
    BY <1>2 DEF GatewayTypes, GatewayTypeOK
  <2> QED
    BY <1>1, <1>2, <2>1, SavesType, EnrollType DEF Enroll
<1>3. CASE Fails("clawops") /\ Saves(Merged) /\ NoSession /\ TunnelUp(TRUE)
  BY <1>1, <1>3, SavesType, EnrollType, FailureLeft
<1>4. CASE UNCHANGED gatewayVars
  BY <1>4, SameIssued DEF gatewayVars, recordVars, hostVars, cloudVars, GatewayTypes, GatewayTypeOK
<1>5. ASSUME NEW n \in Nonces, Issues(n), Fails("clawops"), UNCHANGED <<recordVars, hostVars>>
      PROVE  GatewayTypes'
  <2>1. /\ sessions' \in [Nonces -> {"unissued", "pending", "verified", "expired"}]
        /\ IsFiniteSet(Issued') /\ peer' \in BOOLEAN
    BY <1>5, IssuesType
  <2>2. detours' \in 0 .. MaxDetours
    BY <1>5, FailureLeft
  <2> QED
    BY <1>5, <2>1, <2>2 DEF recordVars, hostVars, GatewayTypes, GatewayTypeOK
<1>6. CASE Fails("wg") /\ Enroll(FALSE)
  BY <1>1, <1>6, SavesType, EnrollType, FailureLeft DEF Enroll
<1>7. CASE SaveFails(Merged) /\ NewSession /\ TunnelUp(TRUE)
  BY <1>1, <1>7, SaveFailsType, EnrollType
<1> QED
  BY <1>2, <1>3, <1>4, <1>5, <1>6, <1>7 DEF EnrollGranted, EnrollRefused

\* A pairing or a form saves a record that was loaded before.
LEMMA SavingTypes ==
    ASSUME GatewayTypes, NEW p \in Records, SaveLine \/ ConfigSave(p) \/ ConfigSaveFails(p)
    PROVE  GatewayTypes'
<1> USE DEF GatewayTypes, GatewayTypeOK
<1>1. ASSUME RecordTypes', detours' \in 0 .. MaxDetours, Overwrites, loaded' \in {loaded, {}},
             UNCHANGED <<paired, nonce, cached, link, service, cloudVars>>
      PROVE  GatewayTypes'
  BY <1>1, OverwritesType, SameIssued DEF RecordTypes, cloudVars
<1>2. ASSUME NEW q \in Records, NEW l \in BOOLEAN PROVE [q EXCEPT !.line = l] \in Records
  BY DEF Records
<1>3. CASE SaveLine
  <2>1. PICK q \in loaded : \/ Saves([q EXCEPT !.line = TRUE]) /\ UNCHANGED detours
                            \/ Fails("phone") /\ Saves(q)
                            \/ SaveFails([q EXCEPT !.line = TRUE])
    BY <1>3 DEF SaveLine
  <2>2. RecordTypes' /\ detours' \in 0 .. MaxDetours
    BY <1>2, <2>1, SavesType, SaveFailsType, FailureLeft
  <2> QED
    BY <1>1, <1>3, <2>2 DEF SaveLine
<1>4. CASE ConfigSave(p)
  <2>1. PICK l \in {p.line, TRUE} : Saves([p EXCEPT !.line = l])
    BY <1>4 DEF ConfigSave
  <2>2. l \in BOOLEAN
    BY <2>1 DEF Records
  <2> QED
    BY <1>1, <1>2, <1>4, <2>1, <2>2, SavesType DEF ConfigSave, hostVars
<1>5. CASE ConfigSaveFails(p)
  <2>1. PICK l \in {p.line, TRUE} : SaveFails([p EXCEPT !.line = l])
    BY <1>5 DEF ConfigSaveFails
  <2>2. l \in BOOLEAN
    BY <2>1 DEF Records
  <2> QED
    BY <1>1, <1>2, <1>5, <2>1, <2>2, SaveFailsType DEF ConfigSaveFails, hostVars
<1> QED
  BY <1>3, <1>4, <1>5

LEMMA ButtonTypes ==
    ASSUME GatewayTypes, form \in Forms, NEW b \in Buttons, Granted(b) \/ Refused(b)
    PROVE  GatewayTypes'
<1> USE DEF GatewayTypes, GatewayTypeOK
<1>1. form.record \in Records
  BY DEF Forms
<1>2. CASE PairPhone
  BY <1>2, SameIssued, RecordType DEF PairPhone, cloudVars
<1>3. CASE PairFails \/ ServiceActionFails
  BY <1>3, SameIssued, FailureLeft DEF PairFails, ServiceActionFails, recordVars, hostVars, cloudVars
<1>4. CASE ServiceAction(b)
  BY <1>4, SameIssued DEF ServiceAction, recordVars, cloudVars, Services
<1>5. CASE Reset
  <2>1. RecordTypes'
    BY <1>5, RecordType, SavesType DEF Reset
  <2> QED
    BY <1>5, <2>1, SameIssued DEF Reset, RecordTypes, cloudVars, Services
<1> QED
  BY <1>1, <1>2, <1>3, <1>4, <1>5, EnrollTypes, SavingTypes DEF Granted, Refused

LEMMA AnswerTypes ==
    ASSUME GatewayTypes, NEW answer \in Answers, AnswersVerification(answer)
    PROVE  GatewayTypes'
<1> USE DEF GatewayTypes, GatewayTypeOK
<1>1. CASE AnswersAtOnce(answer)
  BY <1>1, SameIssued DEF AnswersAtOnce, gatewayVars, recordVars, hostVars, cloudVars
<1>2. CASE Answered(answer)
  <2> DEFINE p == [Record EXCEPT !.did = nonce]
  <2>1. p \in Records
    BY RecordType DEF Records
  <2>2. RecordTypes' /\ detours' \in 0 .. MaxDetours /\ cached' \in BOOLEAN
    BY <1>2, <2>1, SavesType, SaveFailsType, FailureLeft DEF Answered, RecordTypes
  <2> QED
    BY <1>2, <2>2, OverwritesType, SameIssued DEF Answered, RecordTypes, hostVars, cloudVars
<1>3. CASE PollFails(answer)
  BY <1>3, SameIssued, FailureLeft DEF PollFails, recordVars, hostVars, cloudVars
<1> QED
  BY <1>1, <1>2, <1>3 DEF AnswersVerification

LEMMA WorldTypes ==
    ASSUME GatewayTypes,
           Ages \/ (\E n \in Nonces : Verifies(n) \/ Expires(n)) \/ Revokes \/ Handshakes \/ ServiceRuns
           \/ Boots
    PROVE  GatewayTypes'
<1> USE DEF GatewayTypes, GatewayTypeOK
<1>1. CASE Ages \/ Handshakes
  BY <1>1, SameIssued DEF Ages, Handshakes, recordVars, cloudVars
<1>2. CASE Revokes
  BY <1>2, SameIssued, DetourLeft DEF Revokes, recordVars, hostVars
<1>3. ASSUME NEW n \in Nonces, Verifies(n) \/ Expires(n) PROVE GatewayTypes'
  <2>1. sessions[n] = "pending" /\ \A m \in Nonces \ {n} : sessions'[m] = sessions[m]
    BY <1>3 DEF Verifies, Expires
  <2>2. sessions' \in [Nonces -> {"unissued", "pending", "verified", "expired"}]
    BY <1>3 DEF Verifies, Expires
  <2>3. sessions'[n] \in {"verified", "expired"}
    BY <1>3 DEF Verifies, Expires
  <2>4. Issued' = Issued
    BY <2>1, <2>2, <2>3 DEF Issued
  <2>5. peer' \in BOOLEAN
    BY <1>3 DEF Verifies, Expires, Latest
  <2> QED
    BY <1>3, <2>2, <2>4, <2>5 DEF Verifies, Expires, recordVars, hostVars
<1>4. CASE ServiceRuns
  BY <1>4, SameIssued, FailureLeft DEF ServiceRuns, recordVars, cloudVars, Services
<1>5. CASE Boots
  BY <1>5, SameIssued, FailureLeft DEF Boots, recordVars, cloudVars, Services
<1> QED
  BY <1>1, <1>2, <1>3, <1>4, <1>5

LEMMA GatewayTypesStep == GatewayTypes /\ form \in Forms /\ GatewayMoves => GatewayTypes'
<1> SUFFICES ASSUME GatewayTypes, form \in Forms, GatewayMoves PROVE GatewayTypes'
  OBVIOUS
<1>1. CASE UNCHANGED gatewayVars
  BY <1>1, SameIssued DEF gatewayVars, recordVars, hostVars, cloudVars, GatewayTypes, GatewayTypeOK
<1>2. CASE Suffers
  BY <1>2, SameIssued, DetourLeft DEF Suffers, recordVars, cloudVars, GatewayTypes, GatewayTypeOK
<1>3. CASE SaveLine
  BY <1>3, RecordType, SavingTypes
<1> QED
  BY <1>1, <1>2, <1>3, ButtonTypes, AnswerTypes, WorldTypes DEF GatewayMoves

-----------------------------------------------------------------------------
(* The types of the page. *)

PageTypes ==
    /\ status \in Snapshots
    /\ verified \in BOOLEAN
    /\ unlockedSteps \subseteq 0 .. 3
    /\ shown \subseteq {"operational", "link_down", "start", "restart", "stop"}
    /\ form \in Forms

CallTypes ==
    /\ fetch \in [Fetches -> Snapshots]
    /\ poll \in [Polls -> {"idle", "dead", "verified", "other"}]
    /\ post \in [button : Buttons, granted : BOOLEAN] \cup {NoPost}
    /\ stuck \subseteq {"enroll", "reset"}

LEMMA NothingType == Nothing \in Snapshots /\ Clean \in Forms
BY DEF Nothing, Snapshots, ZeroRecord, Records, Clean, Forms

\* An answer to the status query is a snapshot, right or not.
LEMMA AnswerType ==
    ASSUME GatewayTypeOK
    PROVE  StatusAnswers \subseteq Snapshots
<1>1. Record \in Records
  BY DEF GatewayTypeOK, Record, Records
<1>2. Snapshot \in Snapshots
  BY <1>1 DEF GatewayTypeOK, Snapshot, Snapshots, BTStatus, TunnelStatus, ServiceStatus, ChanMobileStatus
<1> HIDE DEF Snapshot
<1> QED
  BY <1>2 DEF StatusAnswers, Snapshots

LEMMA AgedType == ASSUME NEW b \in Snapshots PROVE Aged(b) \in Snapshots
BY DEF Aged, tunnelLinkFresh, Snapshots

LEMMA JourneyType ==
    ASSUME NEW b \in Snapshots, NEW v, NEW f \in Forms, updateJourney(b, v, f)
    PROVE  /\ unlockedSteps' \subseteq 0 .. 3
           /\ shown' \subseteq {"operational", "link_down", "start", "restart", "stop"}
           /\ form' \in Forms
<1>1. Unlocked(b, v) \subseteq 0 .. 3
  BY DEF Unlocked
<1>2. Shown(b, v) \subseteq {"operational", "link_down", "start", "restart", "stop"}
  BY DEF Shown
<1>3. form' \in Forms
  BY NothingType DEF updateJourney, Snapshots, Forms
<1> QED
  BY <1>1, <1>2, <1>3 DEF updateJourney

LEMMA PollType ==
    ASSUME CallTypes, verified \in BOOLEAN, NEW p \in Polls, NEW b, refreshVerification(p, b)
    PROVE  /\ poll' \in [Polls -> {"idle", "dead", "verified", "other"}]
           /\ verified' \in BOOLEAN
BY DEF refreshVerification, CallTypes, Read

LEMMA PageTypesStep ==
    GatewayTypeOK /\ PageTypes /\ CallTypes /\ [Next]_vars => PageTypes' /\ CallTypes'
<1> SUFFICES ASSUME GatewayTypeOK, PageTypes, CallTypes, [Next]_vars
             PROVE  PageTypes' /\ CallTypes'
  OBVIOUS
<1> USE DEF PageTypes, CallTypes
<1>1. CASE Refresh
  BY <1>1, AnswerType DEF Refresh, pageVars, Fetches
<1>2. ASSUME NEW f \in Fetches, ApplyStatus(f) PROVE PageTypes' /\ CallTypes'
  <2>1. fetch[f] \in Snapshots /\ updateJourney(fetch[f], verified, form) /\ status' = fetch[f]
    BY <1>2 DEF ApplyStatus
  <2>2. poll' \in [Polls -> {"idle", "dead", "verified", "other"}] /\ verified' \in BOOLEAN
    BY <1>2, PollType DEF ApplyStatus, Polls
  <2>3. CallTypes'
    BY <1>2, <2>2, NothingType DEF ApplyStatus
  <2> QED
    BY <2>1, <2>2, <2>3, JourneyType
<1>3. CASE verificationLoop
  BY <1>3, PollType DEF verificationLoop, Polls
<1>4. ASSUME NEW p \in Polls, ApplyPoll(p) PROVE PageTypes' /\ CallTypes'
  <2>1. updateJourney(status, poll[p] = "verified", form)
    BY <1>4 DEF ApplyPoll
  <2> QED
    BY <1>4, <2>1, JourneyType DEF ApplyPoll
<1>5. ASSUME NEW b \in Buttons, Click(b) PROVE PageTypes' /\ CallTypes'
  BY <1>5 DEF Click, pageVars
<1>6. CASE ApplyPost
  <2>1. CASE UNCHANGED <<status, unlockedSteps, shown, form>>
    BY <1>6, <2>1 DEF ApplyPost
  <2>2. ASSUME NEW b \in StatusAnswers, NEW f \in {Clean, form}, status' = b, updateJourney(b, verified, f)
        PROVE  PageTypes' /\ CallTypes'
    <3>1. b \in Snapshots /\ f \in Forms
      BY <2>2, AnswerType, NothingType
    <3> QED
      BY <1>6, <2>2, <3>1, JourneyType DEF ApplyPost
  <2> QED
    BY <1>6, <2>1, <2>2 DEF ApplyPost
<1>7. CASE ApplyReset
  <2>1. form' \in Forms
    BY <1>7, NothingType DEF ApplyReset, Forms
  <2> QED
    BY <1>7, <2>1, AnswerType DEF ApplyReset, Fetches
<1>8. CASE Reload
  <2>1. fetch' \in [Fetches -> Snapshots] /\ poll' \in [Polls -> {"idle", "dead", "verified", "other"}]
    BY <1>8, NothingType DEF Reload
  <2>2. unlockedSteps' \subseteq 0 .. 3
    BY <1>8 DEF Reload
  <2> QED
    BY <1>8, <2>1, <2>2, NothingType DEF Reload
<1>9. CASE Rejected
  BY <1>9, NothingType DEF Rejected, pageVars
<1>10. CASE GoesStale
  BY <1>10, AgedType DEF GoesStale
<1>11. CASE EditForm
  BY <1>11, NothingType DEF EditForm, callVars, Forms, Snapshots
<1>12. CASE Reboot
  BY <1>12 DEF Reboot, pageVars
<1>13. CASE PairingSaves \/ Outside \/ UNCHANGED vars
  BY <1>13 DEF PairingSaves, Outside, pageVars, callVars, vars
<1> QED
  BY <1>1, <1>2, <1>3, <1>4, <1>5, <1>6, <1>7, <1>8, <1>9, <1>10, <1>11, <1>12, <1>13 DEF Next

Types == GatewayTypes /\ PageTypes /\ CallTypes

LEMMA TypesInit == Init => Types
<1> SUFFICES ASSUME Init PROVE Types
  OBVIOUS
<1>1. GatewayTypeOK
  <2>1. detours \in 0 .. MaxDetours
    BY GatewayAssumption DEF Init, GatewayInit
  <2>2. sessions \in [Nonces -> {"unissued", "pending", "verified", "expired"}]
    BY DEF Init, GatewayInit
  <2> QED
    BY <2>1, <2>2 DEF Init, GatewayInit, GatewayTypeOK, Services
<1>2. Issued = {}
  BY DEF Init, GatewayInit, Issued
<1>3. IsFiniteSet(Issued)
  BY <1>2, FS_EmptySet
<1>4. PageTypes /\ CallTypes
  <2>1. unlockedSteps \subseteq 0 .. 3 /\ shown = {} /\ stuck = {}
    BY DEF Init
  <2>2. fetch \in [Fetches -> Snapshots] /\ poll \in [Polls -> {"idle", "dead", "verified", "other"}]
    BY NothingType DEF Init
  <2> QED
    BY <2>1, <2>2, NothingType DEF Init, PageTypes, CallTypes
<1> QED
  BY <1>1, <1>3, <1>4 DEF Types, GatewayTypes

LEMMA TypesStep == Types /\ [Next]_vars => Types'
BY EveryStepMoves, GatewayTypesStep, PageTypesStep DEF Types, GatewayTypes, PageTypes

\* The variables of the page and of the gateway have their types in every
\* behaviour, the number of detours among them: it never exceeds its bound.
THEOREM TypeCorrect == Spec => []TypeOK
<1>1. Types => TypeOK
  BY DEF Types, GatewayTypes, PageTypes, CallTypes, TypeOK
<1> QED
  BY TypesInit, TypesStep, <1>1, PTL DEF Spec

-----------------------------------------------------------------------------
(* Nothing before the verification.  That a number is verified is known in *)
(* many places at once, each of which may be out of date: the record, the  *)
(* answer to a poll, the page, and what it offered in an earlier status.   *)

SomeVerified == \E n \in Nonces : sessions[n] = "verified"

\* What the agent caches is the number of a session that is verified.
CachedVerified == cached => nonce \in Nonces /\ sessions[nonce] = "verified"

\* Who knows of a verified number.
Known ==
    \/ verified
    \/ \E p \in Polls : poll[p] = "verified"
    \/ ~ (shown \subseteq {"stop"})
    \/ 3 \in unlockedSteps
    \/ post.button \in {"start", "restart"}

PageInv == CachedVerified /\ (Known => SomeVerified)

\* ClawOps never takes back that a number is verified.
Settled == \A n \in Nonces : sessions[n] = "verified" => sessions'[n] = "verified"

\* Only an enrollment, whatever comes of it, issues a session.
LEMMA ButtonIssues ==
    ASSUME NEW b \in Buttons, Granted(b) \/ Refused(b)
    PROVE  UNCHANGED sessions \/ \E n \in Nonces : Issues(n)
<1>1. EnrollGranted => UNCHANGED sessions \/ \E n \in Nonces : Issues(n)
  BY DEF EnrollGranted, Enroll, NewSession, NoSession
<1>2. EnrollRefused => UNCHANGED sessions \/ \E n \in Nonces : Issues(n)
  BY DEF EnrollRefused, Enroll, NewSession, gatewayVars, cloudVars
<1> QED
  BY <1>1, <1>2
  DEF Granted, Refused, PairPhone, PairFails, ServiceAction, ServiceActionFails, Reset, ConfigSave,
      ConfigSaveFails, cloudVars

\* Whatever else happens leaves the sessions alone, but for what ClawOps does.
LEMMA SessionsMove ==
    ASSUME GatewayMoves
    PROVE  UNCHANGED sessions \/ \E n \in Nonces : Issues(n) \/ Verifies(n) \/ Expires(n)
<1>1. ASSUME NEW answer \in Answers, AnswersVerification(answer) PROVE UNCHANGED sessions
  BY <1>1
  DEF AnswersVerification, AnswersAtOnce, Answered, PollFails, gatewayVars, cloudVars
<1>2. CASE UNCHANGED gatewayVars \/ Suffers \/ SaveLine \/ Boots \/ Ages \/ Revokes \/ Handshakes \/ ServiceRuns
  BY <1>2 DEF Suffers, SaveLine, Boots, Ages, Revokes, Handshakes, ServiceRuns, gatewayVars, cloudVars
<1> QED
  BY <1>1, <1>2, ButtonIssues DEF GatewayMoves

LEMMA MovesSettle ==
    ASSUME GatewayTypeOK, GatewayMoves
    PROVE  Settled
<1>1. ASSUME NEW n \in Nonces, Issues(n) PROVE Settled
  BY <1>1 DEF Issues, Settled, GatewayTypeOK
<1>2. ASSUME NEW n \in Nonces, Verifies(n) \/ Expires(n) PROVE Settled
  BY <1>2 DEF Verifies, Expires, Settled, GatewayTypeOK
<1>3. ASSUME UNCHANGED sessions PROVE Settled
  BY <1>3 DEF Settled
<1> QED
  BY <1>1, <1>2, <1>3, SessionsMove

LEMMA CachedStep ==
    ASSUME GatewayTypeOK, CachedVerified, GatewayMoves
    PROVE  CachedVerified'
<1> USE DEF CachedVerified
<1>1. Settled /\ nonce \in Nonces \cup {None}
  BY MovesSettle DEF GatewayTypeOK
<1>2. ASSUME UNCHANGED <<nonce, cached>> PROVE CachedVerified'
  BY <1>1, <1>2 DEF Settled
<1>3. ASSUME cached' = FALSE PROVE CachedVerified'
  BY <1>3
<1>4. CASE EnrollGranted \/ EnrollRefused
  BY <1>2, <1>3, <1>4
  DEF EnrollGranted, EnrollRefused, Enroll, NewSession, NoSession, gatewayVars, recordVars
<1>5. ASSUME NEW b \in Buttons, Granted(b) \/ Refused(b) PROVE CachedVerified'
  BY <1>2, <1>3, <1>4, <1>5
  DEF Granted, Refused, PairPhone, PairFails, ServiceAction, ServiceActionFails, Reset, ConfigSave,
      ConfigSaveFails, recordVars
<1>6. ASSUME NEW answer \in Answers, Answered(answer) PROVE CachedVerified'
  BY <1>1, <1>2, <1>6 DEF Answered, Settled
<1>7. ASSUME NEW answer \in Answers, AnswersAtOnce(answer) \/ PollFails(answer)
      PROVE  CachedVerified'
  BY <1>2, <1>7 DEF AnswersAtOnce, PollFails, gatewayVars, recordVars
<1>8. CASE \/ Ages \/ (\E n \in Nonces : Verifies(n) \/ Expires(n)) \/ Revokes \/ Handshakes
           \/ ServiceRuns \/ UNCHANGED gatewayVars \/ Suffers \/ SaveLine \/ Boots
  BY <1>2, <1>8
  DEF Ages, Verifies, Expires, Revokes, Handshakes, ServiceRuns, Suffers, SaveLine, Boots,
      gatewayVars, recordVars
<1> QED
  BY <1>5, <1>6, <1>7, <1>8 DEF GatewayMoves, AnswersVerification

\* The page answers "verified" for a number that is.
LEMMA AnswersTruly ==
    ASSUME GatewayTypeOK, CachedVerified, NEW answer, AnswersVerification(answer),
           answer = "verified"
    PROVE  SomeVerified
BY DEF AnswersVerification, AnswersAtOnce, Answered, PollFails, CachedVerified, GatewayTypeOK,
       SomeVerified

\* A journey without a verified number ends before its last step.
LEMMA JourneyLocks ==
    ASSUME NEW b, NEW f, updateJourney(b, FALSE, f)
    PROVE  shown' \subseteq {"stop"} /\ 3 \notin unlockedSteps'
<1> DEFINE running  == b.active /\ b.running
           canStart == 3 \in Unlocked(b, FALSE) /\ provisioned(b)
           claims   == [ operational |-> running /\ FALSE /\ tunnelLinkFresh(b),
                         link_down   |-> running /\ FALSE /\ ~ tunnelLinkFresh(b),
                         start       |-> canStart /\ ~ b.active,
                         restart     |-> canStart /\ b.active,
                         stop        |-> b.active ]
<1>1. 3 \notin Unlocked(b, FALSE)
  BY DEF Unlocked
<1>2. ~ claims["operational"] /\ ~ claims["link_down"]
  OBVIOUS
<1>3. ~ claims["start"] /\ ~ claims["restart"]
  BY <1>1
<1>4. DOMAIN claims = {"operational", "link_down", "start", "restart", "stop"}
  OBVIOUS
<1>5. Shown(b, FALSE) = {c \in DOMAIN claims : claims[c]}
  BY DEF Shown
<1>6. shown' = Shown(b, FALSE) /\ unlockedSteps' = Unlocked(b, FALSE)
  BY DEF updateJourney
<1> HIDE DEF claims
<1> QED
  BY <1>1, <1>2, <1>3, <1>4, <1>5, <1>6

LEMMA PageInvInit == Init => PageInv
BY DEF Init, GatewayInit, PageInv, CachedVerified, Known, NoPost

LEMMA PageInvStep == Types /\ PageInv /\ [Next]_vars => PageInv'
<1> SUFFICES ASSUME Types, PageInv, [Next]_vars PROVE PageInv'
  OBVIOUS
<1>1. GatewayTypeOK /\ PageTypes /\ CallTypes /\ GatewayMoves
  BY EveryStepMoves DEF Types, GatewayTypes
<1>2. CachedVerified'
  BY <1>1, CachedStep DEF PageInv
<1>3. SomeVerified => SomeVerified'
  BY <1>1, MovesSettle DEF Settled, SomeVerified
<1>4. SUFFICES ASSUME ~ SomeVerified, Known' PROVE SomeVerified
  BY <1>2, <1>3 DEF PageInv
<1>5. /\ ~ verified /\ shown \subseteq {"stop"} /\ 3 \notin unlockedSteps
      /\ post.button \notin {"start", "restart"}
      /\ \A p \in Polls : poll[p] # "verified"
  BY <1>4 DEF PageInv, Known
<1>6. verified = FALSE
  BY <1>1, <1>5 DEF PageTypes
<1>7. NoPost.button \notin {"start", "restart"}
  BY DEF NoPost
<1>8. ASSUME NEW p \in Polls, NEW b, refreshVerification(p, b)
      PROVE  ~ verified' /\ \A q \in Polls : poll'[q] # "verified" \/ SomeVerified
  BY <1>1, <1>5, <1>8, AnswersTruly DEF refreshVerification, Read, CallTypes, PageInv
<1>9. CASE \/ Refresh \/ GoesStale \/ Outside \/ EditForm \/ PairingSaves \/ UNCHANGED vars
  BY <1>4, <1>5, <1>9
  DEF Refresh, GoesStale, Outside, EditForm, PairingSaves, pageVars, callVars, vars, Known
<1>10. CASE Reload \/ Rejected \/ Reboot
  <2>1. CASE Reload
    BY <1>4, <1>7, <2>1 DEF Reload, Known
  <2>2. CASE Rejected
    <3>1. post'.button \notin {"start", "restart"} /\ UNCHANGED <<verified, shown, unlockedSteps>>
      BY <1>5, <1>7, <2>2 DEF Rejected, pageVars
    <3>2. \A p \in Polls : poll'[p] # "verified"
      BY <1>1, <1>5, <2>2 DEF Rejected, CallTypes
    <3> QED
      BY <1>4, <1>5, <3>1, <3>2 DEF Known
  <2>3. CASE Reboot
    BY <1>4, <1>5, <1>7, <2>3 DEF Reboot, pageVars, Known
  <2> QED
    BY <1>10, <2>1, <2>2, <2>3
<1>11. ASSUME NEW f \in Fetches, ApplyStatus(f) PROVE SomeVerified
  <2>1. shown' \subseteq {"stop"} /\ 3 \notin unlockedSteps'
    BY <1>6, <1>11, JourneyLocks DEF ApplyStatus
  <2> QED
    BY <1>4, <1>5, <1>8, <1>11, <2>1 DEF ApplyStatus, Known, Polls
<1>12. CASE verificationLoop
  BY <1>4, <1>5, <1>8, <1>12 DEF verificationLoop, Known, Polls
<1>13. ASSUME NEW p \in Polls, ApplyPoll(p) PROVE SomeVerified
  <2>1. (poll[p] = "verified") = FALSE
    BY <1>5
  <2>2. shown' \subseteq {"stop"} /\ 3 \notin unlockedSteps' /\ ~ verified'
    BY <1>13, <2>1, JourneyLocks DEF ApplyPoll
  <2> QED
    BY <1>1, <1>4, <1>5, <1>13, <2>2 DEF ApplyPoll, Known, CallTypes
<1>14. ASSUME NEW b \in Buttons, Click(b) PROVE SomeVerified
  <2>1. b \notin {"start", "restart"}
    BY <1>5, <1>14 DEF Click, Offered, ServiceButtons
  <2>2. post'.button = b
    BY <1>14 DEF Click
  <2> QED
    BY <1>4, <1>5, <1>14, <2>1, <2>2 DEF Click, pageVars, Known
<1>15. CASE ApplyPost
  <2>1. shown' \subseteq {"stop"} /\ 3 \notin unlockedSteps'
    BY <1>5, <1>6, <1>15, JourneyLocks DEF ApplyPost
  <2> QED
    BY <1>4, <1>5, <1>7, <1>15, <2>1 DEF ApplyPost, Known
<1>16. CASE ApplyReset
  BY <1>4, <1>5, <1>7, <1>16 DEF ApplyReset, Known
<1> QED
  BY <1>9, <1>10, <1>11, <1>12, <1>13, <1>14, <1>15, <1>16 DEF Next

\* Until ClawOps has verified a number the page neither offers the start of the
\* service, nor asks for it, nor tells how it does, for any number of sessions,
\* faults and detours: what is known of a verification anywhere is true of
\* one that took place.
THEOREM Locked == Spec => []LockedBeforeVerification
<1>1. Types /\ PageInv /\ [Next]_vars => (Types /\ PageInv)'
  BY TypesStep, PageInvStep
<1>2. PageInv => LockedBeforeVerification
  BY DEF PageInv, Known, SomeVerified, LockedBeforeVerification
<1> QED
  BY TypesInit, PageInvInit, <1>1, <1>2, PTL DEF Spec

-----------------------------------------------------------------------------
(* The page polls until the DID is stored.  A page that polls no more may  *)
(* know of an earlier number only: sessions are issued in order, so that   *)
(* the number it knows is not later than the session that is stored.  What *)
(* a pairing or a form saves over the number leaves its mark.              *)

IssuedInOrder ==
    \A m, n \in Nonces : m < n /\ sessions[n] # "unissued" => sessions[m] # "unissued"

Stored == did = nonce \/ overwritten

CachedIsStored == cached => Stored

EarlierVerified == \E m \in Nonces : m < nonce /\ sessions[m] = "verified"

\* The page has been told that a number is verified, or is about to be.
Told == verified \/ \E p \in Polls : poll[p] = "verified"

ToldWhenStored == Told /\ nonce # None => Stored \/ EarlierVerified

StoredInv == IssuedInOrder /\ CachedIsStored /\ ToldWhenStored

LEMMA StoredInvInit == Init => StoredInv
BY DEF Init, GatewayInit, StoredInv, IssuedInOrder, CachedIsStored, Stored, ToldWhenStored, None

LEMMA OrderStep ==
    ASSUME GatewayTypeOK, IssuedInOrder, GatewayMoves
    PROVE  IssuedInOrder'
<1> USE DEF IssuedInOrder, GatewayTypeOK
<1>1. ASSUME NEW n \in Nonces, Issues(n) PROVE IssuedInOrder'
  <2>1. /\ sessions' = [sessions EXCEPT ![n] = "pending"]
        /\ \A m \in Nonces : m < n => sessions[m] # "unissued"
    BY <1>1 DEF Issues
  <2> QED
    BY <2>1
<1>2. ASSUME NEW n \in Nonces, Verifies(n) \/ Expires(n) PROVE IssuedInOrder'
  <2>1. /\ sessions[n] = "pending" /\ sessions'[n] # "unissued"
        /\ \A m \in Nonces \ {n} : sessions'[m] = sessions[m]
    BY <1>2 DEF Verifies, Expires
  <2> QED
    BY <2>1
<1>3. ASSUME UNCHANGED sessions PROVE IssuedInOrder'
  BY <1>3
<1> QED
  BY <1>1, <1>2, <1>3, SessionsMove

\* A new session comes after all those whose number is verified.
LEMMA NewIsLater ==
    ASSUME GatewayTypeOK, IssuedInOrder, NewSession, SomeVerified
    PROVE  EarlierVerified'
<1>1. PICK n \in Nonces : Issues(n) /\ nonce' = n
  BY DEF NewSession
<1>2. PICK m \in Nonces : sessions[m] = "verified"
  BY DEF SomeVerified
<1>3. sessions[n] = "unissued" /\ sessions' = [sessions EXCEPT ![n] = "pending"]
  BY <1>1 DEF Issues
<1>4. ~ (n < m) /\ n # m
  BY <1>2, <1>3 DEF IssuedInOrder
<1>5. m < n
  BY <1>4, GatewayAssumption
<1>6. sessions'[m] = "verified"
  BY <1>2, <1>3, <1>4 DEF GatewayTypeOK
<1> QED
  BY <1>1, <1>5, <1>6 DEF EarlierVerified

\* A number that is saved over was stored.
LEMMA OverwritesKeeps ==
    ASSUME Overwrites, UNCHANGED nonce, nonce # None, Stored
    PROVE  Stored'
BY DEF Overwrites, Stored

\* The agent answers "verified" when the number of its session is the DID, or
\* was until a record was saved over it.
LEMMA AnswersWhenStored ==
    ASSUME GatewayTypeOK, CachedVerified, CachedIsStored, "disk" \notin Faults, "blank" \notin Faults,
           NEW answer, AnswersVerification(answer), answer = "verified"
    PROVE  Stored' \/ nonce' = None
<1>1. CASE AnswersAtOnce(answer)
  BY <1>1 DEF AnswersAtOnce, CachedIsStored, Stored, gatewayVars, recordVars
<1>2. CASE Answered(answer)
  <2>1. Saves([Record EXCEPT !.did = nonce]) /\ UNCHANGED nonce
    BY <1>2 DEF Answered, SaveFails, Fails
  <2> QED
    BY <2>1 DEF Saves, Record, Stored
<1> QED
  BY <1>1, <1>2 DEF AnswersVerification, PollFails

\* What the gateway does leaves a page that has been told with a number stored,
\* or earlier than the session.
LEMMA GatewayKeepsStored ==
    ASSUME GatewayTypeOK, PageInv, StoredInv, GatewayMoves, "disk" \notin Faults, "blank" \notin Faults
    PROVE  CachedIsStored' /\ (Told /\ nonce' # None => Stored' \/ EarlierVerified')
<1> DEFINE Kept == CachedIsStored' /\ (Told /\ nonce' # None => Stored' \/ EarlierVerified')
<1> USE DEF CachedIsStored
<1>1. (Told => SomeVerified) /\ (cached => nonce # None)
  BY GatewayAssumption DEF PageInv, Known, Told, CachedVerified
<1>2. Settled
  BY MovesSettle
<1>3. ASSUME UNCHANGED <<nonce, cached>>, nonce # None /\ Stored => Stored'
      PROVE  Kept
  BY <1>1, <1>2, <1>3 DEF StoredInv, ToldWhenStored, EarlierVerified, Settled
<1>4. ASSUME UNCHANGED <<did, nonce, cached, overwritten>>
      PROVE  Kept
  BY <1>3, <1>4 DEF Stored
<1>5. ASSUME UNCHANGED <<nonce, cached>>, Overwrites
      PROVE  Kept
  BY <1>3, <1>5, OverwritesKeeps
<1>6. CASE NewSession
  BY <1>1, <1>6, NewIsLater DEF NewSession, StoredInv
<1>7. CASE EnrollGranted \/ EnrollRefused
  BY <1>4, <1>5, <1>6, <1>7
  DEF EnrollGranted, EnrollRefused, Enroll, NoSession, gatewayVars, recordVars
<1>8. CASE Reset
  BY <1>8 DEF Reset
<1>9. ASSUME NEW b \in Buttons, Granted(b) \/ Refused(b)
      PROVE  Kept
  BY <1>4, <1>5, <1>7, <1>8, <1>9
  DEF Granted, Refused, PairPhone, PairFails, ServiceAction, ServiceActionFails, ConfigSave,
      ConfigSaveFails, recordVars
<1>10. ASSUME NEW answer \in Answers, AnswersVerification(answer)
       PROVE  Kept
  <2>1. CASE AnswersAtOnce(answer) \/ PollFails(answer)
    BY <1>4, <2>1 DEF AnswersAtOnce, PollFails, gatewayVars, recordVars
  <2>2. CASE Answered(answer)
    <3>1. CASE UNCHANGED cached
      BY <1>5, <2>2, <3>1 DEF Answered
    <3>2. CASE Saves([Record EXCEPT !.did = nonce])
      BY <2>2, <3>2 DEF Answered, Saves, Record, Stored
    <3> QED
      BY <2>2, <3>1, <3>2 DEF Answered
  <2> QED
    BY <1>10, <2>1, <2>2 DEF AnswersVerification
<1>11. CASE SaveLine
  BY <1>5, <1>11 DEF SaveLine
<1>12. CASE \/ Ages \/ (\E n \in Nonces : Verifies(n) \/ Expires(n)) \/ Revokes \/ Handshakes
            \/ ServiceRuns \/ UNCHANGED gatewayVars \/ Suffers \/ Boots
  BY <1>4, <1>12
  DEF Ages, Verifies, Expires, Revokes, Handshakes, ServiceRuns, Suffers, Boots, gatewayVars, recordVars
<1> QED
  BY <1>9, <1>10, <1>11, <1>12 DEF GatewayMoves

LEMMA StoredInvStep ==
    ASSUME Types, PageInv, StoredInv, [Next]_vars, "disk" \notin Faults, "blank" \notin Faults
    PROVE  StoredInv'
<1>1. GatewayTypeOK /\ PageTypes /\ CallTypes /\ GatewayMoves
  BY EveryStepMoves DEF Types, GatewayTypes
<1>2. IssuedInOrder' /\ CachedIsStored'
  BY <1>1, OrderStep, GatewayKeepsStored DEF StoredInv
<1>3. Told /\ nonce' # None => Stored' \/ EarlierVerified'
  BY <1>1, GatewayKeepsStored
<1>4. SUFFICES ASSUME Told', ~ Told PROVE Stored' \/ nonce' = None
  BY <1>2, <1>3 DEF StoredInv, ToldWhenStored
<1>5. ~ verified /\ \A p \in Polls : poll[p] # "verified"
  BY <1>4 DEF Told
<1>6. ASSUME NEW p \in Polls, NEW b, refreshVerification(p, b)
      PROVE  Stored' \/ nonce' = None
  <2>1. PICK answer \in Answers :
           AnswersVerification(answer) /\ poll' = [poll EXCEPT ![p] = Read(answer)] /\ ~ verified'
    BY <1>4, <1>5, <1>6 DEF refreshVerification, Told
  <2>2. answer = "verified"
    BY <1>1, <1>4, <1>5, <2>1 DEF Told, Read, CallTypes
  <2> QED
    BY <1>1, <2>1, <2>2, AnswersWhenStored DEF StoredInv, PageInv
<1>7. CASE \/ Refresh \/ ApplyPost \/ GoesStale \/ Outside \/ EditForm \/ PairingSaves
           \/ (\E b \in Buttons : Click(b)) \/ UNCHANGED vars
  BY <1>4, <1>5, <1>7
  DEF Refresh, ApplyPost, GoesStale, Outside, EditForm, PairingSaves, Click, pageVars, callVars,
      vars, Told
<1>8. CASE Reload \/ Rejected \/ Reboot \/ ApplyReset
  BY <1>1, <1>4, <1>5, <1>8 DEF Reload, Rejected, Reboot, ApplyReset, pageVars, Told, CallTypes
<1>9. CASE (\E f \in Fetches : ApplyStatus(f)) \/ verificationLoop
  BY <1>4, <1>5, <1>6, <1>9 DEF ApplyStatus, verificationLoop, Told, Polls
<1>10. ASSUME NEW p \in Polls, ApplyPoll(p) PROVE Stored' \/ nonce' = None
  BY <1>1, <1>4, <1>5, <1>10 DEF ApplyPoll, Told, CallTypes
<1> QED
  BY <1>7, <1>8, <1>9, <1>10 DEF Next

\* Where writes do not fail and a number that is verified is not empty, a page
\* that has stopped asking for the number of the stored session has had it stored
\* as the DID, unless an earlier number is what it knows of.  With "disk" or
\* "blank" it is false: what was not saved is answered like what was.
THEOREM AskedUntilStored ==
    ASSUME "disk" \notin Faults, "blank" \notin Faults
    PROVE  Spec => []PollsUntilStored
<1>1. Types /\ PageInv /\ StoredInv /\ [Next]_vars => (Types /\ PageInv /\ StoredInv)'
  BY TypesStep, PageInvStep, StoredInvStep
<1>2. Types /\ StoredInv => PollsUntilStored
  BY DEF StoredInv, ToldWhenStored, Told, Stored, EarlierVerified, PollsUntilStored
<1> QED
  BY TypesInit, PageInvInit, StoredInvInit, <1>1, <1>2, PTL DEF Spec
=============================================================================
