------------------------------- MODULE WebUI -------------------------------
(***************************************************************************)
(* The page (app.js) on a Gateway: a journey of four steps that unlock one *)
(* another, driven by two polls that know nothing of each other.  A fetch  *)
(* is two steps, answered by the agent and applied by the page, and what   *)
(* the page applies may be older than what it has applied before.          *)
(*                                                                         *)
(* Of the form under "advanced settings" the record it was loaded with is  *)
(* kept.  The restart banner, the texts, the scan and the log are left out. *)
(***************************************************************************)
EXTENDS Gateway

CONSTANT User   \* what the user does, a subset of Buttons \cup {"edit", "reenroll"}

Buttons == {"enroll", "pair", "start", "restart", "stop", "reset", "save"}
ServiceButtons == {"start", "restart", "stop"}
Polls   == {"loop", "reset"}            \* verificationLoop, and the poll after a reset
Fetches == {"timer", "reset"}           \* refreshStatus by setInterval, and after a
                                        \* reset, which polls next

VARIABLES
    status,         \* currentStatus, Nothing before the first answer
    verified,
    unlockedSteps,
    shown,          \* the claims made and the service buttons offered
    form,           \* the form: whether it is edited, and the record it was loaded with
    fetch,          \* GET /api/status: the answer to apply, or Nothing
    poll,           \* GET /api/verification: the answer to apply, "idle" or "dead"
    post,           \* the POST under way: its button, and whether it was granted
    stuck           \* buttons no answer will enable again

pageVars == <<status, verified, unlockedSteps, shown, form>>
callVars == <<fetch, poll, post, stuck>>
vars == <<gatewayVars, pageVars, callVars>>

NoPost == [button |-> "none", granted |-> FALSE]

\* A form that is not edited shows the record of the last status.  One that is
\* edited while the page is reset is loaded once more ("reload").
Forms == [state : {"clean", "edited", "reload"}, record : Records]
Clean == [state |-> "clean", record |-> ZeroRecord]

Init ==
    /\ GatewayInit
    /\ status = Nothing
    /\ verified = FALSE
    /\ unlockedSteps = {0}
    /\ shown = {}
    /\ form = Clean
    /\ fetch = [f \in Fetches |-> Nothing]
    /\ poll = [p \in Polls |-> "idle"]
    /\ post = NoPost
    /\ stuck = {}

-----------------------------------------------------------------------------
(* What the page makes of a status b, and of verified.                     *)

Enrolled(b) == b.record.tunnel_ip \/ b.link \in {"stale", "fresh"}

provisioned(b) == Complete(b.record)

\* Mutant: the interface is up.
tunnelUp(b) == b.link \in {"stale", "fresh"}

tunnelLinkFresh(b) == b.link = "fresh"

\* Mutant: one step too many.
UnlockedOneMore(b, v) ==
    {0} \cup {i \in 1 .. 4 : Enrolled(b) /\ (i >= 2 => b.paired) /\ (i = 3 => v)}

Unlocked(b, v) ==
    {0} \cup {i \in 1 .. 3 : Enrolled(b) /\ (i >= 2 => b.paired) /\ (i = 3 => v)}

Shown(b, v) ==
    LET running  == b.active /\ b.running
        canStart == 3 \in Unlocked(b, v) /\ provisioned(b)
        claims   == [ operational |-> running /\ v /\ tunnelLinkFresh(b),
                      link_down   |-> running /\ v /\ ~ tunnelLinkFresh(b),
                      start       |-> canStart /\ ~ b.active,
                      restart     |-> canStart /\ b.active,
                      stop        |-> b.active ]
    IN  {c \in DOMAIN claims : claims[c]}

\* With f as the form.  One to be loaded once more stays edited, unless nothing is
\* missing in it.
updateJourney(b, v, f) ==
    /\ unlockedSteps' = Unlocked(b, v)
    /\ shown' = Shown(b, v)
    /\ form' = IF f.state # "reload" THEN f
               ELSE IF provisioned(b) THEN Clean ELSE [state |-> "edited", record |-> b.record]

\* The texts of the third step aside, one answer is as good as another.
Read(state) == IF state = "verified" THEN "verified" ELSE "other"

\* Mutant: a page that is not enrolled keeps what it knows of the number.
keepsVerification(p, b) ==
    \/ /\ ~ Enrolled(b) \/ verified \/ poll[p] # "idle"
       /\ UNCHANGED <<gatewayVars, verified, poll>>
    \/ /\ Enrolled(b) /\ ~ verified /\ poll[p] = "idle"
       /\ \E state \in Answers : /\ AnswersVerification(state)
                               /\ poll' = [poll EXCEPT ![p] = Read(state)]
       /\ UNCHANGED verified

\* With b as currentStatus.  The poll is answered here and applied later; the
\* steps are not locked again when verified is lost.
refreshVerification(p, b) ==
    \/ /\ ~ Enrolled(b)
       /\ verified' = FALSE
       /\ UNCHANGED <<gatewayVars, poll>>
    \/ /\ Enrolled(b) /\ (verified \/ poll[p] # "idle")
       /\ UNCHANGED <<gatewayVars, verified, poll>>
    \/ /\ Enrolled(b) /\ ~ verified /\ poll[p] = "idle"
       /\ \E state \in Answers : /\ AnswersVerification(state)
                               /\ poll' = [poll EXCEPT ![p] = Read(state)]
       /\ UNCHANGED verified

-----------------------------------------------------------------------------
(* The two polls.                                                          *)

\* setInterval waits for nothing.  Bound: one fetch of the timer at a time; those
\* after a button overlap it.
Refresh ==
    /\ fetch["timer"] = Nothing
    /\ UNCHANGED <<pageVars, poll, post, stuck>>
    /\ \E b \in StatusAnswers : /\ AnswersStatus(b)
                               /\ fetch' = [fetch EXCEPT !["timer"] = b]

ApplyStatus(f) ==
    LET b == fetch[f]
    IN  /\ b # Nothing
        /\ fetch' = [fetch EXCEPT ![f] = Nothing]
        /\ status' = b
        /\ updateJourney(b, verified, form)
        /\ IF f = "reset"
           THEN refreshVerification("reset", b)
           ELSE UNCHANGED <<gatewayVars, verified, poll>>
        /\ UNCHANGED <<post, stuck>>

Polled(p) == poll[p] \in {"verified", "other"}

verificationLoop ==
    /\ poll["loop"] = "idle"
    /\ UNCHANGED <<status, unlockedSteps, shown, form, fetch, post, stuck>>
    /\ refreshVerification("loop", status)

ApplyPoll(p) ==
    LET v == poll[p] = "verified"
    IN  /\ Polled(p)
        /\ poll' = [poll EXCEPT ![p] = "idle"]
        /\ verified' = v
        /\ updateJourney(status, v, form)
        /\ UNCHANGED <<gatewayVars, status, fetch, post, stuck>>

-----------------------------------------------------------------------------
(* The user.                                                               *)

\* Every step that is unlocked can be opened.
Offered(b) ==
    CASE b = "enroll" -> "reenroll" \in User \/ 1 \notin unlockedSteps
      [] b \in {"pair", "reset"} -> 1 \in unlockedSteps
      [] b \in ServiceButtons -> 3 \in unlockedSteps /\ b \in shown
      [] b = "save" -> form.state # "clean"

Granted(b) ==
    \/ b = "enroll" /\ EnrollGranted
    \/ b = "pair" /\ PairPhone
    \/ b \in ServiceButtons /\ ServiceAction(b)
    \/ b = "reset" /\ Reset
    \/ b = "save" /\ ConfigSave(form.record)

\* A reset always answers ok.
Refused(b) ==
    \/ b = "enroll" /\ EnrollRefused
    \/ b = "pair" /\ PairFails
    \/ b = "save" /\ ConfigSaveFails(form.record)
    \/ b \in ServiceButtons /\ ServiceActionFails

\* Bounds: one button at a time, until the page has read the status again, and no
\* further phone once there is one with its port.
Click(b) ==
    /\ b = "pair" => ~ (paired /\ line)
    /\ b \in User \ stuck /\ Offered(b)
    /\ post = NoPost /\ fetch["reset"] = Nothing
    /\ \E granted \in BOOLEAN :
          /\ IF granted THEN Granted(b) ELSE Refused(b)
          /\ post' = [button |-> b, granted |-> granted]
    /\ UNCHANGED <<pageVars, fetch, poll, stuck>>

\* The handler of a pairing is still at work.
Pairing == post.button = "pair" /\ post.granted /\ loaded # {}

PairingSaves == SaveLine /\ UNCHANGED <<pageVars, callVars>>

\* Edits and cancels edits; the first status loads the form.
EditForm ==
    /\ "edit" \in User /\ status # Nothing
    /\ \/ form = Clean /\ Detour /\ form' = [state |-> "edited", record |-> status.record]
       \/ form # Clean /\ form' = Clean /\ UNCHANGED detours
    /\ UNCHANGED <<recordVars, hostVars, cloudVars, status, verified, unlockedSteps, shown, callVars>>

\* A service action refreshes the status even when it is refused.  Bound: this
\* status is applied in the step that answers it.
ApplyPost ==
    /\ post.button \notin {"none", "reset"} /\ ~ Pairing
    /\ post' = NoPost
    /\ IF post.granted \/ post.button \in ServiceButtons
       THEN \E b \in StatusAnswers :
               /\ AnswersStatus(b)
               /\ status' = b
               /\ updateJourney(b, verified, IF post.button = "save" THEN Clean ELSE form)
       ELSE UNCHANGED <<gatewayVars, status, unlockedSteps, shown, form>>
    /\ UNCHANGED <<verified, fetch, poll, stuck>>

\* After a reset the status is fetched, and the poll follows.
ApplyReset ==
    /\ post.button = "reset"
    /\ post' = NoPost
    /\ verified' = FALSE
    /\ form' = IF form = Clean THEN Clean ELSE [form EXCEPT !.state = "reload"]
    /\ \E b \in StatusAnswers : /\ AnswersStatus(b)
                               /\ fetch' = [fetch EXCEPT !["reset"] = b]
    /\ UNCHANGED <<status, unlockedSteps, shown, poll, stuck>>

Reload ==
    /\ Fails("reload")
    /\ status' = Nothing
    /\ verified' = FALSE
    /\ unlockedSteps' = {0}
    /\ shown' = {}
    /\ form' = Clean
    /\ fetch' = [f \in Fetches |-> Nothing]
    /\ poll' = [p \in Polls |-> "idle"]
    /\ post' = NoPost
    /\ stuck' = {}
    /\ UNCHANGED <<recordVars, hostVars, cloudVars>>

-----------------------------------------------------------------------------
(* A fetch is rejected: the agent is being restarted, or the network is    *)
(* down.  Nothing catches it.  setInterval fires again; the loop, which     *)
(* sets its next timeout after the await, does not; the form to enroll and  *)
(* the reset keep the button they disabled.  A pairing that loses its POST *)
(* may have been lost with the agent.                                      *)

Rejected ==
    /\ Fails("drop")
    /\ \/ \E f \in Fetches : /\ fetch[f] # Nothing
                            /\ fetch' = [fetch EXCEPT ![f] = Nothing]
                            /\ UNCHANGED <<loaded, poll, post, stuck>>
       \/ \E p \in Polls : /\ Polled(p)
                          /\ poll' = [poll EXCEPT ![p] = IF p = "loop" THEN "dead" ELSE "idle"]
                          /\ UNCHANGED <<loaded, fetch, post, stuck>>
       \/ /\ post # NoPost
          /\ post' = NoPost
          /\ stuck' = stuck \cup ({post.button} \cap {"enroll", "reset"})
          /\ loaded' \in {loaded, {}}
          /\ UNCHANGED <<fetch, poll>>
    /\ UNCHANGED <<recordVars, link, service, cloudVars, pageVars>>

\* The box boots while the page is open: the POST of a pairing is not answered.
Reboot ==
    /\ Boots
    /\ post' = IF Pairing THEN NoPost ELSE post
    /\ UNCHANGED <<pageVars, fetch, poll, stuck>>

\* Time passes for the handshakes of earlier answers too.
Aged(b) == IF tunnelLinkFresh(b) THEN [b EXCEPT !.link = "stale"] ELSE b

GoesStale ==
    /\ Ages
    /\ status' = Aged(status)
    /\ fetch' = [f \in Fetches |-> Aged(fetch[f])]
    /\ UNCHANGED <<verified, unlockedSteps, shown, form, poll, post, stuck>>

Outside ==
    /\ \/ \E n \in Nonces : Verifies(n) \/ Expires(n)
       \/ Revokes \/ Handshakes \/ ServiceRuns
    /\ UNCHANGED <<pageVars, callVars>>

-----------------------------------------------------------------------------
Next ==
    \/ Refresh
    \/ \E f \in Fetches : ApplyStatus(f)
    \/ verificationLoop
    \/ \E p \in Polls : ApplyPoll(p)
    \/ \E b \in Buttons : Click(b)
    \/ ApplyPost \/ ApplyReset
    \/ PairingSaves
    \/ EditForm
    \/ Reload \/ Rejected \/ Reboot \/ GoesStale \/ Outside

\* Of each of these only one can be taken at a time, and stays until it is.
TimerGoesOn  == ApplyStatus("timer") \/ Refresh
LoopGoesOn   == ApplyPoll("loop") \/ verificationLoop
ButtonGoesOn == ApplyPost \/ ApplyReset \/ ApplyStatus("reset")

\* Timers fire, the agent answers, the page handles each answer, and time
\* passes.  Nothing is asked of the user, of ClawOps or of the service.
Fairness ==
    /\ WF_vars(TimerGoesOn)
    /\ WF_vars(LoopGoesOn)
    /\ WF_vars(ButtonGoesOn)
    /\ WF_vars(ApplyPoll("reset"))
    /\ WF_vars(PairingSaves)
    /\ WF_vars(GoesStale)

Spec == Init /\ [][Next]_vars

FairSpec == Spec /\ Fairness

-----------------------------------------------------------------------------
(* Properties. *)

\* Every variable has its type.
TypeOK ==
    /\ GatewayTypeOK
    /\ status \in Snapshots
    /\ verified \in BOOLEAN
    /\ unlockedSteps \subseteq 0 .. 3
    /\ shown \subseteq {"operational", "link_down", "start", "restart", "stop"}
    /\ form \in Forms
    /\ fetch \in [Fetches -> Snapshots]
    /\ poll \in [Polls -> {"idle", "dead", "verified", "other"}]
    /\ post \in [button : Buttons, granted : BOOLEAN] \cup {NoPost}
    /\ stuck \subseteq {"enroll", "reset"}

\* Before ClawOps has verified a number the page neither offers the start of the
\* service, nor asks for it, nor tells how it does, whatever answers are under way
\* and however enrollments, resets, boots and reloads come between (enroll.go:124).
\* The service may run all the same: the unit is enabled and starts at boot.
LockedBeforeVerification ==
    (\A n \in Nonces : sessions[n] # "verified")
        => /\ shown \subseteq {"stop"} /\ 3 \notin unlockedSteps
           /\ post.button \notin {"start", "restart"}

\* The page stops asking for a number only when that number is the DID of the
\* record, or was until a pairing or a form saved a record it had loaded before:
\* nothing else would store it (handlers.go:81-85).  A page that has seen an
\* earlier number verified does not ask at all: see NoFalseAlarm.
PollsUntilStored ==
    /\ verified /\ nonce # None
    /\ \A m \in Nonces : m < nonce => sessions[m] # "verified"
    => did = nonce \/ overwritten

Polling == poll["loop"] # "dead"


\* A gateway that stays reset is shown as one that was never enrolled,
\* whatever answers from before the reset arrive after it (app.js:348).
LocksWhenReset ==
    <>[](~ tunnel_ip /\ link = "down" /\ Polling)
        => <>[](~ verified /\ unlockedSteps = {0} /\ shown \subseteq {"stop"})

\* The page does not go on telling that a gateway operates which ClawOps has
\* dropped, though its interface is up and its service runs (app.js:122-125).
StopsClaiming == <>[](~ peer) => <>[]("operational" \notin shown)

\* Once the phone is paired, the record complete and the number of its session
\* cached, the page comes to offer the start of a service that does not run, and
\* the restart of one that does, and keeps offering it (app.js:185-187).
StartOffered ==
    LET ready == Provisioned /\ paired /\ cached /\ Polling
    IN  /\ <>[](ready /\ service = "inactive") => <>[]("start" \in shown)
        /\ <>[](ready /\ ServiceStatus) => <>[]("restart" \in shown)

-----------------------------------------------------------------------------
(* What the repository says of the page and the page does not keep.        *)

\* app.js:162-164: before the verification, right after a re-enrollment too,
\* the page does not tell that the link is down.
NoFalseAlarm ==
    \A n \in Nonces : <>[](nonce = n /\ sessions[n] = "pending") => <>[]("link_down" \notin shown)
=============================================================================
