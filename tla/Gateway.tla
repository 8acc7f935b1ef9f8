------------------------------ MODULE Gateway ------------------------------
(***************************************************************************)
(* The gateway as its web page can tell it: what the handlers of the       *)
(* control-agent read and change, the host behind them, and ClawOps.       *)
(*                                                                         *)
(* A handler is one step here, but for a pairing, which loads the record,  *)
(* spends seconds in commands and saves the whole of it: what another one  *)
(* has stored in between is lost.  Agent has all the steps and races.      *)
(***************************************************************************)
EXTENDS Naturals, FiniteSets

CONSTANTS
    Nonces,         \* as in Provisioning
    Faults,         \* what may fail: see Fails; "drop" and "reload" are the page's
    MaxDetours      \* bound: how many failures, edits and further enrollments there may be

None == 0           \* no nonce, no number

ASSUME GatewayAssumption == Nonces \subseteq Nat \ {None} /\ MaxDetours \in Nat

VARIABLES
    tunnel_ip,      \* the record has the tunnel values
    paired, line,   \* a phone is paired; it is in the record with its port
    did,            \* the session whose number is the DID of the record
    nonce, cached,  \* the stored session, and whether its number is cached
    overwritten,    \* history: its number was the DID until another record was saved
    loaded,         \* the record a pairing has loaded and not saved yet, if any
    link,           \* wg0: "down", "stale" without a recent handshake, "fresh"
    service,        \* clawops-asterisk; "running" if chan_mobile runs in it
    sessions,       \* ClawOps: the status of the session behind each nonce
    peer,           \* ClawOps: the gateway is a peer of the tunnel
    detours         \* how many failures and edits there have been

recordVars  == <<tunnel_ip, paired, line, did, nonce, cached, overwritten>>
hostVars    == <<loaded, link, service>>
cloudVars   == <<sessions, peer>>
gatewayVars == <<recordVars, hostVars, cloudVars, detours>>

\* What one Save stores.
Records    == [tunnel_ip : BOOLEAN, line : BOOLEAN, did : Nonces \cup {None}]
Record     == [tunnel_ip |-> tunnel_ip, line |-> line, did |-> did]
ZeroRecord == [tunnel_ip |-> FALSE, line |-> FALSE, did |-> None]

Services == {"inactive", "activating", "active", "running"}

GatewayInit ==
    /\ tunnel_ip = FALSE
    /\ paired = FALSE /\ line = FALSE
    /\ did = None
    /\ nonce = None /\ cached = FALSE /\ overwritten = FALSE
    /\ loaded = {}
    /\ link = "down"
    /\ service = "inactive"
    /\ sessions = [n \in Nonces |-> "unissued"]
    /\ peer = FALSE
    /\ detours = 0

GatewayTypeOK ==
    /\ {tunnel_ip, paired, line, cached, overwritten, peer} \subseteq BOOLEAN
    /\ {did, nonce} \subseteq Nonces \cup {None}
    /\ loaded \subseteq Records
    /\ link \in {"down", "stale", "fresh"}
    /\ service \in Services
    /\ sessions \in [Nonces -> {"unissued", "pending", "verified", "expired"}]
    /\ detours \in 0 .. MaxDetours

\* An enrollment after the first is a detour, as a failure is.
MayDetour ==
    LET again == {n \in Nonces : sessions[n] # "unissued" /\ \E m \in Nonces : m < n}
    IN  detours + Cardinality(again) < MaxDetours

Detour == MayDetour /\ detours' = detours + 1

Fails(fault) == fault \in Faults /\ Detour

-----------------------------------------------------------------------------
(* ClawOps and the host.                                                   *)

Latest(n) == \A m \in Nonces : m > n => sessions[m] = "unissued"

\* An enrollment starts the verification over: the gateway is no peer of the
\* tunnel until the number of the new session is verified (app.js).
Issues(n) ==
    /\ sessions[n] = "unissued"
    /\ \A m \in Nonces : m < n => sessions[m] # "unissued" /\ MayDetour
    /\ sessions' = [sessions EXCEPT ![n] = "pending"]
    /\ peer' = FALSE

\* The SMS arrives.
Verifies(n) ==
    /\ sessions[n] = "pending"
    /\ sessions' = [sessions EXCEPT ![n] = "verified"]
    /\ peer' = (peer \/ Latest(n))
    /\ UNCHANGED <<recordVars, hostVars, detours>>

\* Too late, too many lines, or revoked: the page treats them alike.
Expires(n) ==
    /\ sessions[n] = "pending"
    /\ sessions' = [sessions EXCEPT ![n] = "expired"]
    /\ UNCHANGED <<recordVars, hostVars, peer, detours>>

\* The gateway is disposed of in the console.
Revokes ==
    /\ peer
    /\ peer' = FALSE
    /\ Detour
    /\ UNCHANGED <<recordVars, hostVars, sessions>>

Handshakes ==
    /\ peer /\ link = "stale"
    /\ link' = "fresh"
    /\ UNCHANGED <<recordVars, loaded, service, cloudVars, detours>>

\* TUNNEL_STALE_SEC pass without a handshake.
Ages ==
    /\ ~ peer /\ link = "fresh"
    /\ link' = "stale"
    /\ UNCHANGED <<recordVars, loaded, service, cloudVars, detours>>

\* The job systemctl has queued runs; chan_mobile needs an adapter to run in it.
ServiceRuns ==
    /\ service = "activating"
    /\ \/ service' \in {"running", "inactive"} /\ UNCHANGED detours
       \/ Fails("host") /\ service' = "active"
    /\ UNCHANGED <<recordVars, loaded, link, cloudVars>>

\* Power is lost and back: the unit is enabled, and so is the tunnel once it was
\* up, but for an enabling that failed.  A pairing under way is over.
Boots ==
    /\ Fails("reboot")
    /\ service' = "activating"
    /\ link' \in (IF tunnel_ip \/ link # "down" THEN {"down", "stale"} ELSE {"down"})
    /\ loaded' = {}
    /\ UNCHANGED <<recordVars, cloudVars>>

-----------------------------------------------------------------------------
(* The handlers that change something.                                     *)

Complete(p) == p.tunnel_ip /\ p.line /\ p.did # None

Provisioned == Complete(Record)

Saves(p) == tunnel_ip' = p.tunnel_ip /\ line' = p.line /\ did' = p.did

\* What Save leaves when it reports an error: nothing written, the file
\* truncated, or the record written and its rendering not.
SaveFails(p) == Fails("disk") /\ \E q \in {p, Record, ZeroRecord} : Saves(q)

\* In a step that keeps the session.
Overwrites == overwritten' = (nonce # None /\ did' # nonce /\ (did = nonce \/ overwritten))

\* The record of an enrollment: the DID of an earlier session stays.
Merged == [Record EXCEPT !.tunnel_ip = TRUE]

TunnelUp(up) ==
    /\ link' = IF up THEN "stale" ELSE "down"
    /\ UNCHANGED <<paired, loaded, service>>

NewSession ==
    /\ \E n \in Nonces : Issues(n) /\ nonce' = n
    /\ cached' = FALSE /\ overwritten' = FALSE

\* The reply has no nonce: the earlier session stays.
NoSession ==
    /\ peer' = FALSE
    /\ Overwrites
    /\ UNCHANGED <<nonce, cached, sessions>>

\* handleEnroll, with the tunnel up or not.
Enroll(up) == NewSession /\ Saves(Merged) /\ TunnelUp(up)

EnrollGranted ==
    \/ Enroll(TRUE) /\ UNCHANGED detours
    \/ Fails("clawops") /\ Saves(Merged) /\ NoSession /\ TunnelUp(TRUE)

\* ClawOps refuses, or enrolls the gateway and its reply is lost; the tunnel does
\* not come up; the record is not saved, the session is all the same.
EnrollRefused ==
    \/ UNCHANGED gatewayVars
    \/ /\ Fails("clawops")
       /\ \E n \in Nonces : Issues(n)
       /\ UNCHANGED <<recordVars, hostVars>>
    \/ Fails("wg") /\ Enroll(FALSE)
    \/ SaveFails(Merged) /\ NewSession /\ TunnelUp(TRUE)

\* handleBTPair up to the load.  Bound: one pairing at a time.
PairPhone ==
    /\ loaded = {}
    /\ paired' = TRUE
    /\ loaded' = {Record}
    /\ UNCHANGED <<tunnel_ip, line, did, nonce, cached, overwritten, link, service, cloudVars, detours>>

\* The rest of it.  The port may not be found, and a Save that fails is answered
\* ok like one that succeeds.
SaveLine ==
    /\ \E p \in loaded :
          LET q == [p EXCEPT !.line = TRUE]
          IN  \/ Saves(q) /\ UNCHANGED detours
              \/ Fails("phone") /\ Saves(p)
              \/ SaveFails(q)
    /\ loaded' = {}
    /\ Overwrites
    /\ UNCHANGED <<paired, nonce, cached, link, service, cloudVars>>

\* The phone is not found, or paired and not trusted, an error.
PairFails ==
    /\ Fails("phone")
    /\ paired' \in {paired, TRUE}
    /\ UNCHANGED <<tunnel_ip, line, did, nonce, cached, overwritten, hostVars, cloudVars>>

\* handleConfigSave of the form of a page, which was loaded with p and its DID is
\* read-only.  Bound: what the user edits is a line that is missing, if anything.
ConfigSave(p) ==
    /\ \E l \in {p.line, TRUE} : Saves([p EXCEPT !.line = l])
    /\ Overwrites
    /\ UNCHANGED <<paired, nonce, cached, hostVars, cloudVars, detours>>

ConfigSaveFails(p) ==
    /\ \E l \in {p.line, TRUE} : SaveFails([p EXCEPT !.line = l])
    /\ Overwrites
    /\ UNCHANGED <<paired, nonce, cached, hostVars, cloudVars>>

ServiceAction(action) ==
    /\ service' = IF action = "stop" THEN "inactive" ELSE "activating"
    /\ UNCHANGED <<recordVars, loaded, link, cloudVars, detours>>

ServiceActionFails == Fails("host") /\ UNCHANGED <<recordVars, hostVars, cloudVars>>

Reset ==
    /\ Saves(ZeroRecord)
    /\ paired' = FALSE
    /\ nonce' = None /\ cached' = FALSE /\ overwritten' = FALSE
    /\ link' = "down"
    /\ service' = "inactive"
    /\ UNCHANGED <<loaded, cloudVars, detours>>

-----------------------------------------------------------------------------
(* handleVerification, and the state it answers with.                      *)

Answers == {"none", "pending", "verified", "expired", ""}

\* Mutant: the cached answer carries the number and not the state.
AnswersWithoutState(state) ==
    /\ nonce = None \/ cached
    /\ state = IF nonce = None THEN "none" ELSE ""
    /\ UNCHANGED gatewayVars

\* Nothing to poll for, or nothing more.
AnswersAtOnce(state) ==
    /\ nonce = None \/ cached
    /\ state = IF nonce = None THEN "none" ELSE "verified"
    /\ UNCHANGED gatewayVars

\* Mutant: the number is cached and not saved as the DID.
AnsweredWithoutDID(state) ==
    /\ nonce # None /\ ~ cached
    /\ state = sessions[nonce]
    /\ cached' = (state = "verified")
    /\ UNCHANGED <<tunnel_ip, paired, line, did, nonce, overwritten, hostVars, cloudVars, detours>>

\* Mutant: a number is taken whatever the status of its session.
AnsweredWhatever(state) ==
    /\ nonce # None /\ ~ cached
    /\ state = sessions[nonce]
    /\ did' = nonce /\ cached' = TRUE /\ overwritten' = FALSE
    /\ UNCHANGED <<tunnel_ip, paired, line, nonce, hostVars, cloudVars, detours>>

\* A verified number becomes the DID and is cached.  The answer is the same when
\* a write fails, and when the reply of ClawOps has no number.
Answered(state) ==
    LET p == [Record EXCEPT !.did = nonce]
    IN  /\ nonce # None /\ ~ cached
        /\ state = sessions[nonce]
        /\ \/ state # "verified" /\ UNCHANGED <<tunnel_ip, line, did, cached, detours>>
           \/ state = "verified" /\ Saves(p) /\ cached' = TRUE /\ UNCHANGED detours
           \/ state = "verified" /\ SaveFails(p) /\ UNCHANGED cached
           \/ state = "verified" /\ Fails("blank") /\ UNCHANGED <<tunnel_ip, line, did, cached>>
        /\ Overwrites
        /\ UNCHANGED <<paired, nonce, hostVars, cloudVars>>

\* ClawOps is out of reach, or answers with an error that is not 404.
PollFails(state) ==
    /\ nonce # None /\ ~ cached
    /\ state \in {"pending", ""}
    /\ Fails("clawops")
    /\ UNCHANGED <<recordVars, hostVars, cloudVars>>

AnswersVerification(state) == AnswersAtOnce(state) \/ Answered(state) \/ PollFails(state)

-----------------------------------------------------------------------------
(* handleStatus, and what the page makes of its answer.                    *)

Snapshots ==
    [ record : Records, paired : BOOLEAN,
      link : {"down", "stale", "fresh", "unknown"},
      active : BOOLEAN, running : BOOLEAN ]

Nothing ==
    [ record |-> ZeroRecord, paired |-> FALSE,
      link |-> "unknown", active |-> FALSE, running |-> FALSE ]

ServiceStatus    == service \in {"active", "running"}
ChanMobileStatus == service = "running"
BTStatus         == paired
TunnelStatus     == link

Snapshot ==
    [ record |-> Record, paired |-> BTStatus,
      link |-> TunnelStatus, active |-> ServiceStatus, running |-> ChanMobileStatus ]

\* A command that fails or takes too long reports what an idle host does.
AnswersStatus(b) ==
    /\ IF b = Snapshot THEN UNCHANGED detours ELSE Fails("host")
    /\ UNCHANGED <<recordVars, hostVars, cloudVars>>

StatusAnswers ==
    { Snapshot,
      [Snapshot EXCEPT !.active = FALSE], [Snapshot EXCEPT !.running = FALSE],
      [Snapshot EXCEPT !.paired = FALSE], [Snapshot EXCEPT !.link = "down"] }
=============================================================================
