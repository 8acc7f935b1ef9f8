--------------------------- MODULE ConfigManager ---------------------------
(***************************************************************************)
(* ConfigManager of config.go as it runs: the operations of the handlers   *)
(* take mu, and os.WriteFile is two steps, the open that truncates and the *)
(* write, either of which can fail or be the last one before the agent     *)
(* dies.  The module implements AtomicStore, whose operations the handlers *)
(* are built from.                                                         *)
(***************************************************************************)
EXTENDS Provisioning

CONSTANTS
    Requests, Inputs, Sessions,     \* as in AtomicStore
    Nobody,                         \* the owner of a free mutex
    Faults                          \* a subset of {"disk", "crash"}

ASSUME ManagerAssumption ==
    /\ Nobody \notin Requests
    /\ Inputs \subseteq Provisionings
    /\ Sessions \subseteq VerificationStates

VARIABLES
    stateFile, verificationFile,    \* state.json, verification.json
    conf,
    mu,                             \* the request inside ConfigManager
    pc,
    prov, sess, todo, saved,        \* as in ConfigStore
    before,     \* history: what a reader of the truncated file would have seen
    rendered    \* history: no rendering has been cut short since the last whole one

files  == <<stateFile, verificationFile, conf, before, rendered>>
locals == <<prov, sess, todo, saved>>
vars   == <<files, locals, mu, pc>>

Operations == {"Load", "Save", "LoadVerification", "SaveVerification"}

Whole(v) == [kind |-> "whole", value |-> v]

\* ReadFile and Unmarshal, whose errors are both ignored.
Parsed(file, zero) == IF file.kind = "whole" THEN file.value ELSE zero

stateRead        == Parsed(stateFile, ZeroProvisioning)
verificationRead == Parsed(verificationFile, NoSession)

Init ==
    /\ stateFile = Absent
    /\ verificationFile = Absent
    /\ conf = [t \in Templates |-> Sample]
    /\ before = Absent
    /\ rendered = TRUE
    /\ mu = Nobody
    /\ pc    = [r \in Requests |-> "ready"]
    /\ prov  = [r \in Requests |-> ZeroProvisioning]
    /\ sess  = [r \in Requests |-> NoSession]
    /\ todo  = [r \in Requests |-> {}]
    /\ saved = [r \in Requests |-> "none"]

-----------------------------------------------------------------------------
Goto(r, from, to) == pc[r] = from /\ pc' = [pc EXCEPT ![r] = to]

\* The handler computes the argument of its next call.
Assign(r) ==
    /\ pc[r] = "ready"
    /\ \/ \E p \in Inputs : prov' = [prov EXCEPT ![r] = p] /\ UNCHANGED sess
       \/ \E v \in Sessions : sess' = [sess EXCEPT ![r] = v] /\ UNCHANGED prov
    /\ UNCHANGED <<files, mu, pc, todo, saved>>

\* Mutant: Load does not take the mutex.
LockToWrite(r) ==
    /\ \E op \in Operations : Goto(r, "ready", op) /\ (mu = Nobody \/ op = "Load")
    /\ mu' = IF mu = Nobody THEN r ELSE mu
    /\ UNCHANGED <<files, locals>>

Lock(r) ==
    /\ mu = Nobody
    /\ \E op \in Operations : Goto(r, "ready", op)
    /\ mu' = r
    /\ UNCHANGED <<files, locals>>

\* The deferred unlock of every operation.
Return(r) ==
    /\ Goto(r, "return", "ready")
    /\ mu' = Nobody
    /\ UNCHANGED <<files, locals>>

Load(r) ==
    /\ Goto(r, "Load", "return")
    /\ prov' = [prov EXCEPT ![r] = stateRead]
    /\ saved' = [saved EXCEPT ![r] = "none"]
    /\ UNCHANGED <<files, mu, sess, todo>>

LoadVerification(r) ==
    /\ Goto(r, "LoadVerification", "return")
    /\ sess' = [sess EXCEPT ![r] = verificationRead]
    /\ UNCHANGED <<files, mu, prov, todo, saved>>

-----------------------------------------------------------------------------
SaveTruncates(r) ==
    /\ Goto(r, "Save", "Save.write")
    /\ stateFile' = Torn
    /\ before' = stateFile
    /\ UNCHANGED <<verificationFile, conf, locals, mu, rendered>>

\* Mutant: the mutex covers state.json but not the rendering.
SaveWritesAndUnlocks(r) ==
    /\ stateFile' = Whole(prov[r])
    /\ before' = Absent
    /\ mu' = Nobody
    /\ IF Complete(prov[r])
       THEN /\ Goto(r, "Save.write", "Render")
            /\ todo' = [todo EXCEPT ![r] = Templates]
            /\ saved' = [saved EXCEPT ![r] = "none"]
       ELSE /\ Goto(r, "Save.write", "ready")
            /\ saved' = [saved EXCEPT ![r] = "ok"]
            /\ UNCHANGED todo
    /\ UNCHANGED <<verificationFile, conf, prov, sess, rendered>>

SaveWrites(r) ==
    /\ stateFile' = Whole(prov[r])
    /\ before' = Absent
    /\ IF Complete(prov[r])
       THEN /\ Goto(r, "Save.write", "Render")
            /\ todo' = [todo EXCEPT ![r] = Templates]
            /\ saved' = [saved EXCEPT ![r] = "none"]
       ELSE /\ Goto(r, "Save.write", "return")
            /\ saved' = [saved EXCEPT ![r] = "ok"]
            /\ UNCHANGED todo
    /\ UNCHANGED <<verificationFile, conf, mu, prov, sess, rendered>>

\* MkdirAll or the open fails before anything is truncated, or the write
\* fails after it.
SaveFails(r) ==
    /\ "disk" \in Faults
    /\ \E from \in {"Save", "Save.write"} : Goto(r, from, "return")
    /\ before' = Absent
    /\ saved' = [saved EXCEPT ![r] = "failed"]
    /\ UNCHANGED <<stateFile, verificationFile, conf, mu, prov, sess, todo, rendered>>

RenderTruncates(r) ==
    /\ Goto(r, "Render", "Render.write")
    /\ conf' = [conf EXCEPT ![FirstOf(todo[r])] = Torn]
    /\ before' = conf[FirstOf(todo[r])]
    /\ UNCHANGED <<stateFile, verificationFile, locals, mu, rendered>>

RenderWrites(r) ==
    LET t == FirstOf(todo[r])
        last == todo[r] = {t}
    IN  /\ Goto(r, "Render.write", IF last THEN "return" ELSE "Render")
        /\ conf' = [conf EXCEPT ![t] = Rendered(t, prov[r])]
        /\ before' = Absent
        /\ rendered' = (rendered \/ last)
        /\ todo' = [todo EXCEPT ![r] = @ \ {t}]
        /\ saved' = [saved EXCEPT ![r] = IF last THEN "ok" ELSE @]
        /\ UNCHANGED <<stateFile, verificationFile, mu, prov, sess>>

\* Mutant: the error of a .conf that cannot be written is dropped.
RenderSkips(r) ==
    /\ "disk" \in Faults
    /\ \E from \in {"Render", "Render.write"} :
          Goto(r, from, IF todo[r] = {FirstOf(todo[r])} THEN "return" ELSE "Render")
    /\ before' = Absent
    /\ todo' = [todo EXCEPT ![r] = @ \ {FirstOf(todo[r])}]
    /\ saved' = [saved EXCEPT ![r] = IF todo[r] = {FirstOf(todo[r])} THEN "ok" ELSE @]
    /\ UNCHANGED <<stateFile, verificationFile, conf, mu, prov, sess, rendered>>

\* A template cannot be read or its .conf cannot be opened, or the write of
\* the .conf fails: the error returns at once, leaving the rest unrendered.
RenderFails(r) ==
    /\ "disk" \in Faults
    /\ \E from \in {"Render", "Render.write"} : Goto(r, from, "return")
    /\ before' = Absent
    /\ rendered' = FALSE
    /\ todo' = [todo EXCEPT ![r] = {}]
    /\ saved' = [saved EXCEPT ![r] = "failed"]
    /\ UNCHANGED <<stateFile, verificationFile, conf, mu, prov, sess>>

SaveVerificationTruncates(r) ==
    /\ Goto(r, "SaveVerification", "SaveVerification.write")
    /\ verificationFile' = Torn
    /\ before' = verificationFile
    /\ UNCHANGED <<stateFile, conf, locals, mu, rendered>>

SaveVerificationWrites(r) ==
    /\ Goto(r, "SaveVerification.write", "return")
    /\ verificationFile' = Whole(sess[r])
    /\ before' = Absent
    /\ UNCHANGED <<stateFile, conf, locals, mu, rendered>>

SaveVerificationFails(r) ==
    /\ "disk" \in Faults
    /\ \E from \in {"SaveVerification", "SaveVerification.write"} : Goto(r, from, "return")
    /\ before' = Absent
    /\ UNCHANGED <<stateFile, verificationFile, conf, locals, mu, rendered>>

-----------------------------------------------------------------------------
\* The agent dies and systemd starts it again.
Crash ==
    /\ "crash" \in Faults
    /\ mu' = Nobody
    /\ before' = Absent
    /\ rendered' = (rendered /\ \A r \in Requests : todo[r] = {})
    /\ pc'    = [r \in Requests |-> "ready"]
    /\ prov'  = [r \in Requests |-> ZeroProvisioning]
    /\ sess'  = [r \in Requests |-> NoSession]
    /\ todo'  = [r \in Requests |-> {}]
    /\ saved' = [r \in Requests |-> "none"]
    /\ UNCHANGED <<stateFile, verificationFile, conf>>

Next ==
    \/ \E r \in Requests :
          \/ Assign(r) \/ Lock(r) \/ Return(r) \/ Load(r) \/ LoadVerification(r)
          \/ SaveTruncates(r) \/ SaveWrites(r) \/ SaveFails(r)
          \/ RenderTruncates(r) \/ RenderWrites(r) \/ RenderFails(r)
          \/ SaveVerificationTruncates(r) \/ SaveVerificationWrites(r)
          \/ SaveVerificationFails(r)
    \/ Crash

Spec == Init /\ [][Next]_vars

-----------------------------------------------------------------------------
(* Properties. *)

FileContents(S) == {Absent, Torn} \cup [kind : {"whole"}, value : S]

PCs == Operations \cup
    {"ready", "return", "Save.write", "Render", "Render.write", "SaveVerification.write"}

\* Every variable has its type.
TypeOK ==
    /\ stateFile \in FileContents(Provisionings)
    /\ verificationFile \in FileContents(VerificationStates)
    /\ conf \in [Templates -> ConfContents]
    /\ before \in FileContents(Provisionings) \cup FileContents(VerificationStates) \cup ConfContents
    /\ rendered \in BOOLEAN
    /\ mu \in Requests \cup {Nobody}
    /\ pc \in [Requests -> PCs]
    /\ prov \in [Requests -> Provisionings]
    /\ sess \in [Requests -> VerificationStates]
    /\ todo \in [Requests -> SUBSET Templates]
    /\ saved \in [Requests -> {"none", "ok", "failed"}]

\* No .conf is ever rendered with a value missing, whatever fails and whenever
\* the agent dies: clawops-asterisk is enabled and would start on it at the
\* next boot (the guard of Save and its comment, config.go:102-108).
NeverRenderedBlank ==
    \A t \in Templates :
        conf[t].kind = "rendered" => \A f \in Placeholders[t] : conf[t].values[f] # Blank

\* When no operation is under way and no value is missing, the three files
\* Asterisk reads and state.json say the same thing, unless the last rendering
\* was cut short: mu makes it hold with several handlers saving, and the next
\* Save that renders repairs whatever a failure or a death has left.
ConfsMatchState ==
    rendered /\ mu = Nobody /\ Complete(stateRead) =>
        \A t \in Templates : conf[t] = Rendered(t, stateRead)

\* A Save that reports success has written its record and, if the record is
\* complete, every template from it; this holds with failures and crashes too.
SaveSucceedsWhole ==
    [][\A r \in Requests :
          /\ pc[r] \in {"Save.write", "Render.write"}
          /\ pc'[r] = "return"
          /\ saved'[r] = "ok"
          =>
              /\ stateFile' = Whole(prov[r])
              /\ Complete(prov[r]) =>
                    \A t \in Templates : conf'[t] = Rendered(t, prov[r])]_vars

-----------------------------------------------------------------------------
(* The store ConfigManager implements.  A file between truncate and write  *)
(* still counts as what it was: mu keeps every reader out.                 *)

StateBar ==
    IF \E r \in Requests : pc[r] = "Save.write"
    THEN Parsed(before, ZeroProvisioning) ELSE stateRead

VerificationBar ==
    IF \E r \in Requests : pc[r] = "SaveVerification.write"
    THEN Parsed(before, NoSession) ELSE verificationRead

ConfBar ==
    [t \in Templates |->
        IF \E r \in Requests : pc[r] = "Render.write" /\ FirstOf(todo[r]) = t
        THEN before ELSE conf[t]]

Store == INSTANCE AtomicStore WITH
    state <- StateBar, verification <- VerificationBar, conf <- ConfBar

\* Handlers that use a ConfigManager cannot tell it from one that reads and
\* writes whole files atomically, up to the failures ConfigStore admits.
ImplementsStore == Store!Spec
=============================================================================
