---------------------------- MODULE AtomicStore ----------------------------
(***************************************************************************)
(* ConfigStore with any clients: a request may call any operation at any   *)
(* time, with any record of Inputs, and the agent may die at any time.     *)
(***************************************************************************)
EXTENDS ConfigStore

CONSTANTS
    Inputs,     \* the records handlers save
    Sessions    \* the verification sessions handlers save

\* A handler computes the argument of its next call.
Assign(r) ==
    /\ todo[r] = {}
    /\ \/ \E p \in Inputs : prov' = [prov EXCEPT ![r] = p] /\ UNCHANGED sess
       \/ \E v \in Sessions : sess' = [sess EXCEPT ![r] = v] /\ UNCHANGED prov
    /\ UNCHANGED <<files, todo, saved>>

Die ==
    /\ Forget
    /\ \/ UNCHANGED files
       \/ TearState \/ TearVerification
       \/ \E r \in Requests : TearConf(r)

Next ==
    \/ \E r \in Requests :
          \/ Assign(r)
          \/ LoadInto(r, state)
          \/ LoadVerification(r)
          \/ Save(r) \/ SaveFails(r)
          \/ SaveVerification(r, sess[r]) \/ SaveVerificationFails(r, sess[r])
          \/ RenderNext(r) \/ RenderFails(r)
    \/ Die

Spec == StoreInit /\ [][Next]_storeVars
=============================================================================
