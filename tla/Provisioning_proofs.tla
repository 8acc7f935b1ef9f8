------------------------ MODULE Provisioning_proofs ------------------------
(***************************************************************************)
(* Lemmas about the record and the templates, for the proofs about the     *)
(* modules that use them.                                                  *)
(***************************************************************************)
EXTENDS Provisioning, TLAPS

-----------------------------------------------------------------------------
(* The templates. *)

\* The template rendered next is one that is left to render.
LEMMA FirstOfTodo ==
    ASSUME NEW S \in SUBSET Templates, S # {}
    PROVE  FirstOf(S) \in S
BY DEF FirstOf, Templates

\* Every placeholder is a field of the record.
LEMMA PlaceholdersAreFields ==
    ASSUME NEW t \in Templates
    PROVE  Placeholders[t] \in SUBSET Fields
BY DEF Templates, Placeholders, Fields

LEMMA FieldValue ==
    ASSUME NEW p \in Provisionings, NEW f \in Fields
    PROVE  p[f] \in Values
BY DEF Provisionings, Fields, Values, OrBlank

LEMMA RenderedType ==
    ASSUME NEW t \in Templates, NEW p \in Provisionings
    PROVE  Rendered(t, p) \in ConfContents
<1>1. [f \in Placeholders[t] |-> p[f]] \in [Placeholders[t] -> Values]
  BY PlaceholdersAreFields, FieldValue
<1> QED
  BY <1>1 DEF Rendered, ConfContents, RenderedConfs

\* A template rendered from a complete record has no value missing.
LEMMA RenderedComplete ==
    ASSUME NEW t \in Templates, NEW p, Complete(p), NEW f \in Placeholders[t]
    PROVE  Rendered(t, p).values[f] # Blank
BY PlaceholdersAreFields DEF Rendered, Complete, missing

LEMMA ZeroTypes ==
    /\ ZeroProvisioning \in Provisionings
    /\ NoSession \in VerificationStates
BY DEF ZeroProvisioning, Provisionings, NoSession, VerificationStates, OrBlank
=============================================================================
