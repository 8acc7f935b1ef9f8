---------------------------- MODULE Provisioning ----------------------------
(***************************************************************************)
(* The data of the control-agent: the provisioning record of config.go,    *)
(* the verification session beside it, and what the configuration          *)
(* templates make of the record.                                           *)
(*                                                                         *)
(* A value is represented by where it came from, which is all the          *)
(* properties tell apart: an HFP port by the phone whose SDP record gave   *)
(* it, a tunnel address by the WireGuard key ClawOps assigned it to.       *)
(***************************************************************************)
EXTENDS Naturals

CONSTANTS
    Adapters,   \* Bluetooth adapters, by BD address
    Phones,     \* phones, by BD address
    Keys,       \* WireGuard key pairs; the private and the public half have one name
    Numbers,    \* telephone numbers
    Nonces,     \* verification nonces, in the order ClawOps issues them
    Blank       \* the empty string, an all-white string, or port 0

ASSUME BlankAssumption ==
    /\ Blank \notin Adapters \cup Phones \cup Keys \cup Numbers \cup {"kamailio"}
    /\ Nonces \subseteq Nat
    /\ Blank \notin Nat

OrBlank(S) == S \cup {Blank}

Provisionings ==
    [ adapter_mac : OrBlank(Adapters),
      phone_mac   : OrBlank(Phones),
      hfp_port    : OrBlank(Phones),
      tunnel_ip   : OrBlank(Keys),
      kamailio_ip : OrBlank({"kamailio"}),
      did         : OrBlank(Numbers) ]

Fields ==
    {"adapter_mac", "phone_mac", "hfp_port", "tunnel_ip", "kamailio_ip", "did"}

\* What Load yields when state.json is absent or does not parse.
ZeroProvisioning ==
    [ adapter_mac |-> Blank, phone_mac   |-> Blank, hfp_port |-> Blank,
      tunnel_ip   |-> Blank, kamailio_ip |-> Blank, did      |-> Blank ]

missing(p) == {f \in Fields : p[f] = Blank}

\* Mutant: the templates are rendered with what there is.
CompleteEnough(p) == missing(p) \subseteq Fields

Complete(p) == missing(p) = {}

VerificationStates == [nonce : OrBlank(Nonces), verified_number : OrBlank(Numbers)]

NoSession == [nonce |-> Blank, verified_number |-> Blank]

-----------------------------------------------------------------------------
(* The *.tmpl files of the package and the placeholders each one contains. *)

Templates == {"chan_mobile.conf", "extensions.conf", "pjsip.conf"}

Placeholders ==
    [t \in Templates |->
        CASE t = "chan_mobile.conf" -> {"adapter_mac", "phone_mac", "hfp_port"}
          [] t = "extensions.conf"  -> {"did"}
          [] t = "pjsip.conf"       -> {"tunnel_ip", "kamailio_ip"}]

\* Mutant: the port is not among the values substituted.
RenderedWithoutPort(t, p) ==
    [kind |-> "rendered", values |-> [f \in Placeholders[t] \ {"hfp_port"} |-> p[f]]]

\* The .conf a template becomes: its placeholders replaced by p's values.
Rendered(t, p) == [kind |-> "rendered", values |-> [f \in Placeholders[t] |-> p[f]]]

\* os.ReadDir lists a directory in the order of the file names.
FirstOf(todo) ==
    CASE "chan_mobile.conf" \in todo -> "chan_mobile.conf"
      [] "chan_mobile.conf" \notin todo /\ "extensions.conf" \in todo -> "extensions.conf"
      [] OTHER -> "pjsip.conf"

\* A .conf on disk: the sample the package ships, nothing, a file cut short
\* by a failed or interrupted write, or a rendered template.
Sample == [kind |-> "sample"]
Absent == [kind |-> "absent"]
Torn   == [kind |-> "torn"]

Values == OrBlank(Adapters \cup Phones \cup Keys \cup Numbers \cup {"kamailio"})

RenderedConfs ==
    [kind : {"rendered"}, values : UNION {[Placeholders[t] -> Values] : t \in Templates}]

ConfContents == {Sample, Absent, Torn} \cup RenderedConfs
=============================================================================
