---------------------------- MODULE ClientConfig ----------------------------
(***************************************************************************)
(* The obfuscation parameters of a client configuration: defaults, the     *)
(* server's profile and what the node reports are put together, a profile  *)
(* of the format is selected by what is there, and the normaliser of that  *)
(* profile validates and drops values.  Client and node can only talk when *)
(* they have the same values, so nothing may be lost on the way.           *)
(*                                                                         *)
(* A parameter set has numbers (a function of some of Jc..S4), headers (a  *)
(* function of some of 1..4 to ranges <<lo, hi>>, printed as a number when *)
(* lo = hi) and the text I1.  A key, address, endpoint or network is legal *)
(* or not.                                                                 *)
(***************************************************************************)
EXTENDS Integers

CONSTANTS Profiles,  \* parameter sets of server profiles
          Reports,   \* what get_obfuscation_from_node may return
          Mtus

Fields == {"PrivateKey", "Address", "PublicKey", "Endpoint", "AllowedIPs", "PresharedKey"}

NoParams == [num |-> <<>>, hd |-> <<>>, i1 |-> "absent"]
Header == 1..4

\* {**g, **f}: the keys of both, with the values of f where it has them.
Over(f, g) == [k \in DOMAIN f \cup DOMAIN g |-> IF k \in DOMAIN f THEN f[k] ELSE g[k]]

DefaultNum == [Jc |-> 3, Jmin |-> 10, Jmax |-> 50, S1 |-> 213, S2 |-> 237]
DefaultHd == [k \in Header |-> <<10 * k, 10 * k>>]

Has(o, k) == k \in DOMAIN o.num
Value(o, k) == IF Has(o, k) /\ o.num[k] > 0 THEN o.num[k] ELSE 0
\* AmneziaWG refuses S1 + 56 = S2.
SizesClash(s1, s2) == s1 + 56 = s2

Numbers == {"Jc", "Jmin", "Jmax", "S1", "S2", "S3", "S4"}
IsParams(o) ==
    /\ o = [num |-> o.num, hd |-> o.hd, i1 |-> o.i1]
    /\ DOMAIN o.num \subseteq Numbers /\ o.num \in [DOMAIN o.num -> Nat]
    /\ DOMAIN o.hd \subseteq Header /\ o.hd \in [DOMAIN o.hd -> Nat \X Nat]

\* External: `wg show` prints the sizes of an interface that is up, so that they do not
\* clash; one that is off is printed as 0 or not at all, both by the same rule.
IsShown(r) ==
    /\ ~SizesClash(Value(r, "S1"), Value(r, "S2"))
    /\ Has(r, "S1") /\ Value(r, "S1") = 0 => Has(r, "S2")

ASSUME ClientConfigAssumption ==
    /\ \A p \in Profiles : IsParams(p)
    /\ \A r \in Reports : IsParams(r) /\ IsShown(r)
    /\ Mtus \subseteq Nat

-----------------------------------------------------------------------------
(* What goes into a configuration.                                         *)

\* NODE_MODE=real ignores the headers of the profile.
ParamsWithServerH(p, real) == IF real THEN [p EXCEPT !.hd = <<>>] ELSE p

GetObfuscationParams(p) ==
    IF p = NoParams THEN [num |-> DefaultNum, hd |-> DefaultHd, i1 |-> "absent"]
    ELSE [num |-> Over(p.num, Over(DefaultNum, [S3 |-> 0, S4 |-> 0])),
          hd |-> Over(p.hd, DefaultHd), i1 |-> p.i1]

\* Mutant: sizes are compared when both are on, as the normalisers do it.
ProfileRaisesIfOn(q, g) == q # NoParams /\ g.num.S1 > 0 /\ SizesClash(g.num.S1, g.num.S2)

ProfileRaises(q, g) == q # NoParams /\ SizesClash(g.num.S1, g.num.S2)

\* The node's values count when it reports all four headers.
Reported(r) == DOMAIN r.hd = Header

Overlay(o, r) == IF Reported(r) THEN [o EXCEPT !.num = Over(r.num, @), !.hd = Over(r.hd, @)] ELSE o

\* int() of a header that is a range raises.
IsRange(h) == h[1] # h[2]
OverlayRaises(r) == Reported(r) /\ \E k \in Header : IsRange(r.hd[k])

-----------------------------------------------------------------------------
(* The profile of the format and its normaliser.                           *)

\* A header counts unless it is a number that is not positive.
Counts(h) == IsRange(h) \/ h[2] > 0

SelectAwg2(o) ==
    \/ \E k \in DOMAIN o.hd : Counts(o.hd[k])
    \/ Value(o, "S3") > 0 \/ Value(o, "S4") > 0 \/ o.i1 = "text"

BothRaise(o) ==
    \/ o.i1 = "blank"
    \/ Value(o, "S1") > 0 /\ Value(o, "S2") > 0 /\ SizesClash(Value(o, "S1"), Value(o, "S2"))
    \/ Value(o, "Jmin") > 0 /\ Value(o, "Jmax") > 0 /\ Value(o, "Jmin") > Value(o, "Jmax")

LegacyRaises(o) ==
    \/ \E k \in DOMAIN o.hd : Counts(o.hd[k])
    \/ Has(o, "S3") \/ Has(o, "S4")
    \/ Value(o, "Jc") > 10
    \/ \E k \in {"Jmin", "Jmax"} : Value(o, k) \notin {0} \cup 64..1024
    \/ \E k \in {"S1", "S2"} : Value(o, k) > 64
    \/ BothRaise(o)

Overlap(a, b) == a[1] <= b[2] /\ b[1] <= a[2]
\* Headers that end at 0 are left out.
Emitted(o) == {k \in DOMAIN o.hd : o.hd[k][2] > 0}

Awg2Raises(o, mtu) ==
    \/ Value(o, "Jc") > 128
    \/ \E k \in {"Jmin", "Jmax"} : Value(o, k) > 1280
    \/ Value(o, "S1") > mtu - 148 \/ Value(o, "S2") > mtu - 92
    \/ \E k \in Emitted(o) : o.hd[k][1] > o.hd[k][2]
    \/ \E j, k \in Emitted(o) : j # k /\ Overlap(o.hd[j], o.hd[k])
    \/ BothRaise(o)

Normalised(o) ==
    [num |-> [k \in {k \in DOMAIN o.num : o.num[k] > 0} |-> o.num[k]],
     hd |-> [k \in Emitted(o) |-> o.hd[k]], i1 |-> o.i1]

\* Every field is validated, the preshared key after the parameters.
FieldsRaise(bad) == bad # {}

\* The AmneziaWG and the obfuscated configuration are built first; the plain one has no
\* parameters.  Any error of one of them refuses the request.
BuildAllConfigs(p, real, r, mtu, bad) ==
    LET q == ParamsWithServerH(p, real)
        g == GetObfuscationParams(q)
        o == Overlay(g, r)
        raises == \/ ProfileRaises(q, g) \/ OverlayRaises(r) \/ FieldsRaise(bad)
                  \/ IF SelectAwg2(o) THEN Awg2Raises(o, mtu) ELSE LegacyRaises(o)
    IN IF raises THEN [ok |-> FALSE, out |-> NoParams] ELSE [ok |-> TRUE, out |-> Normalised(o)]

-----------------------------------------------------------------------------
VARIABLES conf   \* a configuration that was asked for, and the answer; each behaviour asks one

confVars == <<conf>>

Request(p, r, bad) == [profile |-> p, report |-> r, bad |-> bad]

NotAsked == [asked |-> FALSE, q |-> Request(NoParams, NoParams, {}), a |-> [ok |-> FALSE, out |-> NoParams]]
ConfInit == conf = NotAsked

AskConfig ==
    /\ conf = NotAsked
    /\ \E p \in Profiles, real \in BOOLEAN, r \in Reports, mtu \in Mtus, bad \in SUBSET Fields :
          conf' = [asked |-> TRUE, q |-> Request(p, r, bad),
                   a |-> BuildAllConfigs(p, real, r, mtu, bad)]

ConfSpec == ConfInit /\ [][AskConfig]_confVars

-----------------------------------------------------------------------------
(* Properties.                                                             *)

\* "S1, S2, H1-H4 must match the server in every issued client config": a value that
\* the node reports is in the configuration, or the configuration is refused; a value
\* that is left out is one the node has off.
CarriesNodeValues ==
    conf.a.ok /\ Reported(conf.q.report) =>
        /\ \A k \in DOMAIN conf.q.report.num : Value(conf.a.out, k) = Value(conf.q.report, k)
        /\ \A k \in Header : IF conf.q.report.hd[k][2] > 0 THEN k \in DOMAIN conf.a.out.hd
                                /\ conf.a.out.hd[k] = conf.q.report.hd[k]
                             ELSE k \notin DOMAIN conf.a.out.hd

\* A configuration never has sizes that the kernel refuses, also when one of them is
\* left out because it is 0 (the sizes of a profile are not negative).
SizesAreLegal ==
    conf.a.ok => ~SizesClash(Value(conf.a.out, "S1"), Value(conf.a.out, "S2"))

\* A configuration that is handed out fits the node and is one the kernel accepts.
ConfigFits == CarriesNodeValues /\ SizesAreLegal
=============================================================================
