--------------------------- MODULE MCSafetyRunners ---------------------------
(* Two runners; hbb_common with none of the findings or one of them.  What   *)
(* runs no probe needs no choice of findings.                                *)
EXTENDS SafetyRunners

CONSTANTS first, second

Setting(a, b, found, strict, addr) ==
    [script |-> (first :> a) @@ (second :> b), faults |-> found,
     hardened |-> strict, server |-> addr]

Chosen ==
    {Setting("dynamic", "ci", found, strict, ~strict) :
        found \in {{}, {"normal"}, {"alloc"}, {"names"}}, strict \in BOOLEAN}
    \cup {Setting("resource", "fuzz", found, strict, FALSE) :
        found \in {{}, {"alloc"}, {"expansion"}}, strict \in BOOLEAN}
    \cup {Setting("resource", "advisories", {"alloc"}, TRUE, FALSE)}
=============================================================================
