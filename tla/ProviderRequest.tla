--------------------------- MODULE ProviderRequest ---------------------------
(***************************************************************************)
(* What asking a provider for something promises, as if there were one     *)
(* caller and no lost answers: it is asked once and makes at most one      *)
(* thing, which may take effect afterwards (money moves), and that thing,  *)
(* once it took effect, is recorded once.                                  *)
(***************************************************************************)
EXTENDS Integers

CONSTANTS
    Identities,     \* what the provider calls the things it makes
    None            \* no identity

VARIABLES
    stage,          \* of the request: "prepared", "asked" or "recorded"
    made,           \* things the provider made for it
    effective,      \* those that took effect
    recorded,       \* the one in the books
    records         \* how often it was entered there

vars == <<stage, made, effective, recorded, records>>

Init ==
    /\ stage = "prepared"
    /\ made = {}
    /\ effective = {}
    /\ recorded = None
    /\ records = 0

Ask ==
    /\ stage = "prepared"
    /\ stage' = "asked"
    /\ UNCHANGED <<made, effective, recorded, records>>

\* Some things take effect as soon as they are made.
Make(i) ==
    /\ stage = "asked"
    /\ made = {}
    /\ made' = {i}
    /\ effective' \in {{}, {i}}
    /\ UNCHANGED <<stage, recorded, records>>

TakeEffect(i) ==
    /\ i \in made \ effective
    /\ effective' = effective \cup {i}
    /\ UNCHANGED <<stage, made, recorded, records>>

Record(i) ==
    /\ stage = "asked"
    /\ i \in effective
    /\ stage' = "recorded"
    /\ recorded' = i
    /\ records' = records + 1
    /\ UNCHANGED <<made, effective>>

Next == Ask \/ \E i \in Identities : Make(i) \/ TakeEffect(i) \/ Record(i)

Spec == Init /\ [][Next]_vars
=============================================================================
