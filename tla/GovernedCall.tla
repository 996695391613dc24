----------------------------- MODULE GovernedCall -----------------------------
(***************************************************************************)
(* What every governed call promises, whether it streams                   *)
(* (executeGovernedStream) or not (executeGovernedRequest): it is either   *)
(* refused, or it runs and then settles once, with one outcome; a resolved *)
(* credential lives exactly while the call runs, and is destroyed in the   *)
(* very step that settles it.                                              *)
(***************************************************************************)
CONSTANT Outcomes       \* the terminal states of a call that ran

VARIABLES stage,        \* "requested", "running" or "settled"
          secret,       \* the resolved credential: "none", "live" or "destroyed"
          outcome       \* "none", "refused" or an element of Outcomes

vars == <<stage, secret, outcome>>

Init == /\ stage = "requested"
        /\ secret = "none"
        /\ outcome = "none"

(* A check fails, possibly after the credential was resolved. *)
Refuse == /\ stage = "requested"
          /\ stage' = "settled"
          /\ secret' \in {"none", "destroyed"}
          /\ outcome' = "refused"

Begin == /\ stage = "requested"
         /\ stage' = "running"
         /\ secret' \in {"none", "live"}
         /\ UNCHANGED outcome

Settle(o) == /\ stage = "running"
             /\ stage' = "settled"
             /\ secret' = IF secret = "live" THEN "destroyed" ELSE secret
             /\ outcome' = o

SettleSomehow == \E o \in Outcomes : Settle(o)

Next == Refuse \/ Begin \/ SettleSomehow

Spec == Init /\ [][Next]_vars

(* A call that runs settles: governed calls are bounded by their timeout. *)
FairSpec == Spec /\ WF_vars(SettleSomehow)
===============================================================================
