----------------------------- MODULE DoubleOptIn -----------------------------
(***************************************************************************)
(* What a newsletter owes the owner of an address: he is confirmed only    *)
(* through the one link of his latest request, and every opt-out ends that *)
(* request too.                                                            *)
(***************************************************************************)
CONSTANT Links

VARIABLES
  status,  \* of the address
  valid    \* the links that would confirm it

optInVars == <<status, valid>>

OptInInit == status = "none" /\ valid = {}

Request(link) ==
  /\ status # "confirmed"
  /\ link \notin valid
  /\ status' = "pending"
  /\ valid' = {link}

Confirm(link) ==
  /\ status = "pending"
  /\ link \in valid
  /\ status' = "confirmed"
  /\ valid' = {}

OptOut ==
  /\ status # "none"
  /\ status' = "unsubscribed"
  /\ valid' = {}

OptInNext ==
  \/ \E link \in Links : Request(link) \/ Confirm(link)
  \/ OptOut

OptInSpec == OptInInit /\ [][OptInNext]_optInVars
=============================================================================
