----------------------------- MODULE MCAdmission -----------------------------
(***************************************************************************)
(* Two workers that name the same two rated resources in opposite orders.  *)
(* A bucket holds fewer tokens than the two requests together, so each     *)
(* worker can hold tokens of one bucket while it waits for the other.      *)
(* In front of them w1 pays a resource that has a budget and no bucket.    *)
(***************************************************************************)
EXTENDS Admission, TLC

CONSTANTS w1, w2, req, tpm, usd

MCWorkers == {w1, w2}
MCResources == {req, tpm, usd}
MCRated == {req, tpm}
MCSizes == (w1 :> {1}) @@ (w2 :> {2, 3})
MCLimit == (req :> 3) @@ (tpm :> 3) @@ (usd :> 2)
MCBurst == (req :> 2) @@ (tpm :> 2)
MCNames == (w1 :> <<usd, req, tpm>>) @@ (w2 :> <<tpm, req>>)
==============================================================================
