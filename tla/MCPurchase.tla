----------------------------- MODULE MCPurchase -----------------------------
(* Instances of Purchase: one purchase on each rail. *)
EXTENDS Purchase, TLC

EachRail ==
    {<<"clink_allowance", {"mandate", "offering"}>>, <<"clink_payer_proxy", {}>>,
     <<"external_x402_signature", {"offering"}>>}
ChangingProxy == {<<"clink_payer_proxy", {"offering"}>>}

(* Only requests for a row that is not paid yet read whether the preview has *)
(* expired: what follows a later expiry also happens without it.            *)
ExpiryMatters == expired => row.data.state \in Unpaid \cup {"signing_required", "failed"}

RequestSymmetry == Permutations(Request)
=============================================================================
