------------------------------ MODULE MCServer ------------------------------
(* Values for TLC. *)
EXTENDS Server, TLC

CONSTANTS r1, r2, b1, b2

ImplementReview == <<"implement", "review">>
TwoBuckets == r1 :> b1 @@ r2 :> b2
TwoIds == {<<1>>, <<1, 2>>}
OneName == {<<1, 0>>}
=============================================================================
