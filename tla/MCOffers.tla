------------------------------ MODULE MCOffers ------------------------------
(* Instances of Offers for TLC. *)
EXTENDS Offers

CONSTANTS c1, c2, s1, j1

MCTwoComponents == {c1, c2}
MCOneComponent == {c1}
MCShops == {s1}
MCJobs == {j1}
MCUploads == {"upload"}
=============================================================================
