------------------------------ MODULE MCSessions ------------------------------
(* Two tabs, of one browser or of two. *)
EXTENDS Sessions, TLC

CONSTANTS laptop, phone, t1, t2

MCHomes == {t1 :> laptop @@ t2 :> laptop, t1 :> laptop @@ t2 :> phone}

(* No csrf token is like another, and none is special. *)
Interchangeable == Permutations(Nonces)
=============================================================================
