-------------------------- MODULE MCAutomaticKeysets --------------------------
(***************************************************************************)
(* A managed domain and one in another zone, two nssets with different     *)
(* name servers, a keyset of a registrar and two handles of the            *)
(* management, two calls at a time, and MaxCommands steps of the others in *)
(* any order.                                                              *)
(***************************************************************************)
EXTENDS AutomaticKeysets, TLC

CONSTANTS n1, n2, h1, h2

MCInitialHosts == n1 :> h1 @@ n2 :> h2
===============================================================================
