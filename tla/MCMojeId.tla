------------------------------ MODULE MCMojeId ------------------------------
(* One or two transactions and a handful of changes.                       *)
EXTENDS MojeId

OneChangeEach == {{"name"}, {"mailing"}, {"email"}}
=============================================================================
