---------------------------- MODULE MCDeleteCandidates ----------------------------
(* A small instance of EppDomain and DeleteCandidates together: one name, a
   registrar whose access to the zone ends, and the system registrar. *)
EXTENDS DeleteCandidates, TLC

CONSTANTS r1, sys, a, c1

MCAccess == (r1 :> 1 @@ sys :> MaxDate)
MCProhibitions == {{}, {"serverTransferProhibited", "serverDeleteProhibited"}}
MCTypeOptions == {None, {"domain"}, {"contact"}}
===================================================================================
