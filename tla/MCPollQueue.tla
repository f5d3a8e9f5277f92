------------------------------- MODULE MCPollQueue -------------------------------
(* Two registrars; the first has two sessions. *)
EXTENDS PollQueue, TLC

CONSTANTS r1, r2, s1, s2, s3

MCRegistrarOf == (s1 :> r1 @@ s2 :> r1 @@ s3 :> r2)
==================================================================================
