-------------------------- MODULE MCAdminBlocking --------------------------
(***************************************************************************)
(* Instance for TLC: two domains and two registered handles, the second    *)
(* with the suffix of a copy and a mojeID account, so that holders share   *)
(* domains, are copied, and copies are copied again.  Indices have two     *)
(* binary digits, and the registered copy has the last of them: the next   *)
(* copy of <<1>> has one digit more, and the one after it the same name.   *)
(***************************************************************************)
EXTENDS AdminBlocking

TwoHandles == {<<1>>, <<1, 3>>}
OneMojeId == {<<1, 3>>}

(* One list with states of contacts, one without.                          *)
Lists == {{"transfer", "update"}, {"outzone"}}
=============================================================================
