-------------------------- MODULE MCReviewQueries --------------------------
(* An administrator, who finds every open record, and a stakeholder, who      *)
(* finds those the submission assigned; pages of one row, so that a list has  *)
(* several.                                                                   *)
EXTENDS ReviewQueries

CONSTANTS adm, sec, r1, r2

MCUsers == {adm, sec}
MCRoleOf == [u \in MCUsers |-> IF u = sec THEN SECURITY_ROLE ELSE "admin"]
MCIsActiveUser == [u \in MCUsers |-> TRUE]
MCUserWorkload == [u \in MCUsers |-> NoWorkload]
=============================================================================
