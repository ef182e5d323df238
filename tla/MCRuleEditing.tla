--------------------------- MODULE MCRuleEditing ---------------------------
(* Two rules and a zone both can move to; two requests, with a connection *)
(* for each of them or one for both.  The review has one outcome, which an*)
(* archiving and a later decision change to and fro.                      *)
EXTENDS RuleEditing
CONSTANTS r1, r2, dev, stage, prod
MCStart == [r \in {r1, r2} |-> IF r = r1 THEN dev ELSE stage]
Leave == [landing_zone |-> Unset, status |-> Unset, is_active |-> Unset]
MCEdits == {[Leave EXCEPT !.is_active = FALSE],
            [Leave EXCEPT !.landing_zone = prod, !.is_active = TRUE]}
=============================================================================
