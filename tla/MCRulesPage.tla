---------------------------- MODULE MCRulesPage ----------------------------
(* The bar without filters, with a search text and with a status; pages of  *)
(* two rules, so that three rules fill one and begin another.               *)
EXTENDS RulesPage
=============================================================================
