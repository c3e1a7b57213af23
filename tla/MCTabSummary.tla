---------------------------- MODULE MCTabSummary ----------------------------
(* An instance of TabSummary: a tab with a feature, and a tab whose features *)
(* the agent does not have.                                                  *)
EXTENDS TabSummary

CONSTANTS facebook, zalo, fbMessage

MCTabOf  == [f \in Features |-> facebook]
MCCodeOf == [f \in Features |-> "message"]
=============================================================================
