--------------------------- MODULE MCSharedState ---------------------------
(* A small instance of SharedState: one project, two fields, an admin who is *)
(* also the fallback approver, the Chairman and an ordinary agent.           *)
EXTENDS SharedState, TLC

CONSTANTS ceo, chairman, alice

MCAgents == {ceo, chairman, alice}
MCStateAdmins == {ceo}
MCProfiled == {alice}
MCOwners == {}

MCSymmetry == Permutations(Values) \cup Permutations(Fields)
=============================================================================
