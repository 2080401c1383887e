-------------------------- MODULE MCAccountErasure --------------------------
(***************************************************************************)
(* One account, with two settings to change and two transactions open at a *)
(* time in account-profile, and the two other contexts.                    *)
(***************************************************************************)
EXTENDS AccountErasure, TLC

CONSTANTS ann, activity, notifications, visibility, language, h1, h2

MCAccounts == {ann}
MCOthers == {activity, notifications}
MCKeys == {visibility, language}
MCHandlers == {h1, h2}
MCRequests == {
  [set |-> {"picture", "bio"}, clear |-> {}],
  [set |-> {"interests", "name"}, clear |-> {}],
  [set |-> {}, clear |-> {"bio", "name", "interests"}]}
MCSymmetry == Permutations(MCHandlers) \cup Permutations(MCKeys)
              \cup Permutations(MCOthers)
=============================================================================
