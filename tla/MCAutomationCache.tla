-------------------------- MODULE MCAutomationCache --------------------------
(* AutomationCache with two scenes and two saves.                            *)
EXTENDS AutomationCache

CONSTANTS s1, s2

\* Up to renaming, every pair of scenes but that of two disabled ones.
MCInit ==
    /\ Init
    /\ enabled[s2] \in {"gone", "Y"}
    /\ enabled[s1] = "gone" => enabled[s2] = "gone"

MCSpec == MCInit /\ [][Next]_vars /\ Fairness
=============================================================================
