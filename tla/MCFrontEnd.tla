----------------------------- MODULE MCFrontEnd -----------------------------
(* A small instance of FrontEnd: the old list may hold a server that the    *)
(* user never types.                                                        *)
EXTENDS FrontEnd, TLC

MCLegacyLists == {<<>>} \cup {<<s>> : s \in Servers \ Typed}
Symmetry      == {f @@ g @@ [s \in Servers \ Typed |-> s] :
                    f \in Permutations(Typed), g \in Permutations(PowerCommands)}
=============================================================================
