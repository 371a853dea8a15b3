------------------------------ MODULE MCAotHelpers -----------------------------
(***************************************************************************)
(* Programs to load: one of a root and a child, one of two modules.        *)
(***************************************************************************)
EXTENDS AotHelpers

MCLoads ==
    {[modules |-> FALSE, trees |-> <<[root |-> "proto", children |-> <<"child">>]>>],
     [modules |-> TRUE, trees |-> <<[root |-> "proto", children |-> <<>>],
                                    [root |-> "proto2", children |-> <<>>]>>]}
================================================================================
