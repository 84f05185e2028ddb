------------------------------- MODULE MCFuzzer -------------------------------
(* Four of the rows with a text form are not faithful; the properties      *)
(* speak of what the other thirty-five do among them.                      *)
EXTENDS MCContracts

ASSUME FourRowsAreNot ==
    {c \in ShippedRows \ FaithfulRows : c.op \in Formatted}
        = {ScaleByConstant, AdaptiveWalk, ReduceSum, AnnFrontier}
ASSUME RowsOfTheTable == Cardinality({c \in ShippedRows : c.op \in Formatted}) = 39
=============================================================================
