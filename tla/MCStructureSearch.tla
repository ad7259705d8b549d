--------------------------- MODULE MCStructureSearch ---------------------------
(* Every combination of candidates just below and just at the threshold. *)
EXTENDS StructureSearch

TwoFunctions == <<"lin", "lin_shift">>
PassOrFail == [Candidate -> {7, 8}]
================================================================================
