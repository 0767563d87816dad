------------------------------ MODULE MCEnqArg ------------------------------
(***************************************************************************)
(* All pairs of requests on a key of two fields.                           *)
(***************************************************************************)
EXTENDS EnqKeys

KeyLengths == <<2, 1>>
=============================================================================
