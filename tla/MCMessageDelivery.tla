-------------------------- MODULE MCMessageDelivery --------------------------
(***************************************************************************)
(* Instances of MessageDelivery for TLC.                                    *)
(***************************************************************************)
EXTENDS MessageDelivery, TLC
=============================================================================
