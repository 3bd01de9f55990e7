-------------------------------- MODULE MCPdu --------------------------------
(* Instances of Pdu for TLC.                                               *)
EXTENDS Pdu

\* PDUs with data between two that are headers only.
Sizes == <<0, 2, 3, 0>>

=============================================================================
