-------------------------- MODULE MCTransferStatus --------------------------
(* TransferStatus, with the constants of the configurations.               *)
EXTENDS TransferStatus
=============================================================================
