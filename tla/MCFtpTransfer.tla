---------------------------- MODULE MCFtpTransfer ----------------------------
(* FtpTransfer, with the constants of the configurations.                  *)
EXTENDS FtpTransfer
=============================================================================
