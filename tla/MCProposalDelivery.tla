--------------------------- MODULE MCProposalDelivery ---------------------------
(* A small instance of ProposalDelivery: its constants are plain numbers. *)
EXTENDS ProposalDelivery

CONSTANTS t
MCThreads == {t}
===============================================================================
