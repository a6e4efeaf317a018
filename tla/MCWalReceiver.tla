------------------------------ MODULE MCWalReceiver ------------------------------
\* The receiver with its inductive invariants, for model checking.
EXTENDS WalReceiverStart
=================================================================================
