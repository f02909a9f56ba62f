-------------------------- MODULE MCTransactionRun --------------------------
\* Instances of TransactionRun for TLC: one transaction about two entries.
EXTENDS TransactionRun
=============================================================================
