------------------------------ MODULE MCDaemon ------------------------------
EXTENDS Daemon

\* Cadences where only the ATH pass wakes the daemon often, and short ones.
TwoConfigs ==
  { [ingest |-> 2, derive |-> 3, ath |-> 1, athOn |-> TRUE, stall |-> 1],
    [ingest |-> 1, derive |-> 1, ath |-> 2, athOn |-> FALSE, stall |-> 3] }
=============================================================================
