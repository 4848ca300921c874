---------------------------- MODULE MCDataLease -----------------------------
\* Two operations and a short clock; the constants are in MCDataLease.cfg.
EXTENDS DataLease
=============================================================================
