----------------------------- MODULE MCMaintenance -----------------------------
EXTENDS Maintenance, TLC
=============================================================================
