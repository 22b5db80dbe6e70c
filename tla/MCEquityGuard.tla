---------------------------- MODULE MCEquityGuard ----------------------------
EXTENDS EquityGuard
MCEquity == 1..2
=============================================================================
