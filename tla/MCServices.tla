----------------------------- MODULE MCServices -----------------------------
\* The services with small bounds; see Services.cfg.
EXTENDS Services
=============================================================================
