------------------------------ MODULE MCAxiArb ------------------------------
EXTENDS AxiArb
=============================================================================
