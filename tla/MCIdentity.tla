------------------------------ MODULE MCIdentity ------------------------------
EXTENDS Identity
=============================================================================
