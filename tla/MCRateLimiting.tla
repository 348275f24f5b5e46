---------------------------- MODULE MCRateLimiting ----------------------------
EXTENDS RateLimiting
=============================================================================
