--------------------------- MODULE MCHandlerThreads ---------------------------
EXTENDS HandlerThreads, TLC

\* Two copies of message 1, and two other messages.
MCId(p) == IF p = 4 THEN 1 ELSE p
=============================================================================
