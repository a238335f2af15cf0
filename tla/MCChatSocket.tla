---------------------------- MODULE MCChatSocket ----------------------------
\* Two sign-ins one after the other, two customers to assist.
EXTENDS ChatSocket

CONSTANTS t1, t2

MCConnections == 1..2
MCTargets == {t1, t2}
=============================================================================
