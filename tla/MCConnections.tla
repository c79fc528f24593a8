--------------------------- MODULE MCConnections ---------------------------
EXTENDS Connections
CONSTANTS prod, k1
OneConnection == <<[id |-> 1, label |-> prod, key |-> k1]>>
=============================================================================
