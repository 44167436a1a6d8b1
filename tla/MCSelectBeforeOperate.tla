----------------------- MODULE MCSelectBeforeOperate -----------------------
EXTENDS SelectBeforeOperate

\* Long enough for a reservation to be renewed, contested and outlived.
MCTimeout == [r \in Refs |-> 2]
=============================================================================
