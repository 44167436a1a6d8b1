--------------------------- MODULE MCOvercurrent ---------------------------
EXTENDS Overcurrent

\* An inverse curve at three levels of the current.
MCTripTime == [low |-> 6, mid |-> 4, high |-> 3]

\* DEFINITE_TIME with definiteTimeSec = 0, which ptoc.validate accepts.
MCInstantaneous == [low |-> 0]
=============================================================================
