------------------------------ MODULE MCHeartbeat -------------------------------
\* Six-bit ints: the overflow comes after 64 calls instead of 2^32.  Rates of either
\* sign, at the ends of the int, over half of it, and 0.
EXTENDS Heartbeat

MCRates == {IntMin, -7, -1, 0, 1, 2, 3, 7, 20, IntMax}
================================================================================
