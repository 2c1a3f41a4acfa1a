-------------------------- MODULE MCHgRxPoolTeardown --------------------------
EXTENDS HgRxPoolTeardown

\* A next_buflen that doubles the length up to MaxBuf bytes.
MaxBuf == 4

DoubleCapped(l) == IF 2 * l <= MaxBuf THEN 2 * l ELSE l
=============================================================================
