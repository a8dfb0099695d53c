--------------------------- MODULE MCBoardMoments ---------------------------
\* Instances of BoardMoments for TLC: the cards and their classes of events are
\* model values and strings of the configuration.
EXTENDS BoardMoments
CONSTANT a
=============================================================================
