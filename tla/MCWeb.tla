-------------------------------- MODULE MCWeb --------------------------------
\* The pages for TLC: two e-mails, one Google identity of each, whose display
\* names make the same username.
EXTENDS Web

CONSTANTS e1, e2, g1, g2

MCEmailOf == [g \in Googles |-> IF g = g1 THEN e1 ELSE e2]
MCBaseOf == [g \in Googles |-> 1]
=============================================================================
