----------------------------- MODULE MCChannelClaims -----------------------------
\* Two programs, both mentioned by the first transaction; the last one is no
\* social fee claim.
EXTENDS ChannelClaims

CONSTANTS s1, s2

MCTouches == <<{s1, s2}, {s1}>>
MCSocial == {s1}
=============================================================================
