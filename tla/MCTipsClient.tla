--------------------------- MODULE MCTipsClient ----------------------------
\* An instance of TipsClient: one group, delays of one or two ticks.
EXTENDS TipsClient

MCGroups == {1}
MCDelayTimes == {0, 1}
MCFirstIdleDelays == {2}
=============================================================================
