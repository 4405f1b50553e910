---------------------------- MODULE MCMetricsFeed -----------------------------
EXTENDS MetricsFeed

MCOrder == <<"btc", "eth">>

MCOne == <<"btc">>

==============================================================================
