----------------------------- MODULE MCInsights -----------------------------
EXTENDS Insights

MCQueued == {1}
MCForced == {2}
MCApprovals == {"first", "second"}
=============================================================================
