-------------------------- MODULE MCTimingMetrics --------------------------
EXTENDS TimingMetrics
=============================================================================
