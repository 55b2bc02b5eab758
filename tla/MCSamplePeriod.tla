-------------------------- MODULE MCSamplePeriod --------------------------
\* Model checking of SamplePeriod with a tick counter that wraps after 16
\* ticks, so that it wraps within every few rounds.
EXTENDS SamplePeriod
=============================================================================
