-------------------------- MODULE MCSensorCollect --------------------------
\* Model checking of SensorCollect: sensor threads are interchangeable.
EXTENDS SensorCollect, TLC

Symmetry == Permutations(Sensors)
=============================================================================
