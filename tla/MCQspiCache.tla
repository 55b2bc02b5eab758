---------------------------- MODULE MCQspiCache ----------------------------
\* Model checking of QspiCache: two erase units of two sectors, so that every
\* write to the unit that is not cached has a unit to write back; two threads,
\* one for FileX with system_thread's flushes and one for the USB host.
EXTENDS QspiCache
=============================================================================
