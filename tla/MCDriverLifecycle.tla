------------------------- MODULE MCDriverLifecycle -------------------------
EXTENDS DriverLifecycle, TLC

CONSTANTS t1, t2

TwoThreads == {t1, t2}

=============================================================================
