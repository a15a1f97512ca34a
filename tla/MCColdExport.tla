---------------------------- MODULE MCColdExport ----------------------------
EXTENDS ColdExport

MCMonths == [h \in 0..4 |-> <<1, 2, 3, 3, 3>>[h + 1]]
=============================================================================
