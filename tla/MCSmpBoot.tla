------------------------------ MODULE MCSmpBoot ------------------------------
EXTENDS SmpBoot

CPUEntry(id) == [APICID |-> id, enabled |-> TRUE]
Disabled(id) == [APICID |-> id, enabled |-> FALSE]

\* Ids in order and out of order, with a gap, and with a processor that cannot
\* be turned on.
MCTables == {
    <<CPUEntry(0), CPUEntry(1), CPUEntry(2), CPUEntry(3)>>,
    <<CPUEntry(2), CPUEntry(0), CPUEntry(3)>>,
    <<CPUEntry(0), Disabled(1), CPUEntry(4), CPUEntry(2), CPUEntry(6)>> }
=============================================================================
