--------------------------- MODULE MCSaveRestore ---------------------------
EXTENDS SaveRestore, TLC

CONSTANT Office

Entry(m) == [id |-> m, offices |-> <<Office>>]

\* Every map, one of the maps, the same map twice, an office twice, no file.
Configurations ==
    {<<Entry(m), Entry(n)>> : m, n \in Maps} \cup {<<Entry(m)>> : m \in Maps}
    \cup {<<[Entry(m) EXCEPT !.offices = <<Office, Office>>]>> : m \in Maps} \cup {NoConfig}

MapSymmetry == Permutations(Maps)
=============================================================================
