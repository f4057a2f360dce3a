--------------------------- MODULE MCPodIdentity ----------------------------
EXTENDS PodIdentity

CONSTANTS p1, n1, starting, running, red

MCObjects == [w \in {"pods", "namespaces"} |-> IF w = "pods" THEN {p1} ELSE {n1}]

MCValues ==
    [w \in {"pods", "namespaces"} |->
        IF w = "pods" THEN {starting, running, Foreign} ELSE {red, TooBig}]

MCNamespaceOf == [p \in {p1} |-> n1]

=============================================================================
