------------------------------- MODULE MCWire -------------------------------
EXTENDS Wire

MCPaths == {1, 2}
\* Status of the first just fits the client's buffer, the second never does.
MCMaps == {[bsets |-> 1, replicas |-> 1, shares |-> <<1>>],
           [bsets |-> 1, replicas |-> 2, shares |-> <<1, 1>>]}

Of(service, ops, paths) == {[service |-> service, op |-> op, path |-> p] : op \in ops, p \in paths}
Cluster == Of("Cluster", DOMAIN ClusterFields.request, {0})
Objects == Of("Object", DOMAIN ObjectFields.request, {0}) \cup Of("Object", {"Put"}, MCPaths)
Foos    == Of("Foo", DOMAIN FooFields.request, {0}) \cup Of("Foo", {"Put"}, MCPaths)

MCRequests == Cluster \cup Objects \cup Foos
MCPlans == UNION {[1..2 -> S] : S \in {Cluster, Objects, Foos}}
=============================================================================
