------------------------ MODULE MC_InputEventRouter ------------------------
(* A root view and two child-frame views, three surface namespaces.        *)
EXTENDS InputEventRouter

CONSTANTS root, child1, child2, ns1, ns2, ns3

MCViews == {root, child1, child2}
MCNamespaces == {ns1, ns2, ns3}
=============================================================================
