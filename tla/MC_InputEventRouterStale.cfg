\* A touch sequence whose target view is destroyed before its last touch ends.
CONSTANTS
  root = root
  child1 = child1
  child2 = child2
  ns1 = ns1
  ns2 = ns2
  ns3 = ns3
  Views <- MCViews
  Root = root
  Namespaces <- MCNamespaces
  MaxTouches = 2
  MaxEvents = 3

SPECIFICATION Spec

PROPERTY RoutedEventsReachLiveViews

\* Every behaviour ends once MaxEvents events are routed and the views are
\* settled; the router itself never blocks.
CHECK_DEADLOCK FALSE
