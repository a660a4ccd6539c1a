\* Touch sequences of up to two fingers and mouse events, while two child
\* views register, unregister and are destroyed.
CONSTANTS
  root = root
  child1 = child1
  child2 = child2
  ns1 = ns1
  ns2 = ns2
  ns3 = ns3
  Views <- MCViews
  Root = root
  Namespaces <- MCNamespaces
  MaxTouches = 2
  MaxEvents = 5

SPECIFICATION Spec

INVARIANT TypeOK
INVARIANT TouchTargetHeldExactlyWhileTouching
INVARIANT TouchSequencesBalancedPerView

\* Every behaviour ends once MaxEvents events are routed and the views are
\* settled; the router itself never blocks.
CHECK_DEADLOCK FALSE
