SPECIFICATION Spec
CONSTANTS
    Namespaces <- MCNamespaces
    Confs <- MCConfs
    MaxEvents = 2
INVARIANTS PodKnowsConfig SoleUnlessContested
PROPERTIES Handover
CHECK_DEADLOCK FALSE
