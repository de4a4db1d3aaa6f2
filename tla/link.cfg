SPECIFICATION Spec
CONSTANT None = None
INVARIANTS ReceptionTrue AssertionsHold WaitsAreTimed DeliveredOnceInOrder LinksConsistent MeshDelivers PortalsFound
PROPERTIES TriedUpToLimit
CHECK_DEADLOCK FALSE
