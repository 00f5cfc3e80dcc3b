CONSTANTS
    MAX_ATTEMPTS = 3
    MaxClients = 2
    MaxSignals = 2
    Stubborn = TRUE
SPECIFICATION FairSpec
INVARIANTS TypeOK NoStrayProducer RegisteredProducerIsStopped GoneMeansNobody
PROPERTIES NeverStrandsWatchers RecoversOnceFree Attended ReleasedUnlessRetried ImplementsOnDemand
