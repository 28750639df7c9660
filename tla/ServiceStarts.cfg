\* Two replicas of every deployment; those that can start may start together and
\* need the same bucket.
SPECIFICATION FairSpec
CONSTANTS
    Replicas = {1, 2}
    Environments <- Deployments
INVARIANTS ReadyWorksItsQueues ListeningIsWhole FiresHaveAQueue
PROPERTIES RegisteredAfterStart AllServeInTheEnd
\* Once it is calm and every replica serves, nothing is left to do.
CHECK_DEADLOCK FALSE
