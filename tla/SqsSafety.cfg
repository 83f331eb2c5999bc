CONSTANTS
    Topics = {orders}
    NoTopic = NoTopic
    Messages = {m1, m2}
    QueueOf <- OneQueue
    MaxNumberOfMessages = 2
SPECIFICATION Spec
SYMMETRY Symmetric
INVARIANTS TypeOK WgCounts OneCopyUnlessExpired
PROPERTIES QuiescentAtCompletion DeletesOnlyAccepted
