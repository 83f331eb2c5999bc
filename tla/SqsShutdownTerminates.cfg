CONSTANTS
    Topics = {orders}
    NoTopic = NoTopic
    Messages = {m1}
    QueueOf <- OneQueue
    MaxNumberOfMessages = 1
SPECIFICATION FairSpec
PROPERTY ShutdownTerminates
