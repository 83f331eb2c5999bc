CONSTANTS
    Topics = {orders, refunds}
    NoTopic = NoTopic
    Messages = {m1}
    QueueOf <- OneQueue
    MaxNumberOfMessages = 1
SPECIFICATION FairSpec
PROPERTIES CompletesUnlessStuck ReceivedIsHandled HandlerKeptWhileServing
