CONSTANTS
    c1 = c1
    c2 = c2
    c3 = c3
    m3 = m3
    Consumers = {c1, c2, c3}
    LabelOf <- SharedLabel
    Messages = {m1, m2, m3}
    SubOf <- TwoSubs
    NoMessage = NoMessage
SPECIFICATION FairSpec
INVARIANTS WgCounts NoWorkOnClosedConsumer AtMostOneLateMessage
PROPERTIES AcksOnlyAccepted CompletesUnlessHandlerAdds
