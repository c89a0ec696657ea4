SPECIFICATION Spec
CONSTANTS
    a = a
    b = b
    s1 = s1
    s2 = s2
    Topic = {a, b}
    Subscriber = {s1, s2}
    NoPin = NoPin
    TopicOf <- OneEach
    Candidates <- TwoRanks
    Pins <- SomePins
    Requests = 1
    Capacity = 1
    MaxSerial = 2
    MaxPublishes = 1
    MaxBreaks = 1
    MaxFlips = 1
INVARIANTS
    AtMostOnceInOrder
    TopicsAreHeard
PROPERTIES
    SettlesOnOne
