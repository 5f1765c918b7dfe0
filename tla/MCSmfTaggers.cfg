SPECIFICATION Spec
CONSTANTS
    eth = eth
    wlan = wlan
    host1 = host1
    host2 = host2
    tagger1 = tagger1
    tagger2 = tagger2
    spi1 = spi1
    source = source
    Ifaces = {eth, wlan}
    NoIface = none
    Macs = {mac}
    Node = node
    NoTagger = noTagger
    NoSpi = noSpi
    Streams <- TwoTaggers
    Heard <- HeardWhereSent
    Manet = {wlan}
    Configs <- OneRelay
    FirstIds = {6}
    Seeds = {1, 6}
    NumBits = 3
    RangeSize = 8
    WindowPastMax = 3
    AgeMax = 2
    Spread = 2
    Lifetime = 3
    MaxTime = 4
VIEW View
INVARIANT
    FreshIsForwarded
CHECK_DEADLOCK FALSE
