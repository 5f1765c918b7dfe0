------------------------------- MODULE MCSmf -------------------------------
(* A gateway between a wired network and a MANET, and a MANET node.        *)
EXTENDS Smf

CONSTANTS eth, wlan, host1, host2, tagger1, tagger2, spi1, source

To(iface, type) == [to |-> iface, type |-> type]

\* How many packets the wired host, the mobile one, and an IPSec flow
\* between the latter's addresses send.
Quota(wired, mobile, secure) ==
    [s \in AllStreams |-> IF IsIPSec(s) THEN secure ELSE IF s.pair = host2 THEN mobile ELSE wired]

\* rpush eth,wlan push wlan,eth cf wlan
Gateway(wired, mobile) ==
    [resequence |-> {eth},
     associates |-> [i \in Ifaces |-> IF i = eth THEN {To(wlan, "CF")}
                                      ELSE {To(eth, "CF"), To(wlan, "CF")}],
     quota |-> Quota(wired, mobile, 0)]

\* smpr wlan, or ecds wlan
Relay(type, mobile, secure) ==
    [resequence |-> {},
     associates |-> [i \in Ifaces |-> IF i = eth THEN {} ELSE {To(wlan, type)}],
     quota |-> Quota(0, mobile, secure)]

Setups == {Gateway(2, 0), Gateway(1, 1), Relay("S_MPR", 3, 0), Relay("E_CDS", 4, 0), Relay("CF", 2, 1)}
OneRelay == {Relay("E_CDS", 3, 0)}

Wired == [pair |-> host1, tagger |-> NoTagger, spi |-> NoSpi, by |-> source]
Mobile == [pair |-> host2, tagger |-> NoTagger, spi |-> NoSpi, by |-> source]
Secure == [pair |-> host2, tagger |-> NoTagger, spi |-> spi1, by |-> source]
Tagged1 == [pair |-> host2, tagger |-> tagger1, spi |-> NoSpi, by |-> source]
Tagged2 == [pair |-> host2, tagger |-> tagger2, spi |-> NoSpi, by |-> source]

AllHosts == {Wired, Mobile, Secure}
TwoTaggers == {Tagged1, Tagged2}

HeardWhereSent == [s \in Streams |-> IF s.pair = host1 THEN {eth} ELSE {wlan}]

\* The theorems about forwarding are about these networks and command lines, too.
ASSUME SetupsAreOrderly == Streams = AllHosts => Orderly

\* What cannot matter to this configuration is left out.
Types == {a.type : a \in UNION {config.associates[i] : i \in Ifaces}}
View ==
    << config, trees, seqMgr, current_update_time, net, relay_enabled,
       IF "E_CDS" \in Types THEN relay_selected ELSE TRUE,
       IF "S_MPR" \in Types THEN <<selectors, neighbors>> ELSE <<>> >>
=============================================================================
