----------------------------- MODULE MCDataPath -----------------------------
(***************************************************************************)
(* Inputs of the data path for TLC: each set holds the cases at and around *)
(* the limits (scaled: an integer has two bytes, an attribute may be 63    *)
(* long, an SSID 1 byte, a second has 4 milliseconds, an interval is kept  *)
(* modulo 64).                                                             *)
(***************************************************************************)
EXTENDS DataPath

MCDefaultFreqs2G == {1, 2}
MCDefaultFreqs5G == {11, 12}

\* Frequencies are pairwise different in the bands.
BandsOf(b2, b5, dfs) ==
    [band_2g |-> b2, band_5g |-> b5, band_dfs |-> dfs, band_6g |-> {}, band_60g |-> {}]

WiphyOf(flags, ext, supports, caps, bands) ==
    [feature_flags |-> flags, ext_features |-> ext, supports |-> supports,
     caps |-> caps, bands |-> bands]

CapsOf(ssids, sched, match, plans, interval, iterations) ==
    [max_num_scan_ssids |-> ssids, max_num_sched_scan_ssids |-> sched,
     max_match_sets |-> match, max_num_scan_plans |-> plans,
     max_scan_plan_interval |-> interval, max_scan_plan_iterations |-> iterations]

\* A wiphy without limits' attributes, one with room for one more network, one
\* whose longest interval just wraps.
MCWiphys ==
    {WiphyOf({}, <<>>, {}, CapsOf(0, 0, 0, 0, 0, 0), BandsOf({1}, {}, {})),
     WiphyOf({"scan_random_mac"}, <<0, 16, 128, 1>>, {"low_power", "high_accuracy"},
             CapsOf(2, 2, 1, 1, 15, 2), BandsOf({1, 3}, {11}, {13})),
     WiphyOf({"scan_random_mac", "sched_scan_random_mac"}, <<255, 16, 64>>, {"low_span"},
             CapsOf(3, 3, 3, 2, 15, 2), BandsOf({1, 2}, {12}, {13})),
     WiphyOf({"sched_scan_random_mac"}, <<0, 0, 192>>, {"low_span", "low_power"},
             CapsOf(3, 2, 2, 2, 20, 2), BandsOf({2}, {11, 12}, {}))}

Channels(freqs) == [i \in DOMAIN freqs |-> [frequency |-> freqs[i]]]

Networks(ssids) == [i \in DOMAIN ssids |-> [ssid |-> ssids[i]]]

\* The vendor's elements are none, a few, or too long for an attribute.
MCScanInputs ==
    [scan_type : {-1, 0, 1, 2}, enable_6ghz_rnr : BOOLEAN,
     channel_settings : {NullList, <<>>, Channels(<<3, 11>>)},
     hidden_networks : {NullList, Networks(<< <<4>>, <<5, 6>>, <<7>>, <<1>> >>)},
     vendor_ies : {<<>>, <<1, 2, 3>>}]
    \cup
    [scan_type : {0}, enable_6ghz_rnr : {TRUE}, channel_settings : {<<>>},
     hidden_networks : {<<>>}, vendor_ies : {[i \in 1..62 |-> 1]}]

PnoNet(hidden, ssid, freqs) == [is_hidden |-> hidden, ssid |-> ssid, frequencies |-> freqs]

PnoSetting(interval, iterations, multiplier, networks) ==
    [interval_ms |-> interval, min_2g_rssi |-> 1, min_5g_rssi |-> 2, min_6g_rssi |-> 2,
     scan_iterations |-> iterations, scan_interval_multiplier |-> multiplier,
     pno_networks |-> networks]

SomeNetworks ==
    {<<PnoNet(h1, <<1>>, f1), PnoNet(TRUE, <<2>>, f2), PnoNet(h3, <<3>>, <<11>>)>> :
        h1 \in BOOLEAN, h3 \in BOOLEAN, f1 \in {<<>>, <<3, 60>>}, f2 \in {<<>>, <<2>>}}

\* Intervals below 0, of 0, below a second, and up to and beyond the limits;
\* multipliers from 0, the value of PnoSettings().
MCPnoInputs ==
    {PnoSetting(20, 2, 3, networks) : networks \in {NullList} \cup SomeNetworks}
    \cup
    {PnoSetting(interval, iterations, multiplier, <<PnoNet(FALSE, <<1>>, <<>>)>>) :
        interval \in {-8, 0, 3, 8, 16, 20, 21, 60, 70}, iterations \in {2, 3},
        multiplier \in {0, 1, 3}}

Bss(type, cmd, ifindex, elements, rest, boot, tsf, beacon, signal, status, chains,
    capability) ==
    [type |-> type, cmd |-> cmd, ifindex |-> ifindex, bssid |-> <<1, 2>>,
     elements |-> elements, rest |-> rest, boot |-> boot, tsf |-> tsf,
     beacon |-> beacon, signal |-> signal, status |-> status, chains |-> chains,
     freq |-> 11, capability |-> capability]

Network == << <<1, <<4>>>>, <<0, <<5>>>> >>

\* Results that are complete, with and without what is optional; an error; a
\* result of another interface or command; one without an SSID, one whose last
\* element is cut off, one without a time, one without a signal.
MCBss ==
    {Bss("nl80211", "new_scan_results", 3, Network, <<>>, <<9>>, <<>>, <<>>, <<40000>>, <<1>>, <<<<0, 200>>, <<2, 2>>>>, 0),
     Bss("nl80211", "new_scan_results", 3, << <<0, <<>>>> >>, <<3>>, <<>>, <<5>>, <<8>>, <<2>>, <<2>>, <<>>, 5),
     Bss("nl80211", "new_scan_results", 3, Network, <<>>, <<>>, <<6>>, <<4>>, <<2>>, <<>>, <<<<1, 1>>>>, 200),
     Bss("error", "new_scan_results", 3, Network, <<>>, <<9>>, <<5>>, <<>>, <<2>>, <<>>, <<>>, 0),
     Bss("nl80211", "other", 3, Network, <<>>, <<9>>, <<5>>, <<>>, <<2>>, <<>>, <<>>, 5),
     Bss("nl80211", "new_scan_results", 4, Network, <<>>, <<9>>, <<5>>, <<>>, <<2>>, <<0>>, <<>>, 200),
     Bss("nl80211", "new_scan_results", 3, << <<2, <<0>>>> >>, <<>>, <<9>>, <<5>>, <<>>, <<2>>, <<>>, <<>>, 0),
     Bss("nl80211", "new_scan_results", 3, << <<1, <<4>>>> >>, <<0, 2, 5>>, <<9>>, <<5>>, <<>>, <<2>>, <<>>, <<>>, 5),
     Bss("nl80211", "new_scan_results", 3, Network, <<>>, <<>>, <<>>, <<4>>, <<2>>, <<>>, <<>>, 200),
     Bss("nl80211", "new_scan_results", 3, Network, <<>>, <<9>>, <<>>, <<>>, <<>>, <<0>>, <<>>, 0)}

MCDumps == {<<>>} \cup {<<b>> : b \in MCBss} \cup {<<a, b>> : a, b \in MCBss}

MCParts == {<<>>, <<1>>, <<2, 3>>, <<4, 5, 6>>}

Device(type, cmd, w, index, name, mac) ==
    [type |-> type, cmd |-> cmd, wiphy |-> w, index |-> index, name |-> name,
     mac |-> mac]

WiphyAnswer(w) == Device("nl80211", "new_wiphy", w, <<>>, <<>>, <<>>)

Interface(i, name, mac) == Device("nl80211", "new_interface", <<0>>, i, name, mac)

\* Devices with names of even and odd lengths, some a beginning of others, two
\* with the same name; pseudo interfaces; errors and other commands.
MCDevices ==
    {Interface(<<3>>, <<<<7>>>>, <<<<1, 2>>>>),
     Interface(<<4>>, <<<<7, 8>>>>, <<<<1, 0>>>>),
     Interface(<<500>>, <<<<7, 8>>>>, <<<<3, 4>>>>),
     Interface(<<6>>, <<<<7, 8, 9>>>>, <<<<5, 6>>>>),
     Interface(<<>>, <<>>, <<<<9, 9>>>>),
     Interface(<<7>>, <<<<7, 8>>>>, <<>>),
     Device("error", "none", <<>>, <<>>, <<>>, <<>>),
     Device("nl80211", "other", <<0>>, <<3>>, <<<<7>>>>, <<<<1, 2>>>>)}

MCLookups ==
    [name : {<<7>>, <<7, 8>>},
     wiphys : {<<>>, <<WiphyAnswer(<<0>>)>>, <<WiphyAnswer(<<5>>), WiphyAnswer(<<1>>)>>,
               <<WiphyAnswer(<<>>)>>, <<Device("error", "none", <<>>, <<>>, <<>>, <<>>)>>},
     devices : BoundedSeq(MCDevices, 3)]

MCCapabilities ==
    {[is80211nSupported |-> n, is80211acSupported |-> TRUE,
      is80211axSupported |-> n, is80211beSupported |-> FALSE,
      is160MhzSupported |-> n, is80p80MhzSupported |-> TRUE,
      is320MhzSupported |-> FALSE, maxTxStreams |-> 2, maxRxStreams |-> 1] :
     n \in BOOLEAN}

=============================================================================
