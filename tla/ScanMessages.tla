---------------------------- MODULE ScanMessages ----------------------------
(***************************************************************************)
(* What wificond asks the kernel to scan, and what it makes of the results: *)
(* the parameters ScannerImpl (scanning/scanner_impl.cpp) derives from the *)
(* framework's settings and the capabilities of the wiphy, the messages    *)
(* ScanUtils (scanning/scan_utils.cpp) builds of them, and its parsing of  *)
(* the scan results.  Bands, features and limits are those of NetlinkUtils *)
(* (net/netlink_utils.cpp).                                                *)
(***************************************************************************)
EXTENDS Nl80211Packet, FiniteSets, FiniteSetsExt

CONSTANTS
    SsidLimit,     \* 32: the longest SSID
    MsecPerSec,    \* 1000
    IntervalMod,   \* the number of values of a uint32_t interval
    DefaultFreqs2G,  \* kPnoScanDefaultFreqs2G
    DefaultFreqs5G   \* kPnoScanDefaultFreqs5G

ASSUME ScanAssumption ==
    /\ SsidLimit \in Nat
    /\ MsecPerSec \in Nat \ {0}
    /\ IntervalMod \in Nat \ {0}

\* enum nl80211_sched_scan_match_attr.
MATCH == [ssid |-> 1, rssi |-> 2]

\* enum nl80211_sched_scan_plan.
PLAN == [interval |-> 1, iterations |-> 2]

-----------------------------------------------------------------------------
(***************************************************************************)
(* Capabilities                                                            *)
(***************************************************************************)

BitsPerByte == 8

\* On the bytes of NL80211_ATTR_EXT_FEATURES.
IsExtFeatureFlagSet(bytes, flag) ==
    /\ flag \div BitsPerByte < Len(bytes)
    /\ (bytes[flag \div BitsPerByte + 1] \div 2^(flag % BitsPerByte)) % 2 = 1

\* The features of enum nl80211_ext_feature_index that a scan uses.
ExtFeatures == [relative_rssi |-> 12, low_span |-> 22, low_power |-> 23,
                high_accuracy |-> 24]

\* feature_flags is the set of its bits.
WiphyFeatures(feature_flags, ext_bytes) ==
    [random_mac_oneshot |-> "scan_random_mac" \in feature_flags,
     random_mac_sched |-> "sched_scan_random_mac" \in feature_flags]
    @@ [f \in DOMAIN ExtFeatures |-> IsExtFeatureFlagSet(ext_bytes, ExtFeatures[f])]

AllFreqs(bands) == UNION {bands[b] : b \in DOMAIN bands}

-----------------------------------------------------------------------------
(***************************************************************************)
(* One-shot scans                                                          *)
(***************************************************************************)

ScanTypeNames == <<"low_span", "low_power", "high_accuracy">>

\* IsScanTypeSupported.
IsScanTypeSupported(type, features) == features[ScanTypeNames[type + 1]]

\* enum nl80211_scan_flags.
FlagValue == [random_addr |-> 2^3, low_span |-> 2^8, low_power |-> 2^9,
              high_accuracy |-> 2^10, colocated_6ghz |-> 2^14]

FlagBits(flags) == FoldSet(LAMBDA f, acc : acc + FlagValue[f], 0, flags)

\* Mutant: the wild card is not counted.
ScanSsidsUncounted(settings, limit) ==
    FoldLeft(LAMBDA ssids, n :
                IF Len(ssids) > limit \/ Len(n.ssid) > SsidLimit
                THEN ssids ELSE Append(ssids, n.ssid),
             << <<>> >>, settings.hidden_networks)

\* The wild card, then the hidden networks: those beyond the capability of the
\* wiphy and those that are too long are skipped.
ScanSsids(settings, limit) ==
    FoldLeft(LAMBDA ssids, n :
                IF Len(ssids) + 1 > limit \/ Len(n.ssid) > SsidLimit
                THEN ssids ELSE Append(ssids, n.ssid),
             << <<>> >>, settings.hidden_networks)

ScanFlags(settings, features, associated) ==
    {f \in {"random_addr"} : features.random_mac_oneshot /\ ~associated}
    \cup {f \in {ScanTypeNames[settings.scan_type + 1]} : features[f]}
    \cup {f \in {"colocated_6ghz"} : settings.enable_6ghz_rnr}

\* A nested attribute with one attribute for each element, numbered from 0.
NestedList(id, attrs(_, _), seq) ==
    FoldLeft(LAMBDA acc, i : AddAttribute(acc, attrs(i - 1, seq[i])),
             NestedAttr(id), [i \in DOMAIN seq |-> i])

SsidsAttr(ssids) == NestedList(ATTR.scan_ssids, Attr, ssids)

FreqsAttr(freqs) ==
    NestedList(ATTR.scan_frequencies, LAMBDA i, f : IntAttr(i, f, IntSize), freqs)

\* An attribute that is added only under a condition.
AddIf(packet, condition, attr) ==
    IF condition THEN PacketAdd(packet, attr) ELSE packet

\* ScanUtils::Scan: without the attribute the kernel scans all frequencies.
Scan(ifindex, flags, ssids, freqs, vendor_ies) ==
    LET p0 == AddFlag(NL80211Packet("nl80211", "trigger_scan", 1), "ack")
        p1 == PacketAdd(p0, IntAttr(ATTR.ifindex, ifindex, IntSize))
        p2 == PacketAdd(p1, SsidsAttr(ssids))
        p3 == AddIf(p2, freqs # <<>>, FreqsAttr(freqs))
        p4 == AddIf(p3, flags # {}, IntAttr(ATTR.scan_flags, FlagBits(flags), IntSize))
    IN  AddIf(p4, vendor_ies # <<>>, Attr(ATTR.ie, vendor_ies))

\* ScannerImpl::scanRequest.
scanRequest(ifindex, settings, caps, features, associated) ==
    Scan(ifindex, ScanFlags(settings, features, associated),
         ScanSsids(settings, caps.max_num_scan_ssids),
         [i \in DOMAIN settings.channel_settings |->
             settings.channel_settings[i].frequency],
         settings.vendor_ies)

-----------------------------------------------------------------------------
(***************************************************************************)
(* Scheduled scans                                                         *)
(***************************************************************************)

PercentNetworksWithFreq == 30

\* Mutant: a hidden network beyond the capability is still matched.
AddPnoNetworkUnprobed(acc, n, caps, bands) ==
    LET probed == IF n.is_hidden /\ Len(acc.scan) + 1 <= caps.max_num_sched_scan_ssids
                  THEN Append(acc.scan, n.ssid) ELSE acc.scan
    IN  IF Len(acc.match) + 1 > caps.max_match_sets
        THEN [acc EXCEPT !.scan = probed]
        ELSE [scan |-> probed,
              match |-> Append(acc.match, n.ssid),
              freqs |-> acc.freqs \cup (ToSet(n.frequencies) \cap AllFreqs(bands)),
              unknown |-> acc.unknown + (IF n.frequencies = <<>> THEN 1 ELSE 0)]

\* One turn of ParsePnoSettings' loop over the networks.
AddPnoNetwork(acc, n, caps, bands) ==
    LET full == n.is_hidden /\ Len(acc.scan) + 1 > caps.max_num_sched_scan_ssids
        probed == IF n.is_hidden THEN Append(acc.scan, n.ssid) ELSE acc.scan
    IN  IF full THEN acc
        ELSE IF Len(acc.match) + 1 > caps.max_match_sets
        THEN [acc EXCEPT !.scan = probed]
        ELSE [scan |-> probed,
              match |-> Append(acc.match, n.ssid),
              freqs |-> acc.freqs \cup (ToSet(n.frequencies) \cap AllFreqs(bands)),
              unknown |-> acc.unknown + (IF n.frequencies = <<>> THEN 1 ELSE 0)]

\* Where to look for networks nothing is known of.
DefaultFreqs(bands) ==
    (DefaultFreqs2G \cap bands.band_2g) \cup (DefaultFreqs5G \cap bands.band_5g)

\* The loop, which begins with the wild card.
AddPnoNetworks(networks, caps, bands) ==
    FoldLeft(LAMBDA acc, n : AddPnoNetwork(acc, n, caps, bands),
             [scan |-> << <<>> >>, match |-> <<>>, freqs |-> {}, unknown |-> 0],
             networks)

ParsePnoSettings(settings, caps, bands) ==
    LET acc == AddPnoNetworks(settings.pno_networks, caps, bands)
        many == acc.unknown * 100 > PercentNetworksWithFreq * Len(acc.match)
    IN  [scan_ssids |-> acc.scan, match_ssids |-> acc.match,
         freqs |-> SetToSortSeq(
                      acc.freqs \cup (IF many THEN DefaultFreqs(bands) ELSE {}), <)]

\* Mutant: the capability is taken for milliseconds.
GenerateIntervalSettingMsec(settings, caps) ==
    [plans |-> IF /\ caps.max_num_scan_plans >= 2
                  /\ caps.max_scan_plan_interval * MsecPerSec * MsecPerSec >=
                        settings.interval_ms * settings.scan_interval_multiplier
                  /\ caps.max_scan_plan_iterations >= settings.scan_iterations
               THEN << <<settings.interval_ms, settings.scan_iterations>> >>
               ELSE <<>>,
     final |-> (settings.interval_ms * settings.scan_interval_multiplier) % IntervalMod]

\* The product with 1000 is one of uint32_t and may wrap, that with
\* interval_ms_, an int64_t, is not.
GenerateIntervalSetting(settings, caps) ==
    LET supported ==
            /\ caps.max_num_scan_plans >= 2
            /\ (caps.max_scan_plan_interval * MsecPerSec) % IntervalMod >=
                  settings.interval_ms * settings.scan_interval_multiplier
            /\ caps.max_scan_plan_iterations >= settings.scan_iterations
        fast == settings.interval_ms % IntervalMod
    IN  IF supported
        THEN [plans |-> << <<fast, settings.scan_iterations>> >>,
              final |-> (fast * settings.scan_interval_multiplier) % IntervalMod]
        ELSE [plans |-> <<>>, final |-> fast]

\* A plan: an interval in seconds, and, but for the last, how often.
PlanAttr(id, plan) ==
    LET interval == AddAttribute(NestedAttr(id),
                        IntAttr(PLAN.interval, plan[1] \div MsecPerSec, IntSize))
    IN  IF Len(plan) = 1 THEN interval
        ELSE AddAttribute(interval, IntAttr(PLAN.iterations, plan[2], IntSize))

PlansAttr(setting) ==
    NestedList(ATTR.sched_scan_plans, LAMBDA i, plan : PlanAttr(i + 1, plan),
               Append(setting.plans, <<setting.final>>))

\* One filter for each SSID, with the threshold of the 5 GHz band.
MatchAttr(ssids, rssi_5g) ==
    NestedList(ATTR.sched_scan_match,
               LAMBDA i, ssid : AddAttribute(
                    AddAttribute(NestedAttr(i), Attr(MATCH.ssid, ssid)),
                    IntAttr(MATCH.rssi, rssi_5g, IntSize)),
               ssids)

\* The band and how much its threshold differs, as an int8_t.
RssiAdjust(settings) ==
    Attr(ATTR.rssi_adjust, <<0, (settings.min_2g_rssi - settings.min_5g_rssi) % Base>>)

\* ScanUtils::StartScheduledScan.
StartScheduledScan(ifindex, setting, settings, flags, relative_rssi, parsed) ==
    LET p0 == AddFlag(NL80211Packet("nl80211", "start_sched_scan", 1), "ack")
        p1 == PacketAdd(p0, MatchAttr(parsed.match_ssids, settings.min_5g_rssi))
        p2 == AddIf(p1, relative_rssi, RssiAdjust(settings))
        p3 == PacketAdd(p2, IntAttr(ATTR.ifindex, ifindex, IntSize))
        p4 == PacketAdd(p3, SsidsAttr(parsed.scan_ssids))
        p5 == AddIf(p4, parsed.freqs # <<>>, FreqsAttr(parsed.freqs))
        p6 == PacketAdd(p5, IF setting.plans # <<>> THEN PlansAttr(setting)
                            ELSE IntAttr(ATTR.sched_scan_interval, setting.final, IntSize))
    IN  AddIf(p6, flags # {}, IntAttr(ATTR.scan_flags, FlagBits(flags), IntSize))

\* ScannerImpl::StartPnoScanDefault.
startPnoScan(ifindex, settings, caps, bands, features, associated) ==
    StartScheduledScan(ifindex, GenerateIntervalSetting(settings, caps), settings,
        {f \in {"random_addr"} : features.random_mac_sched /\ ~associated}
            \cup {f \in {"low_power"} : features.low_power},
        features.relative_rssi, ParsePnoSettings(settings, caps, bands))

-----------------------------------------------------------------------------
(***************************************************************************)
(* Scan results                                                            *)
(***************************************************************************)

\* enum nl80211_bss, the attributes that are read.
BSS == [bssid |-> 1, frequency |-> 2, tsf |-> 3, capability |-> 5, ies |-> 6,
        signal |-> 7, status |-> 9, beacon_tsf |-> 13, boottime |-> 15,
        chain_signal |-> 19]

\* enum nl80211_bss_status.
BSS_STATUS == [authenticated |-> 0, associated |-> 1, ibss_joined |-> 2]

ElemIdSsid == 0
NsecPerUsec == 2         \* 1000, scaled

\* Elements of a type, a length and a value; the first with the type of an SSID.
GetSSIDFromInfoElement(ie) ==
    LET at[p \in 1 .. Len(ie) + 1] ==
            IF p + 1 > Len(ie) THEN <<>>
            ELSE LET next == p + 2 + ie[p + 1]
                 IN  IF next > Len(ie) + 1 THEN <<>>
                     ELSE IF ie[p] = ElemIdSsid THEN <<SubSeq(ie, p + 2, next - 1)>>
                     ELSE at[next]
    IN  at[1]

\* The time since boot when the BSS was last seen, else its TSF.
GetBssTimestamp(bss) ==
    LET boot == GetInt(bss, BSS.boottime, IntSize)
        tsf == GetInt(bss, BSS.tsf, IntSize)
        beacon == GetInt(bss, BSS.beacon_tsf, IntSize)
    IN  IF boot # <<>> THEN <<boot[1] \div NsecPerUsec>>
        ELSE IF tsf = <<>> \/ beacon = <<>> THEN tsf
        ELSE <<IF beacon[1] > tsf[1] THEN beacon[1] ELSE tsf[1]>>

\* Radio chains are optional; a broken list of them counts as none.
ParseRadioChainInfos(bss) ==
    LET attr == GetAttribute(bss, BSS.chain_signal)
        list == IF attr = <<>> THEN <<>> ELSE GetListOfAttributes(attr[1], 1)
    IN  IF list = <<>> THEN <<>>
        ELSE [i \in DOMAIN list[1] |-> [chain_id |-> list[1][i][1],
                                        level |-> SignedOf(list[1][i][2])]]

\* NativeScanResult().
BlankResult ==
    [ssid |-> <<>>, bssid |-> <<>>, info_element |-> <<>>, frequency |-> 0,
     signal_mbm |-> 0, tsf |-> 0, capability |-> 0, associated |-> FALSE,
     radio_chain_infos |-> <<>>]

\* The fields of NL80211_ATTR_BSS, or none if one it cannot do without is missing.
ParseBss(bss) ==
    LET bssid == GetBytes(bss, BSS.bssid)
        freq == GetInt(bss, BSS.frequency, IntSize)
        ie == GetBytes(bss, BSS.ies)
        ssid == IF ie = <<>> THEN <<>> ELSE GetSSIDFromInfoElement(ie[1])
        time == GetBssTimestamp(bss)
        signal == GetInt(bss, BSS.signal, IntSize)
        capability == GetInt(bss, BSS.capability, 1)
        status == GetInt(bss, BSS.status, IntSize)
    IN  IF <<>> \in {bssid, freq, ie, ssid, time, signal, capability} THEN <<>>
        ELSE <<[ssid |-> ssid[1], bssid |-> bssid[1], info_element |-> ie[1],
                frequency |-> freq[1],
                signal_mbm |-> SignedOf(Bytes(signal[1], IntSize)),
                tsf |-> time[1], capability |-> capability[1],
                associated |-> status # <<>>
                    /\ status[1] \in {BSS_STATUS.authenticated, BSS_STATUS.associated},
                radio_chain_infos |-> ParseRadioChainInfos(bss)]>>

\* A message without NL80211_ATTR_BSS, which the kernel does not send, would
\* count as a blank result.
ParseScanResult(packet) ==
    LET bss == GetAttribute(packet.attrs, ATTR.bss)
    IN  IF packet.cmd # "new_scan_results" THEN <<>>
        ELSE IF bss = <<>> THEN <<BlankResult>>
        ELSE ParseBss(Content(bss[1]))

\* Mutant: the first message that cannot be parsed ends the list.
GetScanResultStops(ifindex, packets) ==
    LET Bad(p) == p.type # "nl80211"
                      \/ GetInt(p.attrs, ATTR.ifindex, IntSize) # <<ifindex>>
        first == SelectInSeq(packets, Bad)
    IN  FlattenSeq([i \in 1 .. (IF first = 0 THEN Len(packets) ELSE first - 1) |->
            ParseScanResult(packets[i])])

\* Errors, results of other interfaces and broken results are skipped.
GetScanResult(ifindex, packets) ==
    FlattenSeq([i \in DOMAIN packets |->
        IF /\ packets[i].type = "nl80211"
           /\ GetInt(packets[i].attrs, ATTR.ifindex, IntSize) = <<ifindex>>
        THEN ParseScanResult(packets[i]) ELSE <<>>])

=============================================================================
