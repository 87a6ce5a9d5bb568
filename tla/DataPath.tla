------------------------------ MODULE DataPath ------------------------------
(***************************************************************************)
(* The way of data through wificond, in both directions: the settings of a *)
(* scan from the framework's parcel to the kernel's message, scan results  *)
(* and the description of a wiphy from the kernel's messages to the        *)
(* framework's parcel.  Each behaviour follows one call.                   *)
(***************************************************************************)
EXTENDS Parcels, ScanMessages, InterfaceMessages

CONSTANTS
    ScanInputs,   \* settings of one-shot scans
    PnoInputs,    \* settings of scheduled scans
    Wiphys,       \* features, limits and bands of a wiphy
    Dumps,        \* answers of the kernel to GET_SCAN, see BssPacket
    Parts,        \* pieces of a split attribute: bytes
    Lookups,      \* names with the answers to GET_WIPHY and GET_INTERFACE
    Capabilities  \* objects of class DeviceWiphyCapabilities

NoneYet == <<>>

VARIABLES
    stage,    \* where the call is
    input,    \* what was asked, or what the kernel knows
    wiphy,    \* the wiphy's description
    assoc,    \* the station is associated
    parcel,   \* the parcel under way, cut by a framework of another version
    output    \* what arrives: a message, or a reader of the parcel

vars == <<stage, input, wiphy, assoc, parcel, output>>

Stages == {"idle", "scan_call", "scan_done", "pno_call", "pno_done",
           "results_dump", "results_sent", "results_done",
           "caps_sent", "caps_done", "parts", "merged", "asked", "set_up"}

TypeOK ==
    /\ stage \in Stages
    /\ assoc \in BOOLEAN
    /\ parcel \in Seq(Int)
    /\ stage \in {"scan_done", "pno_done"} /\ output # NoneYet =>
          /\ output[1].flags = {"request", "ack"}
          /\ output[1].attrs \in Seq(Nat)

Init ==
    /\ stage = "idle"
    /\ input = NoneYet
    /\ wiphy \in Wiphys
    /\ assoc \in BOOLEAN
    /\ parcel = <<>>
    /\ output = NoneYet

Ifindex == 3

Features == WiphyFeatures(wiphy.feature_flags, wiphy.ext_features)

\* The framework calls with the first n words of the parcel of an object.
Calls(next, class, object) ==
    /\ stage = "idle"
    /\ stage' = next
    /\ input' = object
    /\ \E n \in 0 .. Len(writeToParcel(class, object)) :
          parcel' = SubSeq(writeToParcel(class, object), 1, n)
    /\ UNCHANGED <<wiphy, assoc, output>>

FrameworkScans == \E s \in ScanInputs : Calls("scan_call", SingleScanSettings, s)

FrameworkStartsPno == \E s \in PnoInputs : Calls("pno_call", PnoSettings, s)

\* The call is made only if all of the parcel could be read.
HandleScan ==
    /\ stage = "scan_call"
    /\ stage' = "scan_done"
    /\ LET r == readFromParcel(SingleScanSettings, parcel)
       IN  output' = IF r.ok
                     THEN <<scanRequest(Ifindex, r.object, wiphy.caps, Features, assoc)>>
                     ELSE NoneYet
    /\ UNCHANGED <<input, wiphy, assoc, parcel>>

HandlePno ==
    /\ stage = "pno_call"
    /\ stage' = "pno_done"
    /\ LET r == readFromParcel(PnoSettings, parcel)
       IN  output' = IF r.ok
                     THEN <<startPnoScan(Ifindex, r.object, wiphy.caps, wiphy.bands,
                                         Features, assoc)>>
                     ELSE NoneYet
    /\ UNCHANGED <<input, wiphy, assoc, parcel>>

-----------------------------------------------------------------------------
(***************************************************************************)
(* The kernel's description of a BSS: what it leaves out is <<>>.  The     *)
(* information elements are a sequence of pairs, a type and a value, and   *)
(* what is left of an element that was cut off; the radio chains are pairs *)
(* of a number and a level.                                                *)
(***************************************************************************)

ElementBytes(e) == <<e[1], Len(e[2])>> \o e[2]

IeBytes(d) == FlattenSeq([i \in DOMAIN d.elements |-> ElementBytes(d.elements[i])])
                  \o d.rest

Optional(nested, id, values) ==
    IF values = <<>> THEN nested
    ELSE AddAttribute(nested, IntAttr(id, values[1], IntSize))

BssAttr(d) ==
    LET b1 == AddAttribute(NestedAttr(ATTR.bss), Attr(BSS.bssid, d.bssid))
        b2 == Optional(b1, BSS.tsf, d.tsf)
        b3 == AddAttribute(b2, Attr(BSS.ies, IeBytes(d)))
        b4 == Optional(b3, BSS.beacon_tsf, d.beacon)
        b5 == AddAttribute(b4, IntAttr(BSS.capability, d.capability, 1))
        b6 == AddAttribute(b5, IntAttr(BSS.frequency, d.freq, IntSize))
        b7 == Optional(b6, BSS.boottime, d.boot)
        b8 == Optional(b7, BSS.signal, d.signal)
        b9 == Optional(b8, BSS.status, d.status)
    IN  IF d.chains = <<>> THEN b9
        ELSE AddAttribute(b9, NestedList(BSS.chain_signal,
                                         LAMBDA i, c : IntAttr(c[1], c[2], 1), d.chains))

BssPacket(d) ==
    PacketAdd(PacketAdd(NL80211Packet(d.type, d.cmd, 1),
                        IntAttr(ATTR.ifindex, d.ifindex, IntSize)), BssAttr(d))

KernelPackets(dump) == [i \in DOMAIN dump |-> BssPacket(dump[i])]

KernelDumps ==
    /\ stage = "idle"
    /\ stage' = "results_dump"
    /\ input' \in Dumps
    /\ output' = KernelPackets(input')
    /\ UNCHANGED <<wiphy, assoc, parcel>>

\* The reply of a binder call is a list of parcelables.
ResultList == <<TypedList("results", NativeScanResult)>>

ResultWords(packets) ==
    writeToParcel(ResultList, [results |-> GetScanResult(Ifindex, packets)])

getScanResults ==
    /\ stage = "results_dump"
    /\ stage' = "results_sent"
    /\ LET words == ResultWords(output)
       IN  \E n \in 0 .. Len(words) : parcel' = SubSeq(words, 1, n)
    /\ output' = NoneYet
    /\ UNCHANGED <<input, wiphy, assoc>>

FrameworkReadsResults ==
    /\ stage = "results_sent"
    /\ stage' = "results_done"
    /\ output' = readFromParcel(ResultList, parcel)
    /\ UNCHANGED <<input, wiphy, assoc, parcel>>

-----------------------------------------------------------------------------
\* Server::getDeviceWiphyCapabilities copies the fields of BandInfo.
getDeviceWiphyCapabilities ==
    /\ \E c \in Capabilities : Calls("caps_sent", DeviceWiphyCapabilities, c)

FrameworkReadsCapabilities ==
    /\ stage = "caps_sent"
    /\ stage' = "caps_done"
    /\ output' = readFromParcel(DeviceWiphyCapabilities, parcel)
    /\ UNCHANGED <<input, wiphy, assoc, parcel>>

-----------------------------------------------------------------------------
(***************************************************************************)
(* A split dump: messages of two wiphys, each with a piece of an attribute *)
(* of bytes and of a list of channels, one for each of these bytes; those  *)
(* with an odd number are disabled.  A message may also have no more than  *)
(* the indexes.                                                            *)
(***************************************************************************)
OtherWiphy == 1
OwnWiphy == 2

ChannelAttr(i, b) ==
    LET freq == AddAttribute(NestedAttr(i), IntAttr(FREQUENCY.freq, b, IntSize))
    IN  IF b % 2 = 1 THEN AddFlagAttribute(freq, FREQUENCY.disabled) ELSE freq

PiecePacket(piece) ==
    LET p0 == NL80211Packet("nl80211", "new_wiphy", 1)
        p1 == PacketAdd(p0, IntAttr(ATTR.wiphy, piece[1], IntSize))
        p2 == PacketAdd(p1, IntAttr(ATTR.ifindex, Ifindex, IntSize))
        p3 == PacketAdd(p2, Attr(ATTR.ext_features, piece[2]))
    IN  IF Len(piece) = 1 THEN p2
        ELSE PacketAdd(p3, NestedList(ATTR.bands, ChannelAttr, piece[2]))

Pieces == ({OtherWiphy, OwnWiphy} \X Parts) \cup {<<OtherWiphy>>, <<OwnWiphy>>}

KernelSplits ==
    /\ stage = "idle"
    /\ stage' = "parts"
    /\ \E s \in BoundedSeq(Pieces, 3) \ {<<>>} : input' = s
    /\ UNCHANGED <<wiphy, assoc, parcel, output>>

MergePieces ==
    /\ stage = "parts"
    /\ stage' = "merged"
    /\ output' = MergePacketsForSplitWiphyDump(
                     [i \in DOMAIN input |-> PiecePacket(input[i])])
    /\ UNCHANGED <<input, wiphy, assoc, parcel>>

-----------------------------------------------------------------------------
(***************************************************************************)
(* An interface is looked up by its name.  The kernel's description of a   *)
(* device lacks the index and the name if it has no network device.        *)
(***************************************************************************)
AddKnown(packet, values, attr(_)) ==
    IF values = <<>> THEN packet ELSE PacketAdd(packet, attr(values[1]))

DevicePacket(d) ==
    LET p0 == NL80211Packet(d.type, d.cmd, 1)
        p1 == AddKnown(p0, d.index, LAMBDA v : IntAttr(ATTR.ifindex, v, IntSize))
        p2 == AddKnown(p1, d.name, LAMBDA v : StringAttr(ATTR.ifname, v))
        p3 == AddKnown(p2, d.wiphy, LAMBDA v : IntAttr(ATTR.wiphy, v, IntSize))
    IN  AddKnown(p3, d.mac, LAMBDA v : Attr(ATTR.mac, v))

KernelAnswers ==
    /\ stage = "idle"
    /\ stage' = "asked"
    /\ input' \in Lookups
    /\ UNCHANGED <<wiphy, assoc, parcel, output>>

LookUp ==
    /\ stage = "asked"
    /\ stage' = "set_up"
    /\ output' = SetupInterface(input.name,
                     [i \in DOMAIN input.wiphys |-> DevicePacket(input.wiphys[i])],
                     [i \in DOMAIN input.devices |-> DevicePacket(input.devices[i])])
    /\ UNCHANGED <<input, wiphy, assoc, parcel>>

Next ==
    \/ FrameworkScans \/ HandleScan
    \/ FrameworkStartsPno \/ HandlePno
    \/ KernelDumps \/ getScanResults \/ FrameworkReadsResults
    \/ getDeviceWiphyCapabilities \/ FrameworkReadsCapabilities
    \/ KernelSplits \/ MergePieces
    \/ KernelAnswers \/ LookUp

Spec == Init /\ [][Next]_vars

-----------------------------------------------------------------------------
(***************************************************************************)
(* Properties                                                              *)
(***************************************************************************)

Listed(list) == IF list = NullList THEN <<>> ELSE list

Whole(class) == parcel = writeToParcel(class, input)

\* What the kernel reads of a request.
Attributes(packet) ==
    LET values(id) == LET a == GetAttribute(packet.attrs, id)
                      IN  IF a = <<>> THEN <<>>
                          ELSE LET l == GetListOfNestedAttributes(a[1])[1]
                               IN  [i \in DOMAIN l |-> Payload(l[i])]
        int(id) == LET v == GetInt(packet.attrs, id, IntSize)
                   IN  IF v = <<>> THEN 0 ELSE v[1]
    IN  [ssids |-> values(ATTR.scan_ssids),
         freqs |-> LET f == GetAttribute(packet.attrs, ATTR.scan_frequencies)
                   IN  IF f = <<>> THEN {}
                       ELSE ToSet(GetListOfAttributeValues(f[1], IntSize)[1]),
         flags |-> {f \in DOMAIN FlagValue : (int(ATTR.scan_flags) \div FlagValue[f]) % 2 = 1},
         ifindex |-> int(ATTR.ifindex),
         ies |-> GetBytes(packet.attrs, ATTR.ie),
         match |-> values(ATTR.sched_scan_match)]

\* A parcel from which words are missing at the end is refused, whatever its
\* class: no call is made with half of its arguments, no half list of results is
\* taken for whole.  The reads of capability and associated go on when there is
\* no word left, but the count of radio_chain_infos after them does not.
CutParcelRefused ==
    /\ stage = "scan_done" /\ ~Whole(SingleScanSettings) => output = NoneYet
    /\ stage = "pno_done" /\ ~Whole(PnoSettings) => output = NoneYet
    /\ stage = "results_done" /\ parcel # ResultWords(KernelPackets(input)) => ~output.ok
    /\ stage = "caps_done" /\ ~Whole(DeviceWiphyCapabilities) => ~output.ok

\* A one-shot scan reaches the kernel as the framework asked for it: the
\* channels, the wild card and the first hidden networks that are not too long,
\* as many as the wiphy takes, a type of scan the wiphy has, and the vendor's
\* elements if their length fits an attribute.
ScanAsAsked ==
    stage = "scan_done" /\ Whole(SingleScanSettings)
            /\ isValidScanType(input.scan_type) =>
        LET a == Attributes(output[1])
            hidden == SelectSeq(Listed(input.hidden_networks),
                                LAMBDA n : Len(n.ssid) <= SsidLimit)
            room == Max({wiphy.caps.max_num_scan_ssids - 1, 0})
            type == ScanTypeNames[input.scan_type + 1]
        IN  /\ a.ifindex = Ifindex
            /\ a.ssids = << <<>> >> \o [i \in 1 .. Min({room, Len(hidden)}) |->
                                          hidden[i].ssid]
            /\ a.freqs = {c.frequency : c \in ToSet(Listed(input.channel_settings))}
            /\ a.flags \cap {"low_span", "low_power", "high_accuracy"} =
                   IF type \in wiphy.supports THEN {type} ELSE {}
            /\ "random_addr" \in a.flags <=>
                   ~assoc /\ "scan_random_mac" \in wiphy.feature_flags
            /\ ("colocated_6ghz" \in a.flags) = input.enable_6ghz_rnr
            /\ Len(input.vendor_ies) + NLA_HDRLEN < LenMod =>
                   a.ies = IF input.vendor_ies = <<>> THEN <<>>
                           ELSE <<input.vendor_ies>>

\* A scheduled scan keeps within the wiphy's limits and looks for what it is
\* to match: a hidden network is matched only if it is also probed for, and
\* every usable frequency of a matched network is scanned.
PnoLooksWhereItMatches ==
    stage = "pno_done" /\ output # NoneYet =>
        LET a == Attributes(output[1])
            freqs == IF a.freqs = {} THEN AllFreqs(wiphy.bands) ELSE a.freqs
            matched == {GetBytes(m, MATCH.ssid)[1] : m \in ToSet(a.match)}
        IN  /\ Len(a.match) <= wiphy.caps.max_match_sets
            /\ Len(a.ssids) <= Max({wiphy.caps.max_num_sched_scan_ssids, 1})
            /\ freqs \subseteq AllFreqs(wiphy.bands)
            /\ \A n \in ToSet(Listed(input.pno_networks)) :
                  n.ssid \in matched =>
                     /\ n.is_hidden => n.ssid \in ToSet(a.ssids)
                     /\ ToSet(n.frequencies) \cap AllFreqs(wiphy.bands) \subseteq freqs

\* Plans are passed on only to a wiphy that takes two, and never more iterations
\* than it takes.  If the interval is not negative and the multiplier not 0,
\* their intervals are the framework's and within the wiphy's limit, though that
\* limit in milliseconds may wrap; with another setting the comparison of
\* GenerateIntervalSetting says nothing of the intervals.  Plans that the wiphy
\* takes are used unless the limit wraps; otherwise the interval is passed on.
PlansSupported ==
    stage = "pno_done" /\ output # NoneYet =>
        LET plans == GetAttribute(output[1].attrs, ATTR.sched_scan_plans)
            list == GetListOfNestedAttributes(plans[1])[1]
            interval(i) == GetInt(Content(list[i]), PLAN.interval, IntSize)[1]
            limit == wiphy.caps.max_scan_plan_interval
            slow == input.interval_ms * input.scan_interval_multiplier
        IN  IF plans # <<>>
            THEN /\ wiphy.caps.max_num_scan_plans >= Len(list)
                 /\ GetInt(Content(list[1]), PLAN.iterations, IntSize) = <<input.scan_iterations>>
                 /\ input.scan_iterations <= wiphy.caps.max_scan_plan_iterations
                 /\ input.interval_ms >= 0 /\ input.scan_interval_multiplier > 0 =>
                        /\ \A i \in DOMAIN list : interval(i) <= limit
                        /\ interval(1) = input.interval_ms \div MsecPerSec
                        /\ interval(2) = slow \div MsecPerSec
            ELSE /\ \/ wiphy.caps.max_num_scan_plans < 2
                    \/ input.scan_iterations > wiphy.caps.max_scan_plan_iterations
                    \/ slow > limit * MsecPerSec
                    \/ limit * MsecPerSec >= IntervalMod
                 /\ GetInt(output[1].attrs, ATTR.sched_scan_interval, IntSize) =
                        <<input.interval_ms % IntervalMod>>

\* What a result of a BSS is to say.
Ssid(d) ==
    LET at == SelectInSeq(d.elements, LAMBDA e : e[1] = ElemIdSsid)
    IN  IF at = 0 THEN <<>> ELSE <<d.elements[at][2]>>

SeenAt(d) ==
    IF d.boot # <<>> THEN <<d.boot[1] \div NsecPerUsec>>
    ELSE IF d.tsf = <<>> THEN <<>>
    ELSE <<Max(ToSet(d.tsf \o d.beacon))>>

Reported(d) ==
    /\ d.type = "nl80211"
    /\ d.cmd = "new_scan_results"
    /\ d.ifindex = Ifindex
    /\ Ssid(d) # <<>>
    /\ SeenAt(d) # <<>>
    /\ d.signal # <<>>

Describes(r, d) ==
    /\ r.ssid = Ssid(d)[1]
    /\ r.bssid = d.bssid
    /\ r.info_element = IeBytes(d)
    /\ r.frequency = d.freq
    /\ r.tsf = SeenAt(d)[1]
    /\ r.signal_mbm % Base^IntSize = d.signal[1]
    /\ r.capability = d.capability
    /\ r.associated = (d.status \in {<<0>>, <<1>>})
    /\ [i \in DOMAIN r.radio_chain_infos |->
           <<r.radio_chain_infos[i].chain_id, r.radio_chain_infos[i].level % Base>>]
           = d.chains

\* The framework receives the BSSs of its interface that can be described,
\* each once, in the kernel's order and with the values the kernel reported,
\* whatever errors, other interfaces' or broken results lie between them.
ResultsExact ==
    stage = "results_done" /\ output.ok =>
        LET known == SelectSeq(input, Reported)
        IN  /\ Len(output.object.results) = Len(known)
            /\ \A i \in DOMAIN known : Describes(output.object.results[i], known[i])

\* Merging the messages of a split dump gives one message for each wiphy of
\* which a message says more than the indexes, with the attributes of the whole:
\* the bytes of the pieces one after the other (netlink_utils.cpp: "The generated
\* NL80211_CMD_NEW_WIPHY will have attribute A with payload 0x12345678"), and all
\* entries of the lists, whatever messages of other wiphys come in between.  The
\* list's usable channels are then those that no piece of it marks as disabled.
MergeJoins ==
    stage = "merged" =>
        /\ {IntOf(GetBytes(output[i].attrs, ATTR.wiphy)[1]) : i \in DOMAIN output}
               = {p[1] : p \in {q \in ToSet(input) : Len(q) = 2}}
        /\ \A i \in DOMAIN output :
              LET w == GetInt(output[i].attrs, ATTR.wiphy, IntSize)[1]
                  own == SelectSeq(input, LAMBDA p : p[1] = w /\ Len(p) = 2)
                  whole == FlattenSeq([k \in DOMAIN own |-> own[k][2]])
                  list == GetAttribute(output[i].attrs, ATTR.bands)
              IN  /\ GetBytes(output[i].attrs, ATTR.ext_features) = <<whole>>
                  /\ list # <<>>
                  /\ Len(GetListOfNestedAttributes(list[1])[1]) = Len(whole)
                  /\ UsableFreqs(list[1]) = SelectSeq(whole, LAMBDA b : b % 2 = 0)
                  /\ ~HasAttribute(output[i].attrs, ATTR.ifindex)

\* An interface is set up exactly if the kernel answered both questions without
\* an error and one of the devices it named has the name, whatever pseudo
\* interfaces, and names that are the beginning of others, lie before it; the
\* interface has the index and the address the kernel gave with that name.
InterfaceFound ==
    stage = "set_up" =>
        LET good(reply, cmd) ==
                reply # <<>>
                /\ \A d \in ToSet(reply) : d.type = "nl80211" /\ d.cmd = cmd
            named == SelectSeq(input.devices, LAMBDA d :
                        d.name = <<input.name>> /\ d.index # <<>> /\ d.mac # <<>>)
        IN  IF /\ good(input.wiphys, "new_wiphy")
               /\ \A d \in ToSet(input.wiphys) : d.wiphy # <<>>
               /\ good(input.devices, "new_interface")
               /\ named # <<>>
            THEN output = <<[index |-> named[1].index[1],
                             wiphy_index |-> input.wiphys[Len(input.wiphys)].wiphy[1],
                             name |-> input.name,
                             mac_address |-> named[1].mac[1]]>>
            ELSE output = <<>>

=============================================================================
