------------------------------ MODULE WiphyInfo ------------------------------
(***************************************************************************)
(* What a client interface knows of its wiphy: NetlinkUtils::GetWiphyInfo  *)
(* (net/netlink_utils.cpp), which collects the messages of a split dump,   *)
(* merges their attributes (net/nl80211_attribute.cpp) and parses bands,   *)
(* limits and features, called by the constructor of ClientInterfaceImpl   *)
(* and by UpdateBandInfo after each regulatory change.                     *)
(*                                                                         *)
(* The kernel describes a wiphy in pieces: the limits, for each band its   *)
(* capabilities and then its channels one by one, the features.  A dump    *)
(* sends them in several messages, and the regulatory domain may change    *)
(* between two of them.                                                    *)
(***************************************************************************)
EXTENDS Integers, Sequences, FiniteSets, SequencesExt, FiniteSetsExt

CONSTANTS
    Frequencies,   \* frequencies of the second band's channel
    Regulations,   \* for each band, attributes it may give a channel
    Bands,         \* capabilities of the wiphy's bands
    MaxChunk,      \* pieces of a description a message can hold
    MaxCopies      \* replies a retried request may collect, see NetlinkSync

\* disabled, noIr: the flags NL80211_FREQUENCY_ATTR_DISABLED and NO_IR.
Regulation == [disabled: BOOLEAN, noIr: BOOLEAN,
               dfs: {"absent", "usable", "unavailable", "available"}]

ASSUME WiphyAssumption ==
    /\ Frequencies \subseteq Nat
    /\ DOMAIN Bands = 1..2
    /\ Regulations \in [DOMAIN Bands -> SUBSET Regulation]
    /\ MaxChunk \in Nat \ {0}
    /\ MaxCopies \in Nat \ {0}

\* The wiphy of the client, and another one of the same machine.
Wiphys == {"own", "other"}

VARIABLES
    \* kernel
    order,      \* the order in which a dump describes the wiphys
    chunk,      \* the pieces it puts into a message
    channels,   \* the own wiphy's channels, one for each band
    unread,     \* a regulatory event is not yet read
    \* the call in progress
    calling,    \* by "constructor", "update", or "nobody"
    todo,       \* descriptions and pieces still to come
    response,   \* the messages collected
    split,      \* supports_split_wiphy_dump_
    \* ClientInterfaceImpl
    bandInfo,   \* band_info_
    limits,     \* scan_capabilities_
    scanner,    \* the copy of it that ScannerImpl was constructed with
    ok,         \* the last call returned true
    born        \* the constructor's did

kernelVars == <<order, chunk, channels, unread>>
clientVars == <<bandInfo, limits, scanner, ok, born>>
vars == <<kernelVars, calling, todo, response, split, clientVars>>

-----------------------------------------------------------------------------
(***************************************************************************)
(* The kernel's descriptions.  An attribute is a sequence: of band entries *)
(* for NL80211_ATTR_WIPHY_BANDS, of values for the others; to a scalar the *)
(* code insists on the length of one value.  "limits" stands for the three *)
(* attributes ParseScanCapabilities requires, which share a message.       *)
(***************************************************************************)

NoCapabilities == [ht |-> FALSE, vht |-> <<>>, htMcs |-> <<>>, vhtMcs |-> <<>>,
                   iftypes |-> <<>>]

Entry(capa, freqs) == [capa |-> capa, freqs |-> freqs]

Limits(w) == IF w = "own" THEN 4 ELSE 9

Channel(f, r) ==
    [freq |-> f, disabled |-> r.disabled, noIr |-> r.noIr, dfs |-> r.dfs]

ChannelsOf(w) ==
    IF w = "own" THEN channels
    ELSE [i \in DOMAIN Bands |->
             Channel(5180, [disabled |-> FALSE, noIr |-> FALSE,
                            dfs |-> "absent"])]

\* A message, or a piece of one: attributes that are not there are empty.
Piece(ls, bs, fs) == [limits |-> ls, bands |-> bs, features |-> fs]

Whole(w) ==
    Piece(<<Limits(w)>>,
          [i \in DOMAIN Bands |-> Entry(Bands[i], <<ChannelsOf(w)[i]>>)],
          <<w>>)

\* The other wiphy's description fits into a message.
Pieces(w) ==
    IF w = "other" \/ ~split THEN <<Whole(w)>>
    ELSE <<Piece(<<Limits(w)>>, <<>>, <<>>)>>
         \o FlattenSeq([i \in DOMAIN Bands |->
                <<Piece(<<>>, <<Entry(Bands[i], <<>>)>>, <<>>),
                  Piece(<<>>, <<Entry(NoCapabilities, <<ChannelsOf(w)[i]>>)>>,
                        <<>>)>>])
         \o <<Piece(<<>>, <<>>, <<w>>)>>

\* BaseNL80211Attr::Merge, attribute by attribute.
Merge(p, q) ==
    Piece(p.limits \o q.limits, p.bands \o q.bands, p.features \o q.features)

Empty == Piece(<<>>, <<>>, <<>>)

-----------------------------------------------------------------------------
(***************************************************************************)
(* Parsing one band entry.  An attribute that is absent or too short is    *)
(* ignored.                                                                *)
(***************************************************************************)

HasBit(x, mask) == (x \div mask) % 2 = 1

\* The list of BandInfo that a channel goes to.
ListOf(f) ==
    IF f.disabled THEN "none" ELSE
    CASE f.freq > 2400 /\ f.freq < 2500 -> "2g"
      [] f.freq > 5000 /\ f.freq <= 5885 ->
            IF f.dfs \in {"usable", "available"} \/ f.noIr THEN "dfs" ELSE "5g"
      [] f.freq > 5925 /\ f.freq < 7125 -> "6g"
      [] f.freq >= 58320 /\ f.freq < 70200 -> "60g"
      [] OTHER -> "none"

\* Two bits for each of 8 streams; 3 means that the stream is not supported.
ParseMcsMap(map) ==
    Max({1} \cup {i \in 1..8 : (map \div 4^(i - 1)) % 4 # 3})

\* The little-endian 16-bit number at byte i (from 0) of an attribute.
U16(bytes, i) == bytes[i + 2] * 256 + bytes[i + 1]

ParseHtMcsSet(bytes) ==
    LET rx == Max({1} \cup {i \in 1..4 : bytes[i] > 0})
        supported == bytes[13]
    IN  [rx |-> rx,
         tx |-> IF HasBit(supported, 1) /\ HasBit(supported, 2)
                THEN ((supported \div 4) % 4) + 1 ELSE rx]

\* The first entry of the list of interface types, if there is one.
FirstIftype(capa) ==
    IF capa.iftypes = <<>>
    THEN [hePhy |-> <<>>, heMcs |-> <<>>, ehtPhy |-> <<>>]
    ELSE Head(capa.iftypes)

\* The numbers of streams each of the attributes claims.
HtStreams(capa) ==
    IF Len(capa.htMcs) < 16 THEN {} ELSE {ParseHtMcsSet(capa.htMcs)}

VhtStreams(capa) ==
    IF Len(capa.vhtMcs) < 8 THEN {}
    ELSE {[rx |-> ParseMcsMap(U16(capa.vhtMcs, 0)),
           tx |-> ParseMcsMap(U16(capa.vhtMcs, 4))]}

HeStreams(capa) ==
    LET bytes == FirstIftype(capa).heMcs
    IN  IF Len(bytes) < 4 THEN {}
        ELSE {[rx |-> ParseMcsMap(U16(bytes, 0)),
               tx |-> ParseMcsMap(U16(bytes, 2))]}

Streams(capa) == HtStreams(capa) \cup VhtStreams(capa) \cup HeStreams(capa)

VhtWidths(capa) ==
    IF capa.vht = <<>> THEN {}
    ELSE {x \in {<<"160", 4>>, <<"80p80", 8>>} : HasBit(capa.vht[1], x[2])}

HeWidths(capa) ==
    LET bytes == FirstIftype(capa).hePhy
    IN  IF Len(bytes) < 9 THEN {}
        ELSE {x \in {<<"160", 8>>, <<"80p80", 16>>} : HasBit(bytes[1], x[2])}

EhtWidths(capa) ==
    LET bytes == FirstIftype(capa).ehtPhy
    IN  IF Len(bytes) < 8 THEN {}
        ELSE {x \in {<<"320", 2>>} : HasBit(bytes[1], x[2])}

\* The standards and channel widths a band entry supports.
Supports(capa) ==
    (IF capa.ht THEN {"11n"} ELSE {})
    \cup (IF capa.vht # <<>> THEN {"11ac"} ELSE {})
    \cup (IF FirstIftype(capa).hePhy # <<>> THEN {"11ax"} ELSE {})
    \cup (IF FirstIftype(capa).ehtPhy # <<>> THEN {"11be"} ELSE {})
    \cup {x[1] : x \in VhtWidths(capa) \cup HeWidths(capa) \cup EhtWidths(capa)}

-----------------------------------------------------------------------------
(***************************************************************************)
(* GetWiphyInfo                                                            *)
(***************************************************************************)

Lists == {"2g", "5g", "dfs", "6g", "60g"}

\* The frequencies of the channels of a sequence that satisfy In.
Select(chans, In(_)) ==
    FoldLeft(LAMBDA freqs, f : IF In(f) THEN Append(freqs, f.freq) ELSE freqs,
             <<>>, chans)

NoBandInfo == [lists |-> [l \in Lists |-> <<>>], supports |-> {},
               rx |-> 1, tx |-> 1]

\* A band may have several entries, each with a part of it.
ParseBandInfo(entries) ==
    LET chans == FlattenSeq([i \in DOMAIN entries |-> entries[i].freqs])
        capas == {entries[i].capa : i \in DOMAIN entries}
        streams == UNION {Streams(c) : c \in capas}
    IN  [lists |-> [l \in Lists |-> Select(chans, LAMBDA f : ListOf(f) = l)],
         supports |-> UNION {Supports(c) : c \in capas},
         rx |-> Max({1} \cup {s.rx : s \in streams}),
         tx |-> Max({1} \cup {s.tx : s \in streams})]

\* Mutant: does not look at the lengths of the scalars.
ParsesAnyLength(p) == p.bands # <<>>

\* ParseWiphyInfoFromPacket returns true.
Parses(p) == p.bands # <<>> /\ Len(p.limits) = 1 /\ Len(p.features) = 1

\* The kernel's answer ends in an error message.
Refused == \E m \in Range(response) : m.wiphy = "error"

\* One packet for each wiphy of a split dump, or none at all if a message has
\* no wiphy index, as an error message has not.
MergePacketsForSplitWiphyDump(msgs) ==
    IF Refused THEN [w \in {} |-> Empty]
    ELSE [w \in {m.wiphy : m \in Range(msgs)} |->
             FoldLeft(LAMBDA p, m :
                         IF m.wiphy = w THEN Merge(p, m.attrs) ELSE p,
                      Empty, msgs)]

\* Mutant: takes the first wiphy of the reply for the one it asked for.
PacketsOfFirst ==
    LET merged == MergePacketsForSplitWiphyDump(response)
        first == response[1].wiphy
    IN  IF first \in DOMAIN merged THEN <<merged[first]>> ELSE <<>>

\* The messages that have the index of the requested wiphy.
OwnPackets ==
    FoldLeft(LAMBDA ps, m : IF m.wiphy = "own" THEN Append(ps, m.attrs) ELSE ps,
             <<>>, response)

\* Mutant: forgets to merge the messages of a split dump.
PacketsUnmerged == OwnPackets

\* The packets that describe the requested wiphy, in the order of the loop.
PacketsOfWiphy ==
    IF split
    THEN LET merged == MergePacketsForSplitWiphyDump(response)
         IN  IF "own" \in DOMAIN merged THEN <<merged["own"]>> ELSE <<>>
    ELSE OwnPackets

\* The loop ends with the first packet that parses.  One that does not may yet
\* have written band_info_, and then scan_capabilities_.
Parsed ==
    LET packets == PacketsOfWiphy
        good == {i \in DOMAIN packets : Parses(packets[i])}
        last == IF good # {} THEN Min(good) ELSE Len(packets)
        seen == {i \in 1..last : packets[i].bands # <<>>}
        limited == {i \in seen : Len(packets[i].limits) = 1}
    IN  /\ ok' = (good # {})
        /\ bandInfo' = IF seen = {} THEN bandInfo
                       ELSE ParseBandInfo(packets[Max(seen)].bands)
        /\ limits' = IF limited = {} THEN limits
                     ELSE packets[Max(limited)].limits[1]

\* The call ends, and with it the constructor, which hands the limits to the
\* new scanner, whatever they are.
Return ==
    /\ calling' = "nobody"
    /\ scanner' = IF calling = "constructor" THEN limits' ELSE scanner
    /\ born' = IF calling = "constructor" THEN ok' ELSE born
    /\ response' = <<>>
    /\ todo' = <<>>
    /\ UNCHANGED <<kernelVars, split>>

\* The reply is complete.
GetWiphyInfo ==
    /\ calling # "nobody"
    /\ response # <<>>
    /\ todo = <<>> \/ Refused
    /\ Parsed
    /\ Return

\* Neither the first request nor its repetition got a complete reply.
GetWiphyInfoFails ==
    /\ calling # "nobody"
    /\ ok' = FALSE
    /\ UNCHANGED <<bandInfo, limits>>
    /\ Return

\* A request goes out.  A retried one collects a second reply after the first.
Request(caller) ==
    /\ calling' = caller
    /\ response' = <<>>
    /\ \E copies \in 1..MaxCopies :
          todo' = FlattenSeq([i \in 1..copies |->
                     FlattenSeq([j \in DOMAIN order |->
                         [k \in DOMAIN Pieces(order[j]) |-> <<order[j], k>>]])])

\* ScanCapabilities has no initial value: what is read before it is written is
\* Undefined.
Undefined == -1

ClientInterfaceImpl ==
    /\ calling = "nobody"
    /\ scanner = 0
    /\ Request("constructor")
    /\ bandInfo' = NoBandInfo
    /\ limits' = Undefined
    /\ UNCHANGED <<kernelVars, split, scanner, ok, born>>

\* A regulatory event is read, or notifyCountryCodeChanged is called: all that
\* differs is whether an unread event is left.
UpdateBandInfo ==
    /\ calling = "nobody"
    /\ scanner # 0
    /\ Request("update")
    /\ unread' \in {unread, FALSE}
    /\ UNCHANGED <<order, chunk, channels, split, clientVars>>

\* The interface is torn down.
Destroy ==
    /\ calling = "nobody"
    /\ scanner # 0
    /\ scanner' = 0
    /\ unread' = FALSE
    /\ bandInfo' = NoBandInfo
    /\ limits' = Undefined
    /\ ok' = FALSE
    /\ born' = FALSE
    /\ UNCHANGED <<order, chunk, channels, calling, todo, response, split>>

-----------------------------------------------------------------------------
(***************************************************************************)
(* The kernel                                                              *)
(***************************************************************************)

\* The next message: as many pieces as fit, of one wiphy.
KernelReplies ==
    /\ todo # <<>>
    /\ ~Refused
    /\ LET w == Head(todo)[1]
           first == Head(todo)[2]
           n == Min({chunk, Len(Pieces(w)) - first + 1})
           pieces == SubSeq(Pieces(w), first, first + n - 1)
       IN  /\ response' = Append(response,
                 [wiphy |-> w, attrs |-> FoldLeft(Merge, Empty, pieces)])
           /\ todo' = SubSeq(todo, n + 1, Len(todo))
    /\ UNCHANGED <<kernelVars, calling, split, clientVars>>

\* It refuses the request, or the repetition of one it is still answering.
KernelRefuses ==
    /\ todo # <<>>
    /\ ~Refused
    /\ response' = Append(response, [wiphy |-> "error", attrs |-> Empty])
    /\ UNCHANGED <<kernelVars, calling, todo, split, clientVars>>

\* The regulatory domain changes, and an event says so, which concerns nobody
\* if there is no client.  One unread event is enough, since reading one
\* refreshes everything.
RegChange ==
    /\ ~unread
    /\ \E i \in DOMAIN channels : \E r \in Regulations[i] :
          channels' = [channels EXCEPT ![i] = Channel(@.freq, r)]
    /\ unread' = (calling # "nobody" \/ scanner # 0)
    /\ UNCHANGED <<order, chunk, calling, todo, response, split, clientVars>>

Init ==
    /\ split \in BOOLEAN
    /\ order \in IF split THEN {<<"own", "other">>, <<"other", "own">>}
                           ELSE {<<"own">>}
    /\ chunk \in IF split THEN 1..MaxChunk ELSE {1}
    /\ \E f \in Frequencies, q \in Regulations[1], r \in Regulations[2] :
          channels = <<Channel(2412, q), Channel(f, r)>>
    /\ unread = FALSE
    /\ calling = "nobody"
    /\ todo = <<>>
    /\ response = <<>>
    /\ bandInfo = NoBandInfo
    /\ limits = Undefined
    /\ scanner = 0
    /\ ok = FALSE
    /\ born = FALSE

Next ==
    \/ ClientInterfaceImpl \/ UpdateBandInfo \/ Destroy
    \/ GetWiphyInfo \/ GetWiphyInfoFails
    \/ KernelReplies \/ KernelRefuses \/ RegChange

Spec == Init /\ [][Next]_vars

-----------------------------------------------------------------------------
(***************************************************************************)
(* Properties                                                              *)
(***************************************************************************)

TypeOK ==
    /\ order \in Seq(Wiphys)
    /\ chunk \in 1..MaxChunk
    /\ channels \in Seq([freq: Frequencies \cup {2412}, disabled: BOOLEAN,
                         noIr: BOOLEAN, dfs: {"absent", "usable", "unavailable",
                                              "available"}])
    /\ unread \in BOOLEAN
    /\ calling \in {"constructor", "update", "nobody"}
    /\ todo \in Seq(Wiphys \X Nat)
    /\ \A m \in Range(response) :
          m.wiphy \in Wiphys \cup {"error"} /\ m.attrs.limits \in Seq({4, 9})
    /\ split \in BOOLEAN
    /\ \A l \in Lists : bandInfo.lists[l] \in Seq(Frequencies \cup {2412})
    /\ bandInfo.rx \in 1..8 /\ bandInfo.tx \in 1..8
    /\ limits \in {Undefined, Limits("own")}
    /\ scanner \in {0, Undefined, Limits("own")}
    /\ ok \in BOOLEAN
    /\ born \in BOOLEAN

\* IEEE 802.11: the frequencies of the channels of each band, by their numbers.
Channel2g(freq) == freq = 2484 \/ \E c \in 1..13 : freq = 2407 + 5 * c
Channel5g(freq) == \E c \in 1..177 : freq = 5000 + 5 * c
Channel6g(freq) == freq = 5935 \/ \E c \in 1..233 : freq = 5950 + 5 * c
Channel60g(freq) == \E c \in 1..6 : freq = 56160 + 2160 * c

IsChannel(freq) ==
    Channel2g(freq) \/ Channel5g(freq) \/ Channel6g(freq) \/ Channel60g(freq)

\* What a wiphy lists are channels.
ASSUME FrequencyAssumption == \A freq \in Frequencies : IsChannel(freq)

\* The channels of each list.  A 5 GHz channel on which a station may not
\* transmit first counts as a DFS channel.
InList(f, l) ==
    LET passive == f.noIr \/ f.dfs \in {"usable", "available"}
    IN  /\ ~f.disabled
        /\ \/ l = "2g" /\ Channel2g(f.freq)
           \/ l = "5g" /\ Channel5g(f.freq) /\ ~passive
           \/ l = "dfs" /\ Channel5g(f.freq) /\ passive
           \/ l = "6g" /\ Channel6g(f.freq)
           \/ l = "60g" /\ Channel60g(f.freq)

\* Once every regulatory event is read, and unless the last GetWiphyInfo failed,
\* the client has each enabled channel of its wiphy once, in the list of its
\* band, and the capabilities of all bands: however the kernel cut its
\* description into messages, changed it meanwhile, mixed it with another
\* wiphy's or sent it twice.
BandInfoFresh ==
    calling = "nobody" /\ scanner # 0 /\ ok /\ ~unread =>
        bandInfo =
            [ParseBandInfo(Whole("own").bands) EXCEPT !.lists =
                [l \in Lists |-> Select(channels, LAMBDA f : InList(f, l))]]

\* The limits a scanner cuts its requests to are its own wiphy's if the call in
\* the constructor succeeded, and no failing update spoils the client's.
LimitsOwn ==
    /\ limits \in {Undefined, Limits("own")}
    /\ born => scanner = Limits("own") /\ limits = Limits("own")

\* A complete reply to a request that was not refused or repeated is accepted,
\* though no message of it can be parsed by itself.
CompleteAccepted ==
    [][/\ GetWiphyInfo
       /\ Cardinality({i \in DOMAIN response :
             response[i].wiphy = "own" /\ response[i].attrs.limits # <<>>}) = 1
       /\ ~Refused
       => ok']_vars

=============================================================================
