------------------------------ MODULE Parcels ------------------------------
(***************************************************************************)
(* The parcelables that the framework and wificond exchange: their         *)
(* writeToParcel and readFromParcel.                                       *)
(*                                                                         *)
(* Each class is given by the sequence of its fields, in the order both    *)
(* functions handle them.  A parcel is a sequence of words.  The framework *)
(* is written in Java; it may be of another version, and then leaves off   *)
(* the last fields, or passes a null list.                                 *)
(***************************************************************************)
EXTENDS Integers, Sequences, SequencesExt, TLC

CONSTANTS
    NullList,  \* what Java code may have in place of a list
    ETH_ALEN,  \* the length of a MAC address
    Word       \* the number of values of a word

Field(name, kind) == [name |-> name, kind |-> kind, of |-> <<>>]

TypedList(name, class) == [name |-> name, kind |-> "list", of |-> class]

ChannelSettings == <<Field("frequency", "int32")>>

HiddenNetwork == <<Field("ssid", "bytes")>>

PnoNetwork ==
    <<Field("is_hidden", "flag"), Field("ssid", "bytes"),
      Field("frequencies", "bytes")>>

RadioChainInfo == <<Field("chain_id", "int32"), Field("level", "int32")>>

SingleScanSettings ==
    <<Field("scan_type", "scan_type"), Field("enable_6ghz_rnr", "flag"),
      TypedList("channel_settings", ChannelSettings),
      TypedList("hidden_networks", HiddenNetwork),
      Field("vendor_ies", "bytes")>>

PnoSettings ==
    <<Field("interval_ms", "int64"), Field("min_2g_rssi", "int32"),
      Field("min_5g_rssi", "int32"), Field("min_6g_rssi", "int32"),
      Field("scan_iterations", "int32"),
      Field("scan_interval_multiplier", "int32"),
      TypedList("pno_networks", PnoNetwork)>>

\* capability and associated are read by functions that return 0 on failure.
NativeScanResult ==
    <<Field("ssid", "bytes"), Field("bssid", "mac"),
      Field("info_element", "bytes"), Field("frequency", "int32"),
      Field("signal_mbm", "int32"), Field("tsf", "int64"),
      Field("capability", "unchecked"), Field("associated", "unchecked_flag"),
      TypedList("radio_chain_infos", RadioChainInfo)>>

DeviceWiphyCapabilities ==
    <<Field("is80211nSupported", "flag"), Field("is80211acSupported", "flag"),
      Field("is80211axSupported", "flag"), Field("is80211beSupported", "flag"),
      Field("is160MhzSupported", "flag"), Field("is80p80MhzSupported", "flag"),
      Field("is320MhzSupported", "flag"), Field("maxTxStreams", "int32"),
      Field("maxRxStreams", "int32")>>

NativeWifiClient == <<Field("mac_address", "bytes")>>

\* SCAN_TYPE_LOW_SPAN, _LOW_POWER and _HIGH_ACCURACY, and not _DEFAULT.
isValidScanType(t) == t \in {0, 1, 2}

-----------------------------------------------------------------------------
RECURSIVE writeToParcel(_, _)

\* An element of a list is preceded by the number 1; null and empty lists are
\* preceded by their lengths, -1 and 0, alone.
Words(field, v) ==
    CASE field.kind \in {"int32", "scan_type", "unchecked"} -> <<v>>
      [] field.kind = "int64" -> <<v \div Word, v % Word>>
      [] field.kind \in {"flag", "unchecked_flag"} -> <<IF v THEN 1 ELSE 0>>
      [] field.kind \in {"bytes", "mac"} -> <<Len(v)>> \o v
      [] field.kind = "list" ->
            IF v = NullList THEN <<-1>>
            ELSE <<Len(v)>> \o FlattenSeq(
                    [i \in DOMAIN v |-> <<1>> \o writeToParcel(field.of, v[i])])

writeToParcel(class, object) ==
    FlattenSeq([i \in DOMAIN class |-> Words(class[i], object[class[i].name])])

-----------------------------------------------------------------------------
RECURSIVE ReadObject(_, _, _)

\* A reader: what is read so far of the object, how many words were used, and
\* whether every step succeeded; a step that fails ends the reading.
Reader(at) == [object |-> <<>>, at |-> at, ok |-> TRUE]

Failed(r) == [r EXCEPT !.ok = FALSE]

Got(r, name, value, words) ==
    [r EXCEPT !.object = (name :> value) @@ @, !.at = @ + words]

ReadVector(parcel, r, name, lengths) ==
    IF r.at < Len(parcel) /\ parcel[r.at + 1] \in lengths
    THEN LET n == parcel[r.at + 1]
         IN  IF r.at + 1 + n <= Len(parcel)
             THEN Got(r, name, SubSeq(parcel, r.at + 2, r.at + 1 + n), n + 1)
             ELSE Failed(r)
    ELSE Failed(r)

\* A leading number that is not 1 is an error.
ReadElement(parcel, class, r) ==
    IF r.at = Len(parcel) \/ parcel[r.at + 1] # 1 THEN Failed(r)
    ELSE LET e == ReadObject(parcel, class, Reader(r.at + 1))
         IN  [object |-> Append(r.object, e.object), at |-> e.at, ok |-> e.ok]

\* Mutant: the count of radio_chain_infos is read like the fields before it, by
\* a function that returns 0 on failure.
ReadListUnchecked(parcel, r, field) ==
    IF r.at = Len(parcel)
    THEN IF field.of = RadioChainInfo THEN Got(r, field.name, <<>>, 0) ELSE Failed(r)
    ELSE LET all == FoldLeft(
                        LAMBDA s, i : IF s.ok THEN ReadElement(parcel, field.of, s)
                                      ELSE s,
                        Reader(r.at + 1),
                        [i \in 1..parcel[r.at + 1] |-> i])
         IN  [object |-> (field.name :> all.object) @@ r.object,
              at |-> all.at, ok |-> all.ok]

ReadList(parcel, r, field) ==
    IF r.at = Len(parcel) THEN Failed(r)
    ELSE LET all == FoldLeft(
                        LAMBDA s, i : IF s.ok THEN ReadElement(parcel, field.of, s)
                                      ELSE s,
                        Reader(r.at + 1),
                        [i \in 1..parcel[r.at + 1] |-> i])
         IN  [object |-> (field.name :> all.object) @@ r.object,
              at |-> all.at, ok |-> all.ok]

ReadField(parcel, r, field) ==
    LET more == r.at < Len(parcel)
        word == parcel[r.at + 1]
    IN  IF ~r.ok THEN r ELSE
        CASE field.kind = "list" -> ReadList(parcel, r, field)
          [] field.kind = "bytes" -> ReadVector(parcel, r, field.name, Nat)
          [] field.kind = "mac" -> ReadVector(parcel, r, field.name, {ETH_ALEN})
          [] field.kind = "int64" ->
                IF r.at + 2 <= Len(parcel)
                THEN Got(r, field.name, word * Word + parcel[r.at + 2], 2)
                ELSE Failed(r)
          [] field.kind = "unchecked" ->
                IF more THEN Got(r, field.name, word, 1)
                ELSE Got(r, field.name, 0, 0)
          [] field.kind = "unchecked_flag" ->
                IF more THEN Got(r, field.name, word # 0, 1)
                ELSE Got(r, field.name, FALSE, 0)
          [] OTHER ->
                IF ~more \/ (field.kind = "scan_type" /\ ~isValidScanType(word))
                THEN Failed(r)
                ELSE Got(r, field.name,
                         IF field.kind = "flag" THEN word # 0 ELSE word, 1)

ReadObject(parcel, class, r) ==
    FoldLeft(LAMBDA s, f : ReadField(parcel, s, f), r, class)

readFromParcel(class, parcel) == ReadObject(parcel, class, Reader(0))

=============================================================================
