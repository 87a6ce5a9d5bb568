--------------------------- MODULE Nl80211Packet ---------------------------
(***************************************************************************)
(* The byte layout of netlink messages: NL80211Packet                      *)
(* (net/nl80211_packet.cpp) and the attributes it carries                  *)
(* (net/nl80211_attribute.cpp, .h).                                        *)
(*                                                                         *)
(* An attribute is a sequence of bytes: a header with its id and its       *)
(* length, the payload, and zeros up to the next aligned place.  The model *)
(* keeps the layout and scales it: header and alignment are two bytes, one *)
(* for the id and one for the length, and a byte counts to Base.  A lookup *)
(* returns a sequence: of the attribute found, or empty.                   *)
(***************************************************************************)
EXTENDS Integers, Sequences, SequencesExt

CONSTANTS
    Base,    \* the number of values of a byte
    LenMod   \* nla_len is a uint16_t: lengths are kept modulo LenMod

ASSUME PacketAssumption ==
    /\ Base \in Nat \ {0, 1}
    /\ LenMod \in Nat \ {0, 1}
    /\ LenMod % 2 = 0

NLA_HDRLEN == 2

NLA_ALIGN(n) == n + (n % 2)

Zeros(n) == [i \in 1..n |-> 0]

IntSize == 2       \* sizeof(uint32_t), scaled

\* enum nl80211_attrs: the ids of the attributes that wificond uses.
ATTR == [wiphy |-> 1, ifindex |-> 3, ifname |-> 4, mac |-> 6, bands |-> 22,
         ie |-> 42, scan_frequencies |-> 44, scan_ssids |-> 45, bss |-> 47,
         sched_scan_interval |-> 119, sched_scan_match |-> 132, wdev |-> 153,
         scan_flags |-> 158, ext_features |-> 217, sched_scan_plans |-> 225,
         rssi_adjust |-> 247]

-----------------------------------------------------------------------------
(***************************************************************************)
(* Making attributes                                                       *)
(***************************************************************************)

InitHeaderAndResize(id, payload_length) ==
    <<id, (NLA_HDRLEN + payload_length) % LenMod>>
        \o Zeros(NLA_ALIGN(payload_length))

\* BaseNL80211Attr, also of a vector or an array of bytes.
Attr(id, raw) ==
    LET blank == InitHeaderAndResize(id, Len(raw))
    IN  SubSeq(blank, 1, NLA_HDRLEN) \o raw
            \o SubSeq(blank, NLA_HDRLEN + Len(raw) + 1, Len(blank))

\* The bytes of an integer of the given size, least significant first.
Bytes(v, size) == [i \in 1..size |-> (v \div Base^(i - 1)) % Base]

IntAttr(id, v, size) == Attr(id, Bytes(v, size))

\* Kept with a terminating zero.
StringAttr(id, str) == Attr(id, Append(str, 0))

NestedAttr(id) == InitHeaderAndResize(id, 0)

AddAttribute(nested, attr) ==
    [nested \o attr EXCEPT ![2] = (@ + Len(attr)) % LenMod]

AddFlagAttribute(nested, id) ==
    [nested \o <<id, NLA_HDRLEN>> EXCEPT ![2] = (@ + NLA_HDRLEN) % LenMod]

-----------------------------------------------------------------------------
(***************************************************************************)
(* Reading attributes                                                      *)
(***************************************************************************)

GetAttributeId(data) == data[1]

IsValid(data) == Len(data) >= NLA_HDRLEN /\ NLA_ALIGN(data[2]) = Len(data)

\* NL80211Attr<T>::IsValid of an integral type.
IsValidInt(data, size) ==
    /\ IsValid(data)
    /\ NLA_ALIGN(size) + NLA_HDRLEN = Len(data)
    /\ size + NLA_HDRLEN = data[2]

Payload(data) == SubSeq(data, NLA_HDRLEN + 1, data[2])

\* GetValue of an integral type.
IntOf(bytes) ==
    FoldRight(LAMBDA b, acc : acc * Base + b, bytes, 0)

\* GetValue of a signed type.
SignedOf(bytes) ==
    LET v == IntOf(bytes)
        m == Base^Len(bytes)
    IN  IF 2 * v >= m THEN v - m ELSE v

\* GetValue of a string: the trailing zeros are dropped.
StringOf(data) ==
    LET p == Payload(data)
        n == CHOOSE n \in 0..Len(p) :
                /\ n = 0 \/ p[n] # 0
                /\ \A i \in n + 1 .. Len(p) : p[i] = 0
    IN  SubSeq(p, 1, n)

\* GetAttributeImpl: the first attribute with the id; a length that runs over
\* the end of the buffer ends the search.  A length of 0 would keep the code
\* where it is for ever; no buffer of the model has one.
GetAttributeImpl(buf, id) ==
    LET find[p \in 1 .. Len(buf) + 1] ==
            IF p + NLA_HDRLEN > Len(buf) + 1 THEN <<>>
            ELSE LET next == p + NLA_ALIGN(buf[p + 1])
                 IN  IF buf[p] = id
                     THEN IF next > Len(buf) + 1 THEN <<>>
                          ELSE <<SubSeq(buf, p, next - 1)>>
                     ELSE IF next \in p + 1 .. Len(buf) + 1 THEN find[next]
                          ELSE <<>>
    IN  find[1]

\* The payload of a nested attribute, as its sub-attributes are searched.
Content(data) == SubSeq(data, NLA_HDRLEN + 1, Len(data))

HasAttribute(buf, id) == GetAttributeImpl(buf, id) # <<>>

\* GetAttribute of a nested attribute or of a value of variable length.
GetAttribute(buf, id) == SelectSeq(GetAttributeImpl(buf, id), IsValid)

\* GetAttributeValue of an integral type.
GetInt(buf, id, size) ==
    LET found == GetAttributeImpl(buf, id)
    IN  IF found # <<>> /\ IsValidInt(found[1], size)
        THEN <<IntOf(Payload(found[1]))>> ELSE <<>>

\* GetAttributeValue of a vector of bytes.
GetBytes(buf, id) ==
    LET found == GetAttribute(buf, id)
    IN  IF found = <<>> THEN <<>> ELSE <<Payload(found[1])>>

\* The attributes of a buffer one after the other, <<>> if one is broken; Good
\* says which are accepted.
ListOf(buf, Good(_)) ==
    LET list[p \in 1 .. Len(buf) + 1] ==
            IF p + NLA_HDRLEN > Len(buf) + 1 THEN << <<>> >>
            ELSE LET next == p + NLA_ALIGN(buf[p + 1])
                     attr == SubSeq(buf, p, next - 1)
                 IN  IF next \notin p + 1 .. Len(buf) + 1 \/ ~Good(attr)
                     THEN <<>>
                     ELSE IF list[next] = <<>> THEN <<>>
                          ELSE << <<attr>> \o list[next][1] >>
    IN  list[1]

GetListOfNestedAttributes(data) == ListOf(Content(data), IsValid)

\* GetListOfAttributes of an integral type, as pairs of an id and a value.
GetListOfAttributes(data, size) ==
    LET attrs == ListOf(Content(data), LAMBDA a : IsValidInt(a, size))
    IN  IF attrs = <<>> THEN <<>>
        ELSE << [i \in DOMAIN attrs[1] |->
                    <<GetAttributeId(attrs[1][i]), Payload(attrs[1][i])>>] >>

\* GetListOfAttributeValues.
GetListOfAttributeValues(data, size) ==
    LET attrs == GetListOfAttributes(data, size)
    IN  IF attrs = <<>> THEN <<>>
        ELSE << [i \in DOMAIN attrs[1] |-> IntOf(attrs[1][i][2])] >>

\* Mutant: the padding of the first part stays in the middle.
MergeKeepsPadding(ours, other) ==
    [ours \o Payload(other) \o Zeros(Len(Payload(other)) % 2)
        EXCEPT ![2] = (@ + other[2] - NLA_HDRLEN) % LenMod]

\* Merge: the payloads of two attributes one after the other, without the
\* padding in between.
Merge(ours, other) ==
    LET total == ours[2] + other[2] - NLA_HDRLEN
        bytes == [SubSeq(ours, 1, ours[2]) EXCEPT ![2] = total % LenMod]
                     \o Payload(other)
    IN  IF IsValid(other) /\ GetAttributeId(ours) = GetAttributeId(other)
        THEN bytes \o Zeros(total % 2) ELSE ours

-----------------------------------------------------------------------------
(***************************************************************************)
(* Packets: the two headers as a record, and the bytes of the attributes   *)
(***************************************************************************)

NL80211Packet(type, command, sequence) ==
    [type |-> type, cmd |-> command, seq |-> sequence, flags |-> {"request"},
     attrs |-> <<>>]

AddFlag(packet, flag) == [packet EXCEPT !.flags = @ \cup {flag}]

PacketAdd(packet, attr) == [packet EXCEPT !.attrs = @ \o attr]

\* GetAllAttributes, each made anew from its id and its payload.
GetAllAttributes(packet) == ListOf(packet.attrs, IsValid)

=============================================================================
