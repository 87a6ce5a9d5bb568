------------------------- MODULE InterfaceMessages -------------------------
(***************************************************************************)
(* What NetlinkUtils (net/netlink_utils.cpp) and Server::SetupInterface    *)
(* (server.cpp) make of the kernel's answers about wiphys and interfaces,  *)
(* and the joining of the pieces of a split dump.  A reply is a sequence   *)
(* of packets; a result is a sequence: of the value, or empty for failure. *)
(***************************************************************************)
EXTENDS Nl80211Packet, FiniteSetsExt

\* enum nl80211_frequency_attr.
FREQUENCY == [freq |-> 1, disabled |-> 2]

\* A message that is an error, of another family or another command makes the
\* whole answer useless.
Answers(packets, cmd) ==
    /\ packets # <<>>
    /\ \A i \in DOMAIN packets : packets[i].type = "nl80211" /\ packets[i].cmd = cmd

\* The wiphy of the last message.
GetWiphyIndex(packets) ==
    IF /\ Answers(packets, "new_wiphy")
       /\ \A i \in DOMAIN packets : GetInt(packets[i].attrs, ATTR.wiphy, IntSize) # <<>>
    THEN GetInt(packets[Len(packets)].attrs, ATTR.wiphy, IntSize)
    ELSE <<>>

\* InterfaceInfo of a message, none for a device without an index or a name,
\* as the kernel reports for pseudo interfaces, or without an address.
InterfaceInfo(packet, wiphy) ==
    LET index == GetInt(packet.attrs, ATTR.ifindex, IntSize)
        name == GetAttribute(packet.attrs, ATTR.ifname)
        mac == GetBytes(packet.attrs, ATTR.mac)
    IN  IF <<>> \in {index, name, mac} THEN <<>>
        ELSE <<[index |-> index[1], wiphy_index |-> wiphy,
                name |-> StringOf(name[1]), mac_address |-> mac[1]]>>

\* Mutant: a pseudo interface ends the list.
GetInterfacesStops(wiphy, packets) ==
    LET infos == [i \in DOMAIN packets |-> InterfaceInfo(packets[i], wiphy)]
        n == SelectInSeq(infos, LAMBDA info : info = <<>>)
    IN  IF ~Answers(packets, "new_interface") THEN <<>>
        ELSE <<FlattenSeq(IF n = 0 THEN infos ELSE SubSeq(infos, 1, n - 1))>>

GetInterfaces(wiphy, packets) ==
    IF ~Answers(packets, "new_interface") THEN <<>>
    ELSE <<FlattenSeq([i \in DOMAIN packets |-> InterfaceInfo(packets[i], wiphy)])>>

\* Server::SetupInterface: the first interface with the name.
SetupInterface(name, wiphyReply, interfaceReply) ==
    LET wiphy == GetWiphyIndex(wiphyReply)
        list == IF wiphy = <<>> THEN <<>> ELSE GetInterfaces(wiphy[1], interfaceReply)
        named == IF list = <<>> THEN <<>>
                 ELSE SelectSeq(list[1], LAMBDA info : info.name = name)
    IN  IF named = <<>> THEN <<>> ELSE <<named[1]>>

-----------------------------------------------------------------------------
\* attr_by_wiphy_and_id[wiphy], as a function from the attributes' ids, after
\* one more attribute.
Joined(map, attr) ==
    LET id == GetAttributeId(attr)
    IN  IF id \in {ATTR.wiphy, ATTR.ifindex, ATTR.wdev} THEN map
        ELSE [i \in DOMAIN map \cup {id} |->
                 IF i # id THEN map[i]
                 ELSE IF id \in DOMAIN map THEN Merge(map[id], attr)
                 ELSE attr]

\* attr_by_wiphy_and_id[wiphy]: of all messages that have its index.
AttributesOf(wiphy, packets) ==
    LET own == SelectSeq(packets, LAMBDA p :
                             GetInt(p.attrs, ATTR.wiphy, IntSize) = <<wiphy>>)
    IN  FoldLeft(Joined, <<>>,
                 FlattenSeq([i \in DOMAIN own |-> GetAllAttributes(own[i])[1]]))

\* A message of one wiphy, with its attributes in the order of their ids.
NewWiphy(wiphy, map) ==
    FoldLeft(LAMBDA p, id : PacketAdd(p, map[id]),
             PacketAdd(NL80211Packet("none", "new_wiphy", 0),
                       IntAttr(ATTR.wiphy, wiphy, IntSize)),
             SetToSortSeq(DOMAIN map, <))

\* A message without an index or with a broken attribute spoils the dump.  A
\* wiphy whose messages have nothing but what tells wiphys and devices apart
\* gets no message.
MergePacketsForSplitWiphyDump(packets) ==
    IF \E i \in DOMAIN packets :
          \/ GetInt(packets[i].attrs, ATTR.wiphy, IntSize) = <<>>
          \/ GetAllAttributes(packets[i]) = <<>>
    THEN <<>>
    ELSE LET indexes == {GetInt(packets[i].attrs, ATTR.wiphy, IntSize)[1] : i \in DOMAIN packets}
             wiphys == SetToSortSeq({w \in indexes : AttributesOf(w, packets) # <<>>}, <)
         IN  [i \in DOMAIN wiphys |->
                 NewWiphy(wiphys[i], AttributesOf(wiphys[i], packets))]

\* The channels that the regulatory domain leaves usable, in order.
UsableFreqs(list) ==
    LET freqs == GetListOfNestedAttributes(list)
        usable == IF freqs = <<>> THEN <<>>
                  ELSE SelectSeq(freqs[1], LAMBDA f :
                          /\ GetInt(Content(f), FREQUENCY.freq, IntSize) # <<>>
                          /\ ~HasAttribute(Content(f), FREQUENCY.disabled))
    IN  [i \in DOMAIN usable |-> GetInt(Content(usable[i]), FREQUENCY.freq, IntSize)[1]]

=============================================================================
