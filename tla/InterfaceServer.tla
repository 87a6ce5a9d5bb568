--------------------------- MODULE InterfaceServer ---------------------------
(***************************************************************************)
(* The life cycle of wificond's interface objects: Server (server.cpp) and *)
(* the ClientInterfaceImpl and ApInterfaceImpl objects it owns, their      *)
(* binders, and the tables of NetlinkManager in which these objects        *)
(* register the handlers that the kernel's multicast events are sent to.   *)
(*                                                                         *)
(* wificond runs one thread: a binder call or a kernel event is handled to *)
(* its end before the next one, so each is one action.  What varies inside *)
(* a handler is the answer of every netlink request it sends: each of them *)
(* may fail (a timeout, an error reply), whatever the kernel's state is,   *)
(* and so may each SetUpState, whose result nothing looks at.              *)
(***************************************************************************)
EXTENDS Naturals, Sequences, FiniteSets, Functions

CONSTANTS
    Ifaces,            \* interface names
    IfIndexes,         \* kernel interface indexes
    Wiphys,            \* kernel wiphy indexes
    Bands,             \* channel types of band_to_wiphy_index_map_
    Objs,              \* identities of interface objects
    Callbacks,         \* IInterfaceEventCallback instances
    None,              \* no object, no wiphy, no netdev
    BandsOf,           \* the bands a wiphy's hardware has
    CarefulFramework,  \* the framework creates a name only when it has no
                       \* interface, tears it down by the kind it created, and
                       \* has no device moved to another chip in between
    MaxRegEvents       \* bound on unread regulatory events

ObjInfo == [kind: {"client", "ap"}, name: Ifaces,
            idx: IfIndexes, wiphy: Wiphys]
Netdev == [idx: IfIndexes, wiphy: Wiphys]

ASSUME ConstantsAssumption ==
    /\ None \notin Objs
    /\ None \notin Wiphys
    /\ None \notin ObjInfo
    /\ BandsOf \in [Wiphys -> SUBSET Bands]
    /\ CarefulFramework \in BOOLEAN
    /\ MaxRegEvents \in Nat

VARIABLES
    \* kernel
    netdev,       \* name -> its index and wiphy, or None
    up,           \* name -> administratively up
    wiphyBands,   \* wiphy -> bands the regulatory domain leaves usable
    regEvents,    \* REG_CHANGE events not yet read from the async socket
    \* Server
    clientIfs,    \* client_interfaces_: name -> object or None
    apIfs,        \* ap_interfaces_
    ifaceWiphy,   \* iface_to_wiphy_index_map_
    bandWiphy,    \* band_to_wiphy_index_map_
    callbacks,    \* interface_event_callbacks_
    \* interface objects and the pointers to them that others keep
    obj,          \* object -> what it was constructed with, or None
    live,         \* objects whose destructor has not run
    impl,         \* objects whose binder's impl_ is not null
    scannerValid, \* objects whose scanner's valid_ is true
    bandInfo,     \* object -> band_info_ of a client
    notSetUp,     \* history: clients whose constructor's SetUpState failed
    \* NetlinkManager
    handlers,     \* event kind -> interface index -> subscribed object
    regSubs,      \* wiphys in on_reg_domain_changed_handler_
    \* framework and observation
    crashed,      \* a handler dereferenced a null impl_
    known,        \* callback -> objects it was told of as ready, not as torn
                  \* down
    staleClients, \* clients whose last GetWiphyInfo failed
    missedWiphys  \* wiphys whose last UpdateBandWiphyIndexMap got no answer

kernelVars == <<netdev, up, wiphyBands, regEvents>>
mapVars == <<ifaceWiphy, bandWiphy>>
objVars == <<obj, live, impl, scannerValid, bandInfo, notSetUp>>
vars == <<kernelVars, clientIfs, apIfs, mapVars, callbacks, objVars,
          handlers, regSubs, crashed, known, staleClients, missedWiphys>>

HandlerKinds ==
    {"mlme", "frame_tx", "channel_switch", "scan", "sched_scan", "station"}

\* What the constructors of each kind of object subscribe to.
KindsOf(kind) ==
    IF kind = "client"
    THEN {"mlme", "frame_tx", "channel_switch", "scan", "sched_scan"}
    ELSE {"station", "channel_switch"}

TypeOK ==
    /\ netdev \in [Ifaces -> Netdev \cup {None}]
    /\ up \in [Ifaces -> BOOLEAN]
    /\ wiphyBands \in [Wiphys -> SUBSET Bands]
    /\ regEvents \in 0..MaxRegEvents
    /\ clientIfs \in [Ifaces -> Objs \cup {None}]
    /\ apIfs \in [Ifaces -> Objs \cup {None}]
    /\ ifaceWiphy \in [Ifaces -> Wiphys \cup {None}]
    /\ bandWiphy \in [Bands -> Wiphys \cup {None}]
    /\ callbacks \in Seq(Callbacks)
    /\ obj \in [Objs -> ObjInfo \cup {None}]
    /\ live \in SUBSET Objs
    /\ impl \in SUBSET Objs
    /\ scannerValid \in SUBSET Objs
    /\ bandInfo \in [Objs -> SUBSET Bands]
    /\ notSetUp \in SUBSET Objs
    /\ handlers \in [HandlerKinds -> [IfIndexes -> Objs \cup {None}]]
    /\ regSubs \in SUBSET Wiphys
    /\ crashed \in BOOLEAN
    /\ known \in [Callbacks -> SUBSET Objs]
    /\ staleClients \in SUBSET Objs
    /\ missedWiphys \in SUBSET Wiphys

Init ==
    /\ netdev = [n \in Ifaces |-> None]
    /\ up = [n \in Ifaces |-> FALSE]
    /\ wiphyBands = BandsOf
    /\ regEvents = 0
    /\ clientIfs = [n \in Ifaces |-> None]
    /\ apIfs = [n \in Ifaces |-> None]
    /\ ifaceWiphy = [n \in Ifaces |-> None]
    /\ bandWiphy = [b \in Bands |-> None]
    /\ callbacks = <<>>
    /\ obj = [o \in Objs |-> None]
    /\ live = {}
    /\ impl = {}
    /\ scannerValid = {}
    /\ bandInfo = [o \in Objs |-> {}]
    /\ notSetUp = {}
    /\ handlers = [k \in HandlerKinds |-> [i \in IfIndexes |-> None]]
    /\ regSubs = {}
    /\ crashed = FALSE
    /\ known = [c \in Callbacks |-> {}]
    /\ staleClients = {}
    /\ missedWiphys = {}

-----------------------------------------------------------------------------
(***************************************************************************)
(* Helpers of Server                                                       *)
(***************************************************************************)

hasNoIfaceForWiphyIndex(map, w) == \A n \in Ifaces : map[n] # w

\* A band that has no wiphy yet gets one of the wiphys ws that answered and
\* support it; a band that has one keeps it, even when its wiphy lost the band.
\* The code visits ws in the order of the interface names, which decides only
\* when two wiphys share a band.
UpdateBandWiphyIndexMap(map, ws) ==
    {m \in [Bands -> Wiphys \cup {None}] :
        \A b \in Bands :
            LET supporting == {w \in ws : b \in wiphyBands[w]}
            IN  IF map[b] # None \/ supporting = {}
                THEN m[b] = map[b]
                ELSE m[b] \in supporting}

EraseBandWiphyIndexMap(map, ws) ==
    [b \in Bands |-> IF map[b] \in ws THEN None ELSE map[b]]

Subscribe(h, o, kind, i) ==
    [k \in HandlerKinds |->
        [j \in IfIndexes |->
            IF k \in KindsOf(kind) /\ j = i THEN o ELSE h[k][j]]]

\* Mutant: ScannerImpl's destructor forgets the scheduled scan handler.
UnsubscribeForgetsSchedScan(h, dying) ==
    [k \in HandlerKinds |->
        [j \in IfIndexes |->
            IF /\ k # "sched_scan"
               /\ \E o \in dying : k \in KindsOf(obj[o].kind) /\ obj[o].idx = j
            THEN None ELSE h[k][j]]]

\* Mutant: unsubscribing clears the whole table of the event kind.
UnsubscribeAllIndexes(h, dying) ==
    [k \in HandlerKinds |->
        [j \in IfIndexes |->
            IF \E o \in dying : k \in KindsOf(obj[o].kind)
            THEN None ELSE h[k][j]]]

\* The destructors of the objects in dying unsubscribe by interface index,
\* whichever object is registered there.
Unsubscribe(h, dying) ==
    [k \in HandlerKinds |->
        [j \in IfIndexes |->
            IF \E o \in dying : k \in KindsOf(obj[o].kind) /\ obj[o].idx = j
            THEN None ELSE h[k][j]]]

\* SetUpState(name, false) for every one of the names; each may fail.
SetUpStateFalse(u, names) ==
    {v \in [Ifaces -> BOOLEAN] :
        \A n \in Ifaces : IF n \in names THEN v[n] => u[n] ELSE v[n] = u[n]}

\* Mutant: a destructor switches off every interface of its wiphy.
SetDownWiphy(u, dying) ==
    SetUpStateFalse(u, {n \in Ifaces : \E o \in dying : obj[o].wiphy = ifaceWiphy[n]})

\* At the end of both destructors.
SetDown(u, dying) == SetUpStateFalse(u, {obj[o].name : o \in dying})

\* Broadcast...Ready and Broadcast...TornDown to every registered callback.
BroadcastReady(o) ==
    [c \in Callbacks |->
        IF c \in Range(callbacks) THEN known[c] \cup {o} ELSE known[c]]

BroadcastTornDown(dying) ==
    [c \in Callbacks |->
        IF c \in Range(callbacks) THEN known[c] \ dying ELSE known[c]]

\* The object a table holds for a name, as a set.
Found(table, n) == {table[n]} \ {None}

-----------------------------------------------------------------------------
(***************************************************************************)
(* Binder calls of IWificond                                               *)
(***************************************************************************)

RegisterCallback(c) ==
    /\ callbacks' = IF c \in Range(callbacks) THEN callbacks
                    ELSE Append(callbacks, c)
    /\ UNCHANGED <<kernelVars, clientIfs, apIfs, mapVars, objVars, handlers,
                   regSubs, crashed, known, staleClients, missedWiphys>>

\* Erases the first entry that is c.  The framework then forgets what it
\* learned through c.
UnregisterCallback(c) ==
    /\ c \in Range(callbacks)
    /\ \E i \in DOMAIN callbacks :
          /\ callbacks[i] = c
          /\ \A j \in 1..(i - 1) : callbacks[j] # c
          /\ callbacks' = SubSeq(callbacks, 1, i - 1)
                          \o SubSeq(callbacks, i + 1, Len(callbacks))
    /\ known' = [known EXCEPT ![c] = {}]
    /\ UNCHANGED <<kernelVars, clientIfs, apIfs, mapVars, objVars, handlers,
                   regSubs, crashed, staleClients, missedWiphys>>

\* Mutant: the result of GetWiphyIndex is used unchecked.
SetupInterfaceUnchecked(n) ==
    /\ regSubs' = regSubs \cup
          {IF netdev[n] = None THEN None ELSE netdev[n].wiphy}
    /\ UNCHANGED <<kernelVars, clientIfs, apIfs, mapVars, callbacks, objVars,
                   handlers, crashed, known, staleClients, missedWiphys>>

\* SetupInterface fails: GetWiphyIndex does, or the name is not among the
\* answers of GetInterfaces, or that request fails.  In the last two cases
\* the handler for regulatory changes is already subscribed.
SetupInterfaceFails(n) ==
    /\ \/ UNCHANGED regSubs
       \/ /\ netdev[n] # None
          /\ regSubs' = regSubs \cup {netdev[n].wiphy}
    /\ UNCHANGED <<kernelVars, clientIfs, apIfs, mapVars, callbacks, objVars,
                   handlers, crashed, known, staleClients, missedWiphys>>

\* band_info_ after the constructor.  GetWiphyInfo writes it before it looks at
\* the rest of the answer, so it may be there although the call failed.
ParsedBands(kind, w, gotInfo) ==
    IF kind = "ap" THEN {{}}
    ELSE {wiphyBands[w]} \cup (IF gotInfo THEN {} ELSE {{}})

\* SetupInterface, the constructor, the broadcast, then the assignment to the
\* table, which destroys the object the name had before; of its end no callback
\* is told.  A client's constructor sets the device up, or fails to.
CreateObject(kind, n, o, replaced, gotInfo, gotUp, gotBands) ==
    LET w == netdev[n].wiphy
        i == netdev[n].idx
        newUp == IF kind = "client" /\ gotUp THEN [up EXCEPT ![n] = TRUE] ELSE up
    IN  /\ obj' = [obj EXCEPT ![o] =
                      [kind |-> kind, name |-> n, idx |-> i, wiphy |-> w]]
        /\ live' = (live \cup {o}) \ replaced
        /\ impl' = (impl \cup {o}) \ replaced
        /\ scannerValid' =
              (IF kind = "client" THEN scannerValid \cup {o} ELSE scannerValid)
                  \ replaced
        /\ \E bands \in ParsedBands(kind, w, gotInfo) :
              bandInfo' = [bandInfo EXCEPT ![o] = bands]
        /\ staleClients' =
              (IF kind = "client" /\ ~gotInfo THEN staleClients \cup {o}
                                              ELSE staleClients) \ replaced
        /\ notSetUp' =
              (IF kind = "client" /\ ~gotUp THEN notSetUp \cup {o}
                                            ELSE notSetUp) \ replaced
        /\ handlers' = Unsubscribe(Subscribe(handlers, o, kind, i), replaced)
        /\ up' \in SetDown(newUp, replaced)
        /\ regSubs' = regSubs \cup {w}
        /\ known' = BroadcastReady(o)
        /\ IF hasNoIfaceForWiphyIndex(ifaceWiphy, w)
           THEN /\ bandWiphy' \in UpdateBandWiphyIndexMap(bandWiphy,
                                      IF gotBands THEN {w} ELSE {})
                /\ missedWiphys' = IF gotBands THEN missedWiphys \ {w}
                                               ELSE missedWiphys \cup {w}
           ELSE UNCHANGED <<bandWiphy, missedWiphys>>
        /\ ifaceWiphy' = [ifaceWiphy EXCEPT ![n] = w]
        /\ UNCHANGED <<netdev, wiphyBands, regEvents, callbacks, crashed>>

createClientInterface(n) ==
    /\ CarefulFramework => clientIfs[n] = None /\ apIfs[n] = None
    /\ \/ SetupInterfaceFails(n)
       \/ /\ netdev[n] # None
          /\ \E o \in Objs, gotInfo, gotUp, gotBands \in BOOLEAN :
                /\ obj[o] = None
                /\ CreateObject("client", n, o, Found(clientIfs, n),
                                gotInfo, gotUp, gotBands)
                /\ clientIfs' = [clientIfs EXCEPT ![n] = o]
          /\ UNCHANGED apIfs

\* Mutant: the AP a name had before is dropped from the table, not destroyed.
createApInterfaceLeaks(n) ==
    /\ netdev[n] # None
    /\ \E o \in Objs, gotBands \in BOOLEAN :
          /\ obj[o] = None
          /\ CreateObject("ap", n, o, {}, TRUE, TRUE, gotBands)
          /\ apIfs' = [apIfs EXCEPT ![n] = o]
    /\ UNCHANGED clientIfs

createApInterface(n) ==
    /\ CarefulFramework => clientIfs[n] = None /\ apIfs[n] = None
    /\ \/ SetupInterfaceFails(n)
       \/ /\ netdev[n] # None
          /\ \E o \in Objs, gotBands \in BOOLEAN :
                /\ obj[o] = None
                /\ CreateObject("ap", n, o, Found(apIfs, n), TRUE, TRUE, gotBands)
                /\ apIfs' = [apIfs EXCEPT ![n] = o]
          /\ UNCHANGED clientIfs

\* Mutant: the destructors do not call NotifyImplDead.
DestroyKeepsImpl(dying) ==
    /\ live' = live \ dying
    /\ scannerValid' = scannerValid \ dying
    /\ handlers' = Unsubscribe(handlers, dying)
    /\ staleClients' = staleClients \ dying
    /\ notSetUp' = notSetUp \ dying
    /\ UNCHANGED <<obj, impl, bandInfo>>

\* The destructors of the objects in dying.
Destroy(dying) ==
    /\ live' = live \ dying
    /\ impl' = impl \ dying
    /\ scannerValid' = scannerValid \ dying
    /\ handlers' = Unsubscribe(handlers, dying)
    /\ staleClients' = staleClients \ dying
    /\ notSetUp' = notSetUp \ dying
    /\ UNCHANGED <<obj, bandInfo>>

\* Mutant: looks for other interfaces before the name leaves the map.
ForgetWiphyTooEarly(n) ==
    LET w == ifaceWiphy[n]
    IN  /\ ifaceWiphy' = [ifaceWiphy EXCEPT ![n] = None]
        /\ IF w # None /\ hasNoIfaceForWiphyIndex(ifaceWiphy, w)
           THEN bandWiphy' = EraseBandWiphyIndexMap(bandWiphy, {w})
           ELSE UNCHANGED bandWiphy

\* Mutant: does not look for other interfaces of the wiphy.
ForgetWiphyAlways(n) ==
    /\ ifaceWiphy' = [ifaceWiphy EXCEPT ![n] = None]
    /\ bandWiphy' = EraseBandWiphyIndexMap(bandWiphy, {ifaceWiphy[n]} \ {None})

\* The half the two tear down calls share: whether or not an object was found
\* for the name, the name leaves iface_to_wiphy_index_map_.
ForgetWiphy(n) ==
    LET w == ifaceWiphy[n]
        rest == [ifaceWiphy EXCEPT ![n] = None]
    IN  /\ ifaceWiphy' = rest
        /\ IF w # None /\ hasNoIfaceForWiphyIndex(rest, w)
           THEN bandWiphy' = EraseBandWiphyIndexMap(bandWiphy, {w})
           ELSE UNCHANGED bandWiphy

\* Mutant: also stops listening to the wiphy's regulatory changes.
tearDownClientInterfaceDeaf(n) ==
    LET dying == Found(clientIfs, n)
    IN  /\ known' = BroadcastTornDown(dying)
        /\ clientIfs' = [clientIfs EXCEPT ![n] = None]
        /\ Destroy(dying)
        /\ up' \in SetDown(up, dying)
        /\ ForgetWiphy(n)
        /\ regSubs' = regSubs \ {ifaceWiphy[n]}
        /\ UNCHANGED <<netdev, wiphyBands, regEvents, apIfs, callbacks,
                       crashed, missedWiphys>>

tearDownClientInterface(n) ==
    LET dying == Found(clientIfs, n)
    IN  /\ CarefulFramework => apIfs[n] = None
        /\ known' = BroadcastTornDown(dying)
        /\ clientIfs' = [clientIfs EXCEPT ![n] = None]
        /\ Destroy(dying)
        /\ up' \in SetDown(up, dying)
        /\ ForgetWiphy(n)
        /\ UNCHANGED <<netdev, wiphyBands, regEvents, apIfs, callbacks,
                       regSubs, crashed, missedWiphys>>

tearDownApInterface(n) ==
    LET dying == Found(apIfs, n)
    IN  /\ CarefulFramework => clientIfs[n] = None
        /\ known' = BroadcastTornDown(dying)
        /\ apIfs' = [apIfs EXCEPT ![n] = None]
        /\ Destroy(dying)
        /\ up' \in SetDown(up, dying)
        /\ ForgetWiphy(n)
        /\ UNCHANGED <<netdev, wiphyBands, regEvents, clientIfs, callbacks,
                       regSubs, crashed, missedWiphys>>

\* Mutant: the APs go without a broadcast.
tearDownInterfacesSilent ==
    /\ known' = BroadcastTornDown(Range(clientIfs) \ {None})
    /\ clientIfs' = [n \in Ifaces |-> None]
    /\ apIfs' = [n \in Ifaces |-> None]
    /\ Destroy((Range(clientIfs) \cup Range(apIfs)) \ {None})
    /\ up' = [n \in Ifaces |-> FALSE]
    /\ regSubs' = {}
    /\ bandWiphy' = [b \in Bands |-> None]
    /\ ifaceWiphy' = [n \in Ifaces |-> None]
    /\ UNCHANGED <<netdev, wiphyBands, regEvents, callbacks, crashed,
                   missedWiphys>>

\* Goes over iface_to_wiphy_index_map_, not over the tables of objects.
MarkDownAllInterfaces(u) ==
    SetUpStateFalse(u, {n \in Ifaces : ifaceWiphy[n] # None})

tearDownInterfaces ==
    LET dying == (Range(clientIfs) \cup Range(apIfs)) \ {None}
        ws == Range(ifaceWiphy) \ {None}
    IN  /\ known' = BroadcastTornDown(dying)
        /\ clientIfs' = [n \in Ifaces |-> None]
        /\ apIfs' = [n \in Ifaces |-> None]
        /\ Destroy(dying)
        /\ \E u \in SetDown(up, dying) : up' \in MarkDownAllInterfaces(u)
        /\ regSubs' = regSubs \ ws
        /\ bandWiphy' = EraseBandWiphyIndexMap(bandWiphy, ws)
        /\ ifaceWiphy' = [n \in Ifaces |-> None]
        /\ UNCHANGED <<netdev, wiphyBands, regEvents, callbacks, crashed,
                       missedWiphys>>

\* UpdateBandInfo of every client, then UpdateBandWiphyIndexMap of the wiphys
\* the kernel names for the existing interfaces.  answered are the clients
\* whose GetWiphyInfo succeeds, parsed those whose band_info_ it writes, reached
\* the names whose GetWiphyIndex succeeds, ws the wiphys whose GetBandInfo does.
handleCountryCodeChanged ==
    LET clients == Range(clientIfs) \ {None}
        names == {n \in Ifaces : clientIfs[n] # None \/ apIfs[n] # None}
    IN  \E parsed \in SUBSET clients,
           reached \in SUBSET {n \in names : netdev[n] # None} :
          \E answered \in SUBSET parsed,
             ws \in SUBSET {netdev[n].wiphy : n \in reached} :
            /\ bandInfo' = [o \in Objs |->
                  IF o \in parsed THEN wiphyBands[obj[o].wiphy]
                                    ELSE bandInfo[o]]
            /\ staleClients' = (staleClients \ answered)
                                  \cup (clients \ answered)
            /\ bandWiphy' \in UpdateBandWiphyIndexMap(bandWiphy, ws)
            /\ missedWiphys' = (missedWiphys \ ws)
                  \cup ({ifaceWiphy[n] : n \in names} \ (ws \cup {None}))
            /\ UNCHANGED <<ifaceWiphy, obj, live, impl, scannerValid, notSetUp>>

notifyCountryCodeChanged ==
    /\ handleCountryCodeChanged
    /\ UNCHANGED <<kernelVars, clientIfs, apIfs, callbacks, handlers, regSubs,
                   crashed, known>>

\* A REG_CHANGE event is passed to OnRegDomainChanged once for every
\* subscribed wiphy; each call refreshes everything when its wiphy has an
\* interface, so the calls together do what the last one does.
OnRegDomainChanged ==
    /\ regEvents > 0
    /\ regEvents' = regEvents - 1
    /\ IF \E w \in regSubs : ~hasNoIfaceForWiphyIndex(ifaceWiphy, w)
       THEN handleCountryCodeChanged
       ELSE UNCHANGED <<mapVars, objVars, staleClients, missedWiphys>>
    /\ UNCHANGED <<netdev, up, wiphyBands, clientIfs, apIfs, callbacks,
                   handlers, regSubs, crashed, known>>

\* ApInterfaceBinder::getInterfaceName uses impl_ without looking at it.
ApGetInterfaceName(o) ==
    /\ obj[o] # None
    /\ obj[o].kind = "ap"
    /\ o \notin impl
    /\ crashed' = TRUE
    /\ UNCHANGED <<kernelVars, clientIfs, apIfs, mapVars, callbacks, objVars,
                   handlers, regSubs, known, staleClients, missedWiphys>>

-----------------------------------------------------------------------------
(***************************************************************************)
(* Environment: the framework's references, the kernel, init               *)
(***************************************************************************)

\* The framework drops its reference to the binder of a destroyed object.
ReleaseBinder(o) ==
    /\ obj[o] # None
    /\ o \notin live
    /\ obj' = [obj EXCEPT ![o] = None]
    /\ bandInfo' = [bandInfo EXCEPT ![o] = {}]
    /\ known' = [c \in Callbacks |-> known[c] \ {o}]
    /\ UNCHANGED <<kernelVars, clientIfs, apIfs, mapVars, callbacks, live,
                   impl, scannerValid, notSetUp, handlers, regSubs, crashed,
                   staleClients, missedWiphys>>

\* The kernel numbers network devices upwards: an index in use by a device, or
\* remembered by an object, is not given out again.
AddNetdev(n, i, w) ==
    /\ netdev[n] = None
    /\ CarefulFramework => ifaceWiphy[n] \in {None, w}
    /\ \A m \in Ifaces : netdev[m] # None => netdev[m].idx # i
    /\ \A o \in live : obj[o].idx # i
    /\ netdev' = [netdev EXCEPT ![n] = [idx |-> i, wiphy |-> w]]
    /\ UNCHANGED <<up, wiphyBands, regEvents, clientIfs, apIfs, mapVars,
                   callbacks, objVars, handlers, regSubs, crashed, known,
                   staleClients, missedWiphys>>

RemoveNetdev(n) ==
    /\ netdev[n] # None
    /\ netdev' = [netdev EXCEPT ![n] = None]
    /\ up' = [up EXCEPT ![n] = FALSE]
    /\ UNCHANGED <<wiphyBands, regEvents, clientIfs, apIfs, mapVars,
                   callbacks, objVars, handlers, regSubs, crashed, known,
                   staleClients, missedWiphys>>

RegChange(w, bands) ==
    /\ regEvents < MaxRegEvents
    /\ bands # wiphyBands[w]
    /\ wiphyBands' = [wiphyBands EXCEPT ![w] = bands]
    /\ regEvents' = regEvents + 1
    /\ UNCHANGED <<netdev, up, clientIfs, apIfs, mapVars, callbacks, objVars,
                   handlers, regSubs, crashed, known, staleClients,
                   missedWiphys>>

\* The process dies (a failed CHECK, a signal) and init starts it again: its
\* memory is gone, its sockets with the unread events too, and the framework
\* learns of the death of every binder.  The kernel keeps its state.
Restart ==
    /\ regEvents' = 0
    /\ clientIfs' = [n \in Ifaces |-> None]
    /\ apIfs' = [n \in Ifaces |-> None]
    /\ ifaceWiphy' = [n \in Ifaces |-> None]
    /\ bandWiphy' = [b \in Bands |-> None]
    /\ callbacks' = <<>>
    /\ obj' = [o \in Objs |-> None]
    /\ live' = {}
    /\ impl' = {}
    /\ scannerValid' = {}
    /\ bandInfo' = [o \in Objs |-> {}]
    /\ notSetUp' = {}
    /\ handlers' = [k \in HandlerKinds |-> [i \in IfIndexes |-> None]]
    /\ regSubs' = {}
    /\ crashed' = FALSE
    /\ known' = [c \in Callbacks |-> {}]
    /\ staleClients' = {}
    /\ missedWiphys' = {}
    /\ UNCHANGED <<netdev, up, wiphyBands>>

Next ==
    \/ /\ ~crashed
       /\ \/ \E c \in Callbacks : RegisterCallback(c) \/ UnregisterCallback(c)
          \/ \E n \in Ifaces : \/ createClientInterface(n)
                               \/ createApInterface(n)
                               \/ tearDownClientInterface(n)
                               \/ tearDownApInterface(n)
          \/ tearDownInterfaces
          \/ notifyCountryCodeChanged
          \/ OnRegDomainChanged
          \/ \E o \in Objs : ApGetInterfaceName(o) \/ ReleaseBinder(o)
          \/ \E n \in Ifaces, i \in IfIndexes, w \in Wiphys : AddNetdev(n, i, w)
          \/ \E n \in Ifaces : RemoveNetdev(n)
          \/ \E w \in Wiphys, bands \in SUBSET Bands :
                bands \subseteq BandsOf[w] /\ RegChange(w, bands)
    \/ Restart

Spec == Init /\ [][Next]_vars

-----------------------------------------------------------------------------
(***************************************************************************)
(* Properties                                                              *)
(***************************************************************************)

\* netlink_manager.h leaves it to the subscriber that "the object exists for
\* the duration of the subscription": every handler NetlinkManager would run
\* belongs to an object whose destructor has not run, which subscribed to that
\* kind of event at that index.
NoDanglingHandler ==
    \A k \in HandlerKinds, i \in IfIndexes :
        handlers[k][i] # None =>
            /\ handlers[k][i] \in live
            /\ obj[handlers[k][i]] # None
            /\ obj[handlers[k][i]].idx = i
            /\ k \in KindsOf(obj[handlers[k][i]].kind)

\* The Server's two tables own exactly the live objects: nothing leaks, and a
\* name's entry is an object constructed for that name and that table.
TablesOwnObjects ==
    /\ \A n \in Ifaces :
        /\ clientIfs[n] # None =>
              /\ clientIfs[n] \in live
              /\ obj[clientIfs[n]] # None
              /\ obj[clientIfs[n]].kind = "client"
              /\ obj[clientIfs[n]].name = n
        /\ apIfs[n] # None =>
              /\ apIfs[n] \in live
              /\ obj[apIfs[n]] # None
              /\ obj[apIfs[n]].kind = "ap"
              /\ obj[apIfs[n]].name = n
    /\ \A o \in live :
        /\ obj[o] # None
        /\ o \in {clientIfs[obj[o].name], apIfs[obj[o].name]}

\* A binder or a scanner that the framework still holds points to its object
\* exactly as long as the object exists.
PointersFollowLife ==
    /\ impl = live
    /\ scannerValid = {o \in live : obj[o].kind = "client"}

\* Whatever wiphy an interface is recorded on, its regulatory changes reach
\* the Server.
RegChangesHeard ==
    \A n \in Ifaces : ifaceWiphy[n] # None => ifaceWiphy[n] \in regSubs

\* A live object receives every kind of event it subscribed to.
FullySubscribed ==
    \A o \in live : \A k \in KindsOf(obj[o].kind) : handlers[k][obj[o].idx] = o

\* A client interface the framework holds is up as long as its device exists
\* (client_interface_impl.cpp: "Need to set the interface up"), unless its own
\* constructor failed to set it up: no other object's destructor sets it down.
ClientIsUp ==
    \A o \in live \ notSetUp :
        /\ obj[o].kind = "client"
        /\ netdev[obj[o].name] # None
        /\ netdev[obj[o].name].idx = obj[o].idx
        => up[obj[o].name]

\* IInterfaceEventCallback.aidl, OnClientTorndownEvent: "Signals that an
\* interface was torn down".  Every object that a registered callback was told
\* of as ready, and not as torn down, still exists.  With a framework that
\* creates a name twice it is not so: the object replaced in CreateObject ends
\* without a broadcast.  That a callback is then "automatically unregistered", as
\* the same file says, is not so with any framework: it stays in callbacks, and
\* hears of the end of the next object too, on which this property relies.
TornDownAnnounced ==
    \A c \in Callbacks : known[c] \subseteq live

\* The maps follow the interfaces: a name is mapped exactly while it has an
\* object, to the wiphy the object was made for, and a band is served only by
\* a wiphy that has an interface.
MapsFollowInterfaces ==
    /\ \A n \in Ifaces :
        ifaceWiphy[n] =
            IF clientIfs[n] # None THEN obj[clientIfs[n]].wiphy
            ELSE IF apIfs[n] # None THEN obj[apIfs[n]].wiphy ELSE None
    /\ \A b \in Bands : bandWiphy[b] # None =>
        ~hasNoIfaceForWiphyIndex(ifaceWiphy, bandWiphy[b])

\* What getAvailable...Channels finds for a band: the map's wiphy, if the
\* kernel still reports channels of the band for it.
ChannelsAvailable(b) == bandWiphy[b] # None /\ b \in wiphyBands[bandWiphy[b]]

\* Once every regulatory event is read, the bands of each wiphy with an
\* interface are available and every client knows its wiphy's bands, except
\* where the last request for them failed.
BandsFresh ==
    regEvents = 0 =>
        /\ \A n \in Ifaces :
              ifaceWiphy[n] \notin missedWiphys \cup {None} =>
                  \A b \in wiphyBands[ifaceWiphy[n]] : ChannelsAvailable(b)
        /\ \A o \in live \ staleClients :
              obj[o].kind = "client" => bandInfo[o] = wiphyBands[obj[o].wiphy]

=============================================================================
