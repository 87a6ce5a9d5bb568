# A TLA+ model of wificond

wificond is the Android daemon between the Wi-Fi framework and the kernel's
nl80211 interface. It is one process with one thread. The thread runs an event
loop over three file descriptors: the binder, on which the framework calls, and
two netlink sockets, a synchronous one for wificond's own requests and an
asynchronous one for the kernel's multicast events.

This directory models wificond's state and the data it carries between the
framework and the kernel, checks the models with TLC on small instances, and proves some of their invariants with TLAPS for every
instance. `PROJECT.json` lists the runs, the theorems, the source lines of each
definition, the hazards and the findings.

## 1. Inventory

| Component | State | Operations | Interacts with |
|---|---|---|---|
| `Server` (`server.cpp`) | `client_interfaces_`, `ap_interfaces_`, `iface_to_wiphy_index_map_`, `band_to_wiphy_index_map_`, `interface_event_callbacks_` | create, tear down (one, all), register and unregister callbacks, channel queries, regulatory changes | owns the interface objects; asks `NetlinkUtils`; subscribes at `NetlinkManager` |
| `ClientInterfaceImpl`, `ClientInterfaceBinder` | `is_associated_`, `bssid_`, `associate_freq_`, `band_info_`, the slot for one management frame, `impl_` | handlers of link, channel switch and frame status events; `signalPoll`, `SendMgmtFrame` | owns a `ScannerImpl`; subscribed by interface index |
| `ApInterfaceImpl`, `ApInterfaceBinder` | `impl_`, one registered callback | station and channel switch events | subscribed by interface index |
| `ScannerImpl` (`scanning/scanner_impl.cpp`) | `valid_`, `scan_started_`, `pno_scan_started_`, `nodev_counter_`, two event handlers | scan, abort, scheduled (PNO) scan, subscriptions, two event handlers | the kernel through `ScanUtils`; the client's `IsAssociated` |
| `ScanUtils`, `NetlinkUtils` | `supports_split_wiphy_dump_` | one nl80211 request each, the parsing of its answer | `NetlinkManager` |
| `NL80211Packet`, `NL80211Attr`, `NL80211NestedAttr` | the bytes of a message | build, look up, list, merge attributes | the two above |
| Parcelables (`scanning/*.cpp`, `device_wiphy_capabilities.cpp`) | the fields of a record | `writeToParcel`, `readFromParcel` | the framework's Java classes |
| `NetlinkManager` (`net/netlink_manager.cpp`) | both sockets, `message_types_`, `ReceiveBuffer`, `sequence_number_`, `message_handlers_`, a subscription table for each kind of event | start and family discovery, synchronous request with timeout, asynchronous dispatch, subscribe, unsubscribe | the kernel, the event loop |
| `MlmeEventHandlerImpl`, MLME events | none | what a link event says | the client object |
| Event loop, `main` | the watched descriptors, `should_continue_` | poll, dispatch, exit on a signal; the process is restarted by init | all |

What is hard about it:

* *Two sockets, one thread.* A request is answered inside the binder call, its
  consequence arrives later on the other socket. Binder calls handled in between
  see flags (`scan_started_`, `pno_scan_started_`, `is_associated_`) that the
  kernel has already contradicted.
* *Raw pointers.* Subscription tables hold lambdas that capture `this`, the
  message handlers of a request a pointer to a vector on the stack, binders and
  scanners a pointer to an object that the Server destroys. Subscriptions are
  removed by interface index, not by owner.
* *Partial failure.* Every request may time out or be refused in the middle of
  an operation of several steps, and some are retried.
* *Others on the same interface.* Other processes scan, send frames and
  associate; their events come to the same handlers.
* *Unreliable delivery.* The kernel drops events when the asynchronous socket is
  full, and a read then fails; a handler that sends a request reads the reply
  into the buffer that holds the rest of its datagram.
* *Scaled limits.* Lengths of 16 bits, sums of 32 bits, alignment and padding,
  capabilities that allow no network at all, parcels that end too early.
* *Restart.* The process ends on a failed `CHECK` and is started again, while
  the kernel's interfaces and scans go on.

Correct means: no pointer outlives its object; a flag that says that something
runs is cleared by an event that is sure to come; what is cached (association,
bands, the wiphy of a band) is the kernel's state once all events are read; a
request gets its own reply; a framework that waits is answered; and what the
framework asked for, or the kernel reported, arrives at the other end unchanged.

## 2. Plan

Done in this order, most important behaviour first:

1. `InterfaceServer`: life cycle of the objects, the tables and maps, with proofs.
2. `Scanner`: flags against the kernel's scans, liveness.
3. `NetlinkSync`: synchronous requests, with proofs.
4. `ClientLink`: the association state, and what `signalPoll` makes of it.
5. `MgmtFrame`: the slot for one frame, with proofs.
6. `WiphyInfo`: a split dump, merged and parsed into bands and limits.
7. `ScanService`: what a scanner promises, implemented by `Scanner`.
8. `NetlinkEvents`: start-up with its retries, the asynchronous receive loop, the
   event loop, and the events that go on to the framework.
9. `Nl80211Packet`, `ScanMessages`, `InterfaceMessages`, `Parcels`, composed in
   `DataPath`: pure algorithms on bytes, against reference definitions.

10. Proofs about `ClientLink`, `Scanner`, `NetlinkEvents`, `WiphyInfo`, the rest
   of `InterfaceServer` and `NetlinkSync`, and the operators under `DataPath`.

Possible extensions: an abstract remote call (request, then its reply or
failure), implemented by `NetlinkSync`; `ClientLink` and `Scanner` over one queue
of events.

## 3. Modules

The thread runs a binder call or an event handler to its end before the next, so
each of them is one action. `NetlinkSync`, `WiphyInfo` and `NetlinkEvents` look
inside a call, where the thread waits for the kernel or walks through a datagram.
A variable keeps the name of the member it models, without the
underscore, where TLA+ allows; each module's `VARIABLES` comments say which.
Actions have the names of the functions they translate. `TypeOK` states the types
of a module's variables; it is proved of `InterfaceServer`, `Scanner` and
`ClientLink`, and is a property of a run of the first. Definitions with a
comment that starts with *Mutant* are wrong versions of the definition after
them; they are used by no specification, and show that the property they are
listed with in `PROJECT.json` notices that bug.

### InterfaceServer

Kernel: network devices with index and wiphy, which of them are up, the bands
the regulatory domain leaves each wiphy. Server: its two tables of objects, the
two maps, the callbacks. Objects: an identity, what it was constructed with,
whether it lives, whether its binder's `impl_` and its scanner's `valid_` are
set, a client's bands. `NetlinkManager`: for each kind of event the object
subscribed at each index, and the wiphys subscribed for regulatory changes.

An object is made in the code's order: `SetupInterface` (which subscribes to
regulatory changes before the steps that may still fail), the constructor, the
broadcast, the assignment to the table, which destroys the object that the name
had before. `Unsubscribe` clears an index whoever is registered there. Every
netlink request may fail whatever the kernel's state is: these are the
nondeterministic choices `gotInfo`, `gotBands`, `answered`, `reached`, `ws`. A
`GetWiphyInfo` that fails may yet have written `band_info_` (`ParsedBands`,
`parsed`), which it parses before the rest of the answer; `WiphyInfo` looks
inside that call. `SetUpState` may fail as well, and no caller looks at its
result: `gotUp` decides for the constructor, whose failure `notSetUp` remembers,
and `SetUpStateFalse` has all outcomes of setting devices down.
`known` is, for each callback, the objects it was told of as ready and not as torn
down; `staleClients` and `missedWiphys` record whose last request failed, so that
`BandsFresh` can say what is promised otherwise. `CarefulFramework` is the framework's protocol: one
object for a name, torn down by the kind it was created as, before its device
comes back on another chip.

### Scanner

One client's `ScannerImpl`, the kernel's one-shot and scheduled scans, the queue
of unread events, and what the framework believes (`fwScan`, `fwPno`). `Env`
chooses what the environment does: scans of other processes, ACKs that come too
late (the call fails though the scan runs), associations, a device that
disappears, tear downs. `CarefulPno` says that the
framework is subscribed whenever it has a scheduled scan. A request that the
kernel refuses with anything but `ENODEV` changes nothing and is no step.

`ScanService` is the abstract specification: a scanner is off, idle or scanning,
and the framework waits or not; a granted scan is finished, and who waits is told
in the same step. `Scanner` instantiates it with `phase` computed from the
scanner's life and `scan_started_`, and `waiting` from what the framework
believes while the process runs; `ImplementsScanService` says that every
behaviour of `Scanner`, with the kernel, the queue and the restarts left out, is
one of `ScanService`, its liveness included.

### NetlinkSync

A call draws a sequence number, registers a handler, and polls; the kernel's
reply is cut into datagrams at will; `Timeout` can happen at any time, also with
the reply in the socket, and a late reply is read during a later call. `dump` is
answered in several messages and refused while another dump runs, `info` and
`single` in one; `dump` and `info` are also called with retries, which send the
same packet and number again and append to the same vector. Requests are named
by the count of numbers drawn, so that a number that comes round is told from
its former use.

### ClientLink

The kernel's link and its events against `is_associated_`, `bssid_` and
`associate_freq_`. The link is the supplicant's: it may come, go and roam whether
or not there is an object, a destructor may fail to end it, and it goes on when
the process is restarted with an empty socket. An object asks the kernel for
nothing when it is made; `told` remembers whether there was an event about the
link for it to read. An event may have no BSSID (`Named`); what `bssid_` becomes
then is any value, which `nameless` remembers. `RefreshAssociateFreq` reads the link as it is when the event
is handled, or fails, which `unsure` remembers. The constructor leaves two
members uninitialized: their value is any. `SignalPoll` and `GetPacketCounters`
ask the kernel about the station `bssid_` (`GetStationInfo`); `answer` is what the
framework gets, in the step of the call alone.

### WiphyInfo

One client's `GetWiphyInfo`, from the constructor and from `UpdateBandInfo`. The
kernel describes a wiphy in pieces (limits, each band's capabilities, each
channel, features), cuts them into messages of `chunk` pieces, in which
`Merge` and `MergePacketsForSplitWiphyDump` find them again, and mixes the
wiphys; a retried request may collect two replies, or a reply and an error
message. An attribute is a sequence of values, so that merging is concatenation
and a scalar that was merged has the wrong length, which is what
`GetAttributeValue` sees. Capabilities keep the bytes of their attributes, as the
parser reads bits and 16-bit words from them. `RegChange` may happen between two
messages. The several limits of a scan are one value, since they are read
together. `InList` is the reference definition for `ListOf`: the channels of each
band by their numbers, not by ranges of frequencies.

### MgmtFrame

The one slot for a cookie and a callback, the kernel's transmissions, and what
each frame's sender was told. `Hurry` says what the framework does before it is
called back: send another frame, tear the interface down.

### NetlinkEvents

`Start` step by step, each of which may fail, called by `main` and again by the
constructors of `NetlinkUtils` and `ScanUtils` if it did. Descriptors are numbers,
the lowest free one first, as the kernel assigns them; `requests` and `polled` are
the Looper's table of callbacks and its epoll set, which a closed descriptor
leaves while its callback stays. The asynchronous socket holds datagrams of one
or several messages; a full one drops events, until it has been emptied, and makes
one read fail. `ReceivePacket` reads a datagram into `buffer`, `RunHandler` handles
one message of it, and when the handler sends requests the replies overwrite some
of the buffer, what was not handled yet included (`Garbage`). Handlers are those
of an access point (stations, channel switches) and of the regulatory domain,
which a message without a type may take for any type, since `reg_type` is then
uninitialized. `view` is what the framework was told, `missed` which part of it
the kernel or the buffer lost an event of; a listener that registers when nothing
is on its way knows the kernel's state. A signal posts the exit.

### Nl80211Packet, ScanMessages, InterfaceMessages, Parcels, DataPath

`Nl80211Packet` is the byte layout: an attribute is a sequence of bytes with a
header, a payload and padding; the functions that build, look up, list and merge
attributes walk over these bytes by the lengths they find, as the code does. The
layout is scaled: header and alignment are two bytes, an integer has two bytes,
`LenMod` stands for 2^16.

`ScanMessages` has what `ScannerImpl` derives from the framework's settings and
the wiphy's capabilities, the messages `ScanUtils` builds, and its parsing of
results. `InterfaceMessages` has the lookup of an interface by name
(`SetupInterface`) and the merging of a split dump. `Parcels` gives each
parcelable by its fields, in the order of both of its functions, and reads and
writes words.

`DataPath` composes them: the framework's parcel, cut anywhere, becomes a message
(`HandleScan`, `HandlePno`); the kernel's messages become a parcel
(`getScanResults`, `getDeviceWiphyCapabilities`), or the interface that is set up
(`LookUp`), or a merged dump (`MergePieces`). Each behaviour follows one call. The
properties state what is to arrive in terms of the input, without attributes or
words: they are the reference definitions for the algorithms. `WiphyInfo` has the
merging as well, on pieces instead of bytes, where it looks at the order of
messages; `DataPath` looks at lengths and padding.

## 4. Runs

| Run | Shows |
|---|---|
| `server_any` | Whatever is created and torn down, twice, in both kinds or by the wrong kind: no handler, table, binder or scanner refers to a destroyed object (`NoDanglingHandler`, `TablesOwnObjects`, `PointersFollowLife`), and the regulatory changes of recorded wiphys are heard (`RegChangesHeard`). |
| `server_careful` | With a careful framework, objects keep their subscriptions (`FullySubscribed`); no object's end sets down a device that another client's constructor set up, although any `SetUpState` may fail (`ClientIsUp`); a registered callback hears of the end of every object it heard of as ready (`TornDownAnnounced`); the maps follow the interfaces, and the cached bands are the kernel's once all events are read and no request failed (`MapsFollowInterfaces`, `BandsFresh`). |
| `scanner_any` | In an environment that does everything `Env` allows: `scan_started_` never sticks (`ScanFlagSound`), nor does `pno_scan_started_` while the framework is subscribed (`PnoFlagSound`; without a subscriber the handler leaves that flag alone); a scheduled scan that ends on its own is reported (`PnoDeathReported`); a device that is gone makes wificond restart if the framework keeps scanning (`BadDriverRestarts`); a random MAC address is asked of an associated station only while the event of the association is unread (`RandomMacOnlyUnassociated`); and all of it implements `ScanService`, so that every granted scan is answered (`ImplementsScanService`). |
| `netlink_safe` | A call collects messages of its own reply only, no handler outlives its call, and a first attempt that succeeds has the whole reply in order (`NoCrossTalk`, `HandlersOnStack`, `RepliesComplete`). |
| `link_fresh` | Once all events are read, `is_associated_` says whether there is a link of which the object was told, and `bssid_` is the link's unless its event had none, refused associations, links older than the object or left by a former one, and restarts included (`LinkFresh`); a signal poll is answered for that link, with its frequency unless the last reading of it failed, and never mixes the signal of one access point with the channel of another (`PollDescribesLink`). |
| `wiphy_fresh` | However a description is cut, mixed, repeated or changed while it is sent: once all regulatory events are read and unless the last call failed, `band_info_` has each enabled channel once, in its band's list (`BandInfoFresh`); the limits are never another wiphy's, and no failing update spoils them (`LimitsOwn`); a complete reply is accepted (`CompleteAccepted`). |
| `frame_any` | A sender is told once, of an ACK only if its own frame was acknowledged, and always, unless the framework itself takes the slot away (`ToldOnce`, `AckIsOwn`, `AnsweredUnlessDisplaced`). |
| `events` | However often `Start` fails and is repeated: once started, the present asynchronous socket is watched and a member of all groups, and the synchronous one is never watched (`StartedListens`, `SyncSocketUnwatched`). Events are handled once and in order until one is dropped or overwritten, and those that are left still in order (`HandledOnceInOrder`); when all are handled, the framework's knowledge is the kernel's state unless an event of that part was missed (`FrameworkUpToDate`); events are read also after a failed read (`EventsAreRead`); a signal ends the process (`SignalEndsProcess`). |
| `data_path` | A scan reaches the kernel as asked (`ScanAsAsked`); a scheduled scan keeps within the wiphy's limits and looks where its networks can be (`PnoLooksWhereItMatches`), with plans, if the interval is not negative and the multiplier not 0, that the wiphy supports though the limit may wrap (`PlansSupported`); results arrive complete, in order and with the kernel's values (`ResultsExact`); merging gives the attributes of the whole (`MergeJoins`); the interface that is set up is the one with the name (`InterfaceFound`); a parcel that is cut is refused, scan results in the middle of which two reads are not looked at included (`CutParcelRefused`). |

`RandomMacOnlyUnassociated` makes one exception: a client that is created while
the link is up, because its predecessor or another process left it so, starts
with `is_associated_` false and never hears of that association. `kOlder` records
such a link.

Runs that show a disagreement between the code and what a comment or an
interface file says of it; `PROJECT.json` quotes the lines.

| Run | Disagreement |
|---|---|
| `server_recreate` | A second create for a name leaves the new object without subscriptions and its interface down: the old object's destructor runs after the new one's constructor. |
| `scanner_pno_race` | Stop, then start: the event of the stop is reported as a failure of the new scheduled scan. |
| `netlink_retry` | A retried dump may return messages of both attempts. |

Further disagreements, plain from the source, that the models contain and no run
is spent on:

* `ApInterfaceBinder::getInterfaceName` uses `impl_` without the null check of
  its siblings (`ap_interface_binder.cpp:87`; action `ApGetInterfaceName`).
* A callback stays registered after a torn down event, where
  `IInterfaceEventCallback.aidl:33-34` says that it is unregistered automatically
  (`server.cpp:599`; `BroadcastTornDown` leaves `callbacks` as it is). It therefore
  hears of later interfaces too, on which `TornDownAnnounced` relies.
* An object that is replaced by a second create for its name is destroyed without
  a broadcast, where `IInterfaceEventCallback.aidl:32` has an event for the tear
  down of an interface (`server.cpp:207`; `CreateObject`). `TornDownAnnounced` is
  therefore a property of careful frameworks only.
* `SetUpState`'s result is ignored by the client's constructor, which says "Need
  to set the interface up" (`client_interface_impl.cpp:152-154`), and by every
  destructor: a client may exist with its device down, and a link may outlive its
  client (`gotUp`, `notSetUp`; `DestroyClientInterface`).
* A client that is made while its interface has a link, with no event about it
  left to read, has `is_associated_` false, and so answers no signal poll, until
  the link roams or ends (`client_interface_impl.cpp:117`; `told` in `LinkFresh`).
* An event without a BSSID is accepted as one of a new link, and `bssid_` takes
  the value of memory that nothing wrote, so that a signal poll asks about a
  station of no meaning (`mlme_event.cpp:42-45`; `nameless` in `LinkFresh`).
* With a multiplier of 0, its default (`pno_settings.h:41`), or a negative
  interval, the comparison with the wiphy's limit passes for every interval, and
  plans beyond the limit are sent (`scanner_impl.cpp:501`); an interval below a
  second becomes 0. `PlansSupported` says of such settings only that the number
  of plans and of iterations is one the wiphy takes.
* If the scan results cannot be read while a link event is handled,
  `associate_freq_` keeps the frequency of another link, or no defined value, and
  `signalPoll` returns it as "the association frequency in MHz"
  (`IClientInterface.aidl:38`; `client_interface_impl.cpp:263`; `unsure` in
  `PollDescribesLink`).
* A second `SendMgmtFrame` takes the slot of the first frame, whose callback is
  then never called, where `IClientInterface.aidl:59` says "Callback triggered when
  the transmitted frame is ACKed or the transmission fails" (`handler # f` in
  `AnsweredUnlessDisplaced`).
* A `REG_CHANGE` message without a type is logged as an error and then handled
  with an uninitialized `reg_type` (`netlink_manager.cpp:596`; `OnRegChangeEvent`).
* The result event of another process's scan tells the framework that its own scan
  has ended, and clears `scan_started_`, after which
  `abortScan` ignores wificond's own running scan (`scanner_impl.cpp:463`).
* A 5 GHz channel whose DFS state is `UNAVAILABLE` and that lacks `NO_IR` goes to
  `band_5g`, where `netlink_utils.h:69` says "5 GHz band without DFS"
  (`netlink_utils.cpp:540`; `ListOf`).
* A retried split dump whose two replies are both complete makes `GetWiphyInfo`
  fail, since the merged scalars have twice their length, after `band_info_` was
  given each channel twice (`Parses`, `Parsed`).
* The scanner gets its copy of `scan_capabilities_` in the client's constructor.
  If `GetWiphyInfo` failed there, the copy has no defined value, and no later
  update repairs it (`client_interface_impl.cpp:147`; `Undefined`).

### Bounds

* `InterfaceServer`: two names and two indexes are what two objects need to
  compete for an index or to share a wiphy; three objects, where replacement or
  the order of tear downs matters, let a replaced object's binder stay while two
  others live; two wiphys with exclusive bands make each map entry depend on one interface's life. One
  unread regulatory event (`MaxRegEvents`) suffices, since reading one refreshes
  everything. Names, indexes, objects and callbacks are symmetric, and so are
  the two chips with exclusive bands, each together with its band. `server_careful`
  merges states that no property of the run can tell apart, now or later
  (`CarefulView`), and has one callback, which registers and unregisters at any
  time; that a callback that leaves takes no other's entry with it is proved
  (`EndsHeard`).
* `Scanner`: `MaxEvents` 3 unread events; a vanished device adds three at once,
  and the interesting races need an event of an old scan before one of a new
  scan. A full queue delays kernel steps only.
* `NetlinkSync`: `NumberMod` 4 for 2^32 leaves the numbers 1 to 3, and
  `MaxDrawn` 4 lets them come round. `CanDraw` keeps a reply from being so late
  that its number is in use again, for 2^32 numbers and four seconds a fact.
  `DumpParts` 2 lets a dump be cut. `RetryCount` is 1, as in the code.
* `ClientLink`: two access points, two frequencies, three events: a refused or
  successful association in its two events with one more before or after it. A
  full queue delays kernel steps only.
* `WiphyInfo`: two bands, the second with one of three frequencies at the ends of
  the ranges; `MaxChunk` 2 cuts a band in the middle or joins two bands;
  `MaxCopies` 2 is what one retry can collect; one unread regulatory event, since
  reading one refreshes everything.
* `MgmtFrame`: two frames of the framework and any number of others, three
  unread events.
* `NetlinkEvents`: `QueueLimit` 2 messages and `MaxEvents` 3 events let a datagram
  hold two, a third be dropped, and the queue be emptied after it; `MaxReply` 2
  lets a reply overwrite both. After a repeated `Start`, two events
  (`MaxRetried`): the loop is the same, the question is which socket they come to.
  One station that comes and goes, a channel whose width has a number out of the
  row, the world's domain, and a country in a message without a type, which
  covers the messages with one.
* `DataPath`: the sets of inputs in `MCDataPath` hold the cases at and around each
  limit: intervals that are negative, 0, at, below and beyond a second and the
  limits, multipliers of 0, 1 and more; wiphys with no capability, with room for one network and with an interval
  that wraps; results that are complete or lack one thing; every prefix of every
  parcel; answers with up to three devices; payloads of even and odd length, since
  the alignment is two.

### Fairness

* `WF(ReadEvent)`: the event loop polls its sockets and returns to them after
  each handler, none of which waits for longer than a request's four seconds.
* `SF(ScanEnds)`, `SF(TxStatus(f))`: cfg80211 ends every scan and every
  transmission with an event. Strong only because the models' bound on unread
  events, which the kernel does not have, disables the step at times.
* `NetlinkEvents`: each step of the thread, start-up, reads, handlers, the posted
  task, is fair by itself: the Looper runs what was posted before it handles
  descriptors, and `pollOnce` handles all that are ready. `ScanService`'s
  `WF(Finish)` is what `SF(ScanEnds)` and `WF(ReadEvent)` give.
* `WF(Restart)`: wificond is a service of init, which restarts it.
* `BadDriverRestarts` assumes that the framework keeps asking for scans
  (`WF(ScanNodev)`), within the property.

Restarts of a healthy process, calls of the framework and steps of the kernel
are not fair. The deadlock check is off in two runs: in `events` the process may
have ended, and in `data_path` a behaviour ends with its call.

## 5. Proofs

The theorems hold for every value of the constants that satisfies the named
assumptions of the modules (`ConstantsAssumption`, `ScannerAssumption`,
`NetlinkAssumption`, `LinkAssumption`, `FrameAssumption`, `EventsAssumption`,
`PacketAssumption`, `ScanAssumption`, `WiphyAssumption`, `FrequencyAssumption`),
which say no more than that the constants have the right type, that `None` is not
one of the others, that a modulus is large enough to count with, and that the
frequencies a wiphy lists are those of channels of IEEE 802.11: between them the
ranges that the code compares with are wider than the bands. What a theorem needs of the framework it says itself:
`PnoFlagIsSound` assumes `CarefulPno`; `EndsHeard`, `EventsReachOwners`, `ClientsAreUp`,
`MapsAreTrue` and `BandsAreFresh` assume `CarefulFramework`, the last one also that no two wiphys share a band; the
others hold for any framework. `server_recreate` shows why `CarefulFramework` is
needed.

* `InterfaceServer_proofs`. Inductive invariant: `TypeOK`, `NoDanglingHandler`,
  `TablesOwnObjects`, `PointersFollowLife`, `RegChangesHeard`,
  `KnowersRegistered` and, with a careful framework, `TornDownAnnounced`. They need each other: that a
  destroyed object leaves no handler behind follows from each handler being
  registered at the index and for a kind its object was constructed with, and
  that all destroyed objects are the tables' from ownership; a torn down
  broadcast reaches everyone concerned because only registered callbacks know of
  objects (`KnowersRegistered`), and is for all that end because a careful
  framework replaces none. The steps
  that destroy objects rest on one lemma, `DestroyStep`, and the two creations on
  `CreateStep`, where the old object's destructor runs after the new object's
  subscription.
* `InterfaceServer_proofs`, with a careful framework. A destructor unsubscribes by index and switches off
  by name, so `FullySubscribed` and `ClientIsUp`, the latter of the clients whose
  constructor set the device up, need that no two live objects
  share either: `OneKind` (a name has one interface), `DistinctIndexes`
  and `IndexesOwn` (an index an object remembers is one device's, and while that
  device is there it has the object's name), `DeviceWiphy`. `MapsFollowInterfaces`
  is inductive beside them. `BandsFresh` rests on `BandsPossible`: what is cached
  for a wiphy are bands of its hardware, so that a refresh of one wiphy cannot
  take a band away from another.
* `NetlinkSync_proofs`. `HandlersOnStack` and `NotBroadcast`, with `NamesOK` for
  what the arithmetic of `GetSequenceNumber` needs. The argument is that every
  way out of a call erases the handler of the call's number, and that there is
  no other. For `NoCrossTalk`, `TalkInv` says of every message that is still on
  its way that it has the number its request was given, counted back from the
  present one (`InTime`): two requests less than a round apart have different
  numbers, so a message with the number of the call is of the call. That no
  reply is late by a whole round of 2^32 numbers is `CanDraw`, a guard of the model.
  `RepliesComplete` needs to know where the messages of the reply are: `WholeInv`
  says that those collected are the beginning of it, that its datagrams in the
  socket, among those of late replies, continue it one after the other, and that
  what the kernel has still to send is the end (`Stream`).
* `Scanner_proofs`. The flags are compared with the kernel through the unread
  events: `ScanFlagSound` is inductive with the types alone; `PnoFlagSound` needs
  that a framework which stays subscribed has the handler (`PnoSubscribed`);
  `RandomMacOnlyUnassociated` needs that the last unread event about an
  association tells of its beginning (`LastMlmeIsConnect`, `AssociationKnown`).
  `ScannerIsService` is the refinement of `ScanService` without its fairness: every
  step of `Scanner` is a step of the service or leaves its state alone, for which
  a waiting framework must have a subscribed scanner with a granted scan
  (`WaitingIsGranted`).
* `ClientLink_proofs`. Of the unread events, the last one that sets the
  association, and the last one that sets the frequency, agree with the kernel's
  link (`LastLinkEventTrue`, `LastFreqEventTrue`), and if there is none, what the
  object remembers does (`LinkKnown`, `FreqKnown`), if it was told of the link: an
  unread event about the link is one it will be told of (`UnreadIsTold`). With an empty queue that is
  `LinkFresh`; `PollDescribesLink` follows because an answer is dropped as soon as
  the link changes.
* `NetlinkEvents_proofs`. `StartInv` follows the descriptors through the at most
  three calls of `Start`: which are open, which the Looper has a callback for, and
  that a descriptor it would watch again is never the synchronous one.
  `EventInv` is the argument of `ClientLink` for messages that lie in datagrams: of
  those that wait, in the buffer that is being walked through or in the queue, the
  last about each subject is true (`LastIsSo`), and about a subject of which none
  waits the framework knows the truth (`Known`), unless an event of that part was
  missed or a message overwritten. `OrderInv` numbers the messages: those handled
  are in order, those that wait come later and in order, and none is missing
  between them unless one was lost, which gives `HandledOnceInOrder`.
* `WiphyInfo_proofs`. The steps of a dump follow one another to its end
  (`Linked`), so what is merged of the messages about the own wiphy is the
  beginning of one description (`Once`) or has the limits of two (`Twice`): a
  complete reply is a whole description or fails to parse, but never a mixture
  that parses. With no unread event the pieces are those of the present channels,
  which makes `BandInfoFresh` inductive. What the folds of the module compute
  (`Merge`, `OwnPackets`, `Select`, `FlattenSeq`) is proved for sequences of any
  length, by an induction over sets of numbers (`SetInduction`) that has no
  operator as a parameter. `RightList` says that the comparisons of the code
  (`ListOf`) agree with the channel numbers (`InList`).
* `PacketData_proofs`. Facts about operators, for all bytes and lengths: an
  attribute reads back what it was made of; `Merge` joins payloads; a nested
  attribute holds what is added to it (each if the length fits `nla_len`); the
  plans of a scheduled scan are within the wiphy's limits although the limit may
  wrap, for a multiplier of at least 1. The loops over the networks are proved
  whole, for any number of networks, by the induction of `WiphyInfo_proofs`:
  `ParsePnoSettings`' keeps the limits, matches nothing it does not look for and
  leaves a network out only for want of room; `scanRequest`'s takes the wild card
  and then the first hidden networks that are not too long. That the sorted
  sequence of frequencies `ParsePnoSettings` returns has the elements of the
  loop's set (`SetToSortSeq`) is only model-checked.
* `MgmtFrame_proofs`. `AckIsOwn` and `ToldOnce`, strengthened by `SlotSound`:
  while a frame is in progress, the cookie and the callback are of the same
  frame, whose sender waits.

Only model-checked:

* all liveness (`PnoDeathReported`, `BadDriverRestarts`, `AnsweredUnlessDisplaced`,
  `EventsAreRead`, `SignalEndsProcess`) and the fairness in
  `ImplementsScanService`, which are beyond the prover;
* the properties of `DataPath`: its parcels are written by RECURSIVE operators,
  which the prover cannot have in reach. `PacketData_proofs` proves facts about
  the operators under it, and what the loops over the networks collect.

## 6. Not modelled

* Requests that only read the Server's own state (`GetClientInterfaces`, `dump`)
  and the logging: their outcome is not stored. `SetInterfaceMode` and `GetProtocolFeatures` are known by their
  outcome alone.
* The message header of a packet (`nlmsghdr`, `genlmsghdr`): type, command, flags
  and number are fields of a record; `IsValid` of a whole packet is where
  `MeetGarbage` begins.
* Parcels that are malformed otherwise than by being cut or by a null list.
* A scan result without `NL80211_ATTR_BSS`, which the kernel does not send, and
  signal thresholds more than 127 dB apart, which the framework does not use.
* Flags of `Scanner`, `ClientLink` and `MgmtFrame` after an event was dropped: the
  code only logs the loss, and these modules assume that none is lost.
  `NetlinkEvents` has the loss itself.
* The keystore HAL connector: another service in the same process, which shares
  no state.
