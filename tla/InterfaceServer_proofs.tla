----------------------- MODULE InterfaceServer_proofs -----------------------
(***************************************************************************)
(* Proofs about InterfaceServer, for any set of names, wiphys, objects and *)
(* callbacks, and for a careful and a careless framework alike.            *)
(*                                                                         *)
(* That no handler dangles is not inductive by itself: a destructor only   *)
(* removes the handlers at its own interface index, so one needs that each *)
(* registered object sits at its own index and kind, and that the objects  *)
(* the tables give up are the only ones to die.  IInv says both.  That a   *)
(* callback hears of every end needs that only registered ones know of     *)
(* interfaces, since a broadcast goes to the registered.                   *)
(***************************************************************************)
EXTENDS InterfaceServer, SequenceTheorems, TLAPS

\* Only a registered callback knows of interfaces.
KnowersRegistered ==
    \A c \in Callbacks : known[c] # {} => c \in Range(callbacks)

\* Under a careful framework nothing is replaced, and every end is announced.
CarefullyAnnounced == CarefulFramework => TornDownAnnounced

\* The inductive invariant.
IInv ==
    /\ TypeOK
    /\ NoDanglingHandler
    /\ TablesOwnObjects
    /\ PointersFollowLife
    /\ RegChangesHeard
    /\ KnowersRegistered
    /\ CarefullyAnnounced

-----------------------------------------------------------------------------
(***************************************************************************)
(* Lemmas on the helpers                                                   *)
(***************************************************************************)

\* Erasing the first entry that is c leaves a list of callbacks.
LEMMA EraseType ==
    ASSUME NEW s \in Seq(Callbacks), NEW i \in DOMAIN s
    PROVE  SubSeq(s, 1, i - 1) \o SubSeq(s, i + 1, Len(s)) \in Seq(Callbacks)
<1>1. /\ i \in 1..Len(s)
      /\ Len(s) \in Nat
      /\ \A j \in 1..Len(s) : s[j] \in Callbacks
  OBVIOUS
<1>2. SubSeq(s, 1, i - 1) \in Seq(Callbacks)
  <2>1. \A j \in 1..(i - 1) : s[j] \in Callbacks
    BY <1>1
  <2>2. 1 \in Int /\ i - 1 \in Int
    BY <1>1
  <2>3. QED
    BY <2>1, <2>2, SubSeqProperties
<1>3. SubSeq(s, i + 1, Len(s)) \in Seq(Callbacks)
  <2>1. \A j \in (i + 1)..Len(s) : s[j] \in Callbacks
    BY <1>1
  <2>2. i + 1 \in Int /\ Len(s) \in Int
    BY <1>1
  <2>3. QED
    BY <2>1, <2>2, SubSeqProperties
<1>4. QED
  BY <1>2, <1>3, ConcatProperties

\* It leaves the other callbacks in the list.
LEMMA EraseKeeps ==
    ASSUME NEW s \in Seq(Callbacks), NEW i \in DOMAIN s, NEW d \in Range(s),
           d # s[i]
    PROVE  d \in Range(SubSeq(s, 1, i - 1) \o SubSeq(s, i + 1, Len(s)))
<1> DEFINE a == SubSeq(s, 1, i - 1)
           b == SubSeq(s, i + 1, Len(s))
<1>1. i \in 1..Len(s) /\ Len(s) \in Nat
  OBVIOUS
<1>2. PICK j \in 1..Len(s) : s[j] = d /\ j # i
  BY DEF Range
<1>3. /\ a \in Seq(Callbacks)
      /\ Len(a) = i - 1
      /\ \A k \in 1..(i - 1) : a[k] = s[k]
  <2>1. \A k \in 1..(i - 1) : s[k] \in Callbacks
    BY <1>1
  <2>2. 1 \in Int /\ i - 1 \in Int
    BY <1>1
  <2>3. QED
    BY <1>1, <2>1, <2>2, SubSeqProperties
<1>4. /\ b \in Seq(Callbacks)
      /\ Len(b) = Len(s) - i
      /\ \A k \in 1..(Len(s) - i) : b[k] = s[i + k]
  <2>1. \A k \in (i + 1)..Len(s) : s[k] \in Callbacks
    BY <1>1
  <2>2. i + 1 \in Int /\ Len(s) \in Int
    BY <1>1
  <2>3. QED
    BY <1>1, <2>1, <2>2, SubSeqProperties
<1> HIDE DEF a, b
<1>5. PICK t \in Seq(Callbacks) :
          /\ t = a \o b
          /\ Len(t) = (i - 1) + (Len(s) - i)
          /\ \A k \in 1..((i - 1) + (Len(s) - i)) :
                t[k] = IF k <= i - 1 THEN a[k] ELSE b[k - (i - 1)]
  <2>1. /\ a \o b \in Seq(Callbacks)
        /\ Len(a \o b) = Len(a) + Len(b)
        /\ \A k \in 1..(Len(a) + Len(b)) :
              (a \o b)[k] = IF k <= Len(a) THEN a[k] ELSE b[k - Len(a)]
    BY <1>3, <1>4, ConcatProperties, Zenon
  <2>2. Len(a) = i - 1 /\ Len(b) = Len(s) - i
    BY <1>3, <1>4
  <2>3. QED
    BY <2>1, <2>2, Zenon
<1>6. PICK k \in 1..Len(t) : t[k] = d
  <2>1. CASE j < i
    <3>1. j \in 1..((i - 1) + (Len(s) - i)) /\ j <= i - 1
      BY <1>1, <1>2, <2>1
    <3>2. t[j] = s[j]
      BY <1>3, <1>5, <3>1
    <3>3. QED
      BY <1>2, <1>5, <3>1, <3>2
  <2>2. CASE j > i
    <3>1. /\ j - 1 \in 1..((i - 1) + (Len(s) - i))
          /\ ~(j - 1 <= i - 1)
          /\ (j - 1) - (i - 1) = j - i
          /\ j - i \in 1..(Len(s) - i)
          /\ i + (j - i) = j
      BY <1>1, <1>2, <2>2
    <3>2. t[j - 1] = b[j - i]
      BY <1>5, <3>1
    <3>3. b[j - i] = s[j]
      BY <1>4, <3>1
    <3>4. QED
      BY <1>2, <1>5, <3>1, <3>2, <3>3
  <2>3. QED
    BY <1>1, <1>2, <2>1, <2>2
<1>7. k \in DOMAIN t
  BY <1>5
<1>8. d \in Range(t)
  BY <1>6, <1>7 DEF Range
<1>9. QED
  BY <1>5, <1>8 DEF a, b

\* The maps of bands keep their type.
LEMMA BandMapType ==
    ASSUME NEW map \in [Bands -> Wiphys \cup {None}], NEW ws
    PROVE  /\ UpdateBandWiphyIndexMap(map, ws) \subseteq
                  [Bands -> Wiphys \cup {None}]
           /\ EraseBandWiphyIndexMap(map, ws) \in [Bands -> Wiphys \cup {None}]
BY DEF UpdateBandWiphyIndexMap, EraseBandWiphyIndexMap

\* The invariant holds initially.
LEMMA InitIInv == Init => IInv
<1> SUFFICES ASSUME Init PROVE IInv
  OBVIOUS
<1>1. TypeOK
  <2> USE ConstantsAssumption DEF Init, ConstantsAssumption
  <2>1. /\ netdev \in [Ifaces -> Netdev \cup {None}]
        /\ up \in [Ifaces -> BOOLEAN]
        /\ wiphyBands \in [Wiphys -> SUBSET Bands]
    OBVIOUS
  <2>2. regEvents \in 0..MaxRegEvents
    OBVIOUS
  <2>3. /\ clientIfs \in [Ifaces -> Objs \cup {None}]
        /\ apIfs \in [Ifaces -> Objs \cup {None}]
        /\ ifaceWiphy \in [Ifaces -> Wiphys \cup {None}]
        /\ bandWiphy \in [Bands -> Wiphys \cup {None}]
        /\ callbacks \in Seq(Callbacks)
    OBVIOUS
  <2>4. /\ obj \in [Objs -> ObjInfo \cup {None}]
        /\ bandInfo \in [Objs -> SUBSET Bands]
        /\ notSetUp \in SUBSET Objs
        /\ handlers \in [HandlerKinds -> [IfIndexes -> Objs \cup {None}]]
        /\ known \in [Callbacks -> SUBSET Objs]
        /\ crashed \in BOOLEAN
    OBVIOUS
  <2>5. QED
    BY <2>1, <2>2, <2>3, <2>4 DEF TypeOK
<1>2. NoDanglingHandler
  BY DEF Init, NoDanglingHandler
<1>3. TablesOwnObjects /\ PointersFollowLife /\ RegChangesHeard
  BY DEF Init, TablesOwnObjects, PointersFollowLife, RegChangesHeard
<1>4. KnowersRegistered /\ CarefullyAnnounced
  BY DEF Init, KnowersRegistered, CarefullyAnnounced, TornDownAnnounced
<1>5. QED
  BY <1>1, <1>2, <1>3, <1>4 DEF IInv

-----------------------------------------------------------------------------
(***************************************************************************)
(* Every action preserves the invariant                                    *)
(***************************************************************************)

\* RegisterCallback and UnregisterCallback touch the list of callbacks and
\* what the framework learned from them.
LEMMA CallbackSteps ==
    ASSUME IInv, NEW c \in Callbacks,
           RegisterCallback(c) \/ UnregisterCallback(c)
    PROVE  IInv'
<1> USE DEF IInv
<1>1. callbacks' \in Seq(Callbacks) /\ known' \in [Callbacks -> SUBSET Objs]
  <2>1. CASE RegisterCallback(c)
    BY <2>1 DEF RegisterCallback, TypeOK
  <2>2. CASE UnregisterCallback(c)
    <3>1. callbacks' \in Seq(Callbacks)
      BY <2>2, EraseType DEF UnregisterCallback, TypeOK
    <3>2. known' \in [Callbacks -> SUBSET Objs]
      BY <2>2 DEF UnregisterCallback, TypeOK
    <3>3. QED
      BY <3>1, <3>2
  <2>3. QED
    BY <2>1, <2>2
<1>2. UNCHANGED <<kernelVars, clientIfs, apIfs, mapVars, objVars, handlers,
                  regSubs, crashed, staleClients, missedWiphys>>
  BY DEF RegisterCallback, UnregisterCallback
<1>3. TypeOK'
  BY <1>1, <1>2 DEF TypeOK, kernelVars, mapVars, objVars
<1>4. NoDanglingHandler' /\ TablesOwnObjects'
  BY <1>2 DEF NoDanglingHandler, TablesOwnObjects, objVars
<1>5. PointersFollowLife' /\ RegChangesHeard'
  BY <1>2 DEF PointersFollowLife, RegChangesHeard, objVars, mapVars
<1>6. KnowersRegistered'
  <2>1. CASE RegisterCallback(c)
    <3>1. Range(callbacks) \subseteq Range(callbacks')
      BY <2>1, SMTT(30) DEF RegisterCallback, Range, TypeOK
    <3>2. QED
      BY <2>1, <3>1 DEF RegisterCallback, KnowersRegistered
  <2>2. CASE UnregisterCallback(c)
    <3>1. PICK i \in DOMAIN callbacks :
              /\ callbacks[i] = c
              /\ callbacks' = SubSeq(callbacks, 1, i - 1)
                              \o SubSeq(callbacks, i + 1, Len(callbacks))
      BY <2>2 DEF UnregisterCallback
    <3>2. callbacks \in Seq(Callbacks)
      BY DEF TypeOK
    <3>3. ASSUME NEW d \in Callbacks, known'[d] # {}
          PROVE  d \in Range(callbacks')
      <4>1. d # c /\ known[d] # {}
        BY <2>2, <3>3 DEF UnregisterCallback, TypeOK
      <4>2. d \in Range(callbacks)
        BY <4>1 DEF KnowersRegistered
      <4>3. QED
        BY <3>1, <3>2, <4>1, <4>2, EraseKeeps
    <3>4. QED
      BY <3>3 DEF KnowersRegistered
  <2>3. QED
    BY <2>1, <2>2
<1>7. CarefullyAnnounced'
  <2>1. \A d \in Callbacks : known'[d] \subseteq known[d]
    BY DEF RegisterCallback, UnregisterCallback, TypeOK
  <2>2. QED
    BY <1>2, <2>1 DEF CarefullyAnnounced, TornDownAnnounced, objVars
<1>8. QED
  BY <1>3, <1>4, <1>5, <1>6, <1>7

\* A failed SetupInterface adds at most a subscription to regulatory changes.
LEMMA SetupFailsStep ==
    ASSUME IInv, NEW n \in Ifaces, SetupInterfaceFails(n)
    PROVE  IInv'
<1> USE DEF IInv
<1>1. UNCHANGED <<kernelVars, clientIfs, apIfs, mapVars, callbacks, objVars,
                  handlers, crashed, known, staleClients, missedWiphys>>
  BY DEF SetupInterfaceFails
<1>2. regSubs \subseteq regSubs' /\ regSubs' \subseteq Wiphys
  BY DEF SetupInterfaceFails, TypeOK, Netdev
<1>3. TypeOK'
  BY <1>1, <1>2 DEF TypeOK, kernelVars, mapVars, objVars
<1>4. NoDanglingHandler' /\ TablesOwnObjects'
  BY <1>1 DEF NoDanglingHandler, TablesOwnObjects, objVars
<1>5. PointersFollowLife' /\ RegChangesHeard'
  BY <1>1, <1>2 DEF PointersFollowLife, RegChangesHeard, objVars, mapVars
<1>6. KnowersRegistered' /\ CarefullyAnnounced'
  BY <1>1 DEF KnowersRegistered, CarefullyAnnounced, TornDownAnnounced, objVars
<1>7. QED
  BY <1>3, <1>4, <1>5, <1>6

\* Destroying a set of objects that the tables give up in the same step.
LEMMA DestroyStep ==
    ASSUME IInv, NEW dying \in SUBSET live, Destroy(dying),
           clientIfs' \in [Ifaces -> Objs \cup {None}],
           apIfs' \in [Ifaces -> Objs \cup {None}],
           \A n \in Ifaces :
              /\ clientIfs'[n] = IF clientIfs[n] \in dying THEN None
                                 ELSE clientIfs[n]
              /\ apIfs'[n] = IF apIfs[n] \in dying THEN None ELSE apIfs[n]
    PROVE  /\ NoDanglingHandler'
           /\ TablesOwnObjects'
           /\ PointersFollowLife'
           /\ obj' \in [Objs -> ObjInfo \cup {None}]
           /\ live' \in SUBSET Objs
           /\ impl' \in SUBSET Objs
           /\ scannerValid' \in SUBSET Objs
           /\ bandInfo' \in [Objs -> SUBSET Bands]
           /\ handlers' \in [HandlerKinds -> [IfIndexes -> Objs \cup {None}]]
           /\ staleClients' \in SUBSET Objs
           /\ notSetUp' \in SUBSET Objs
<1> USE DEF IInv
<1>1. /\ handlers' \in [HandlerKinds -> [IfIndexes -> Objs \cup {None}]]
      /\ \A k \in HandlerKinds, i \in IfIndexes :
            handlers'[k][i] =
              IF \E o \in dying : k \in KindsOf(obj[o].kind) /\ obj[o].idx = i
              THEN None ELSE handlers[k][i]
  BY DEF Destroy, Unsubscribe, TypeOK
<1>2. /\ UNCHANGED <<obj, bandInfo>>
      /\ live' = live \ dying
      /\ impl' = impl \ dying
      /\ scannerValid' = scannerValid \ dying
      /\ staleClients' = staleClients \ dying
      /\ notSetUp' = notSetUp \ dying
  BY DEF Destroy
<1>3. NoDanglingHandler'
  <2> SUFFICES ASSUME NEW k \in HandlerKinds, NEW i \in IfIndexes,
                      handlers'[k][i] # None
               PROVE  /\ handlers'[k][i] \in live'
                      /\ obj'[handlers'[k][i]] # None
                      /\ obj'[handlers'[k][i]].idx = i
                      /\ k \in KindsOf(obj'[handlers'[k][i]].kind)
    BY DEF NoDanglingHandler
  <2>1. handlers'[k][i] = handlers[k][i]
    BY <1>1
  <2>2. handlers[k][i] \notin dying
    BY <1>1, <2>1 DEF NoDanglingHandler
  <2>3. QED
    BY <1>2, <2>1, <2>2 DEF NoDanglingHandler
<1>4. TablesOwnObjects'
  <2>1. ASSUME NEW n \in Ifaces
        PROVE  /\ clientIfs'[n] # None =>
                    /\ clientIfs'[n] \in live'
                    /\ obj'[clientIfs'[n]] # None
                    /\ obj'[clientIfs'[n]].kind = "client"
                    /\ obj'[clientIfs'[n]].name = n
               /\ apIfs'[n] # None =>
                    /\ apIfs'[n] \in live'
                    /\ obj'[apIfs'[n]] # None
                    /\ obj'[apIfs'[n]].kind = "ap"
                    /\ obj'[apIfs'[n]].name = n
    BY <1>2 DEF TablesOwnObjects
  <2>2. ASSUME NEW o \in live'
        PROVE  /\ obj'[o] # None
               /\ o \in {clientIfs'[obj'[o].name], apIfs'[obj'[o].name]}
    <3>1. o \in live /\ o \notin dying
      BY <1>2
    <3>2. obj[o] \in ObjInfo /\ obj[o].name \in Ifaces
      BY <3>1 DEF TablesOwnObjects, TypeOK, ObjInfo
    <3>3. QED
      BY <1>2, <3>1, <3>2 DEF TablesOwnObjects
  <2>3. QED
    BY <2>1, <2>2 DEF TablesOwnObjects
<1>5. PointersFollowLife'
  BY <1>2 DEF PointersFollowLife
<1>6. QED
  BY <1>1, <1>2, <1>3, <1>4, <1>5 DEF TypeOK

\* Forgetting a name's wiphy only shrinks the map of names.
LEMMA ForgetStep ==
    ASSUME TypeOK, RegChangesHeard, NEW n \in Ifaces, ForgetWiphy(n),
           UNCHANGED regSubs
    PROVE  /\ ifaceWiphy' \in [Ifaces -> Wiphys \cup {None}]
           /\ bandWiphy' \in [Bands -> Wiphys \cup {None}]
           /\ RegChangesHeard'
<1>1. ifaceWiphy' = [ifaceWiphy EXCEPT ![n] = None]
  BY DEF ForgetWiphy
<1>2. bandWiphy' \in [Bands -> Wiphys \cup {None}]
  BY BandMapType DEF ForgetWiphy, TypeOK
<1>3. QED
  BY <1>1, <1>2 DEF TypeOK, RegChangesHeard

\* What a ready broadcast tells the callbacks of is an object.
LEMMA BroadcastType ==
    ASSUME TypeOK, NEW o \in Objs
    PROVE  BroadcastReady(o) \in [Callbacks -> SUBSET Objs]
BY DEF BroadcastReady, TypeOK

\* A torn down broadcast only takes from what callbacks know.
LEMMA TornDownType ==
    ASSUME TypeOK, NEW dying
    PROVE  BroadcastTornDown(dying) \in [Callbacks -> SUBSET Objs]
BY DEF BroadcastTornDown, TypeOK

\* A broadcast for all the objects that are destroyed reaches everyone who
\* knew of them.
LEMMA TornDownHeard ==
    ASSUME IInv, NEW dying,
           known' = BroadcastTornDown(dying),
           live' = live \ dying,
           UNCHANGED callbacks
    PROVE  KnowersRegistered' /\ CarefullyAnnounced'
<1>1. \A c \in Callbacks : known'[c] \subseteq known[c]
  BY DEF BroadcastTornDown, IInv, TypeOK
<1>2. KnowersRegistered'
  BY <1>1 DEF KnowersRegistered, IInv
<1>3. ASSUME CarefulFramework, NEW c \in Callbacks, NEW o \in known'[c]
      PROVE  o \in live'
  <2>1. c \in Range(callbacks)
    BY <1>1, <1>3 DEF KnowersRegistered, IInv
  <2>2. known'[c] = known[c] \ dying
    BY <2>1 DEF BroadcastTornDown
  <2>3. known[c] \subseteq live
    BY <1>3 DEF IInv, CarefullyAnnounced, TornDownAnnounced
  <2>4. QED
    BY <1>3, <2>2, <2>3
<1>4. QED
  BY <1>2, <1>3 DEF CarefullyAnnounced, TornDownAnnounced

\* tearDownClientInterface destroys the client its table holds for the name, if
\* any, and forgets the name's wiphy.
LEMMA TearDownClientStep ==
    ASSUME IInv, NEW n \in Ifaces, tearDownClientInterface(n)
    PROVE  IInv'
<1> DEFINE dying == Found(clientIfs, n)
<1>1. /\ dying \in SUBSET live
      /\ Destroy(dying)
      /\ ForgetWiphy(n)
      /\ known' = BroadcastTornDown(dying)
      /\ up' \in SetDown(up, dying)
      /\ UNCHANGED <<netdev, wiphyBands, regEvents, apIfs, callbacks,
                     regSubs, crashed, missedWiphys>>
  BY DEF tearDownClientInterface, Found, IInv, TablesOwnObjects
<1>2. /\ clientIfs' \in [Ifaces -> Objs \cup {None}]
      /\ apIfs' \in [Ifaces -> Objs \cup {None}]
      /\ \A m \in Ifaces :
            /\ clientIfs'[m] = IF clientIfs[m] \in dying THEN None
                               ELSE clientIfs[m]
            /\ apIfs'[m] = IF apIfs[m] \in dying THEN None ELSE apIfs[m]
  <2>1. clientIfs' = [clientIfs EXCEPT ![n] = None] /\ apIfs' = apIfs
    BY DEF tearDownClientInterface
  <2>2. ASSUME NEW m \in Ifaces, clientIfs[m] \in dying PROVE m = n
    BY <2>2 DEF Found, IInv, TablesOwnObjects
  <2>3. \A m \in Ifaces : apIfs[m] \notin dying
    BY DEF Found, IInv, TablesOwnObjects
  <2>4. QED
    BY <2>1, <2>2, <2>3 DEF Found, IInv, TypeOK
<1> HIDE DEF dying
<1>3. /\ NoDanglingHandler'
      /\ TablesOwnObjects'
      /\ PointersFollowLife'
      /\ obj' \in [Objs -> ObjInfo \cup {None}]
      /\ live' \in SUBSET Objs
      /\ impl' \in SUBSET Objs
      /\ scannerValid' \in SUBSET Objs
      /\ bandInfo' \in [Objs -> SUBSET Bands]
      /\ handlers' \in [HandlerKinds -> [IfIndexes -> Objs \cup {None}]]
      /\ staleClients' \in SUBSET Objs
      /\ notSetUp' \in SUBSET Objs
  BY <1>1, <1>2, DestroyStep
<1>4. /\ ifaceWiphy' \in [Ifaces -> Wiphys \cup {None}]
      /\ bandWiphy' \in [Bands -> Wiphys \cup {None}]
      /\ RegChangesHeard'
  BY <1>1, ForgetStep DEF IInv
<1>5. known' \in [Callbacks -> SUBSET Objs] /\ up' \in [Ifaces -> BOOLEAN]
  BY <1>1, TornDownType DEF IInv, SetDown, SetUpStateFalse
<1>6. TypeOK'
  BY <1>1, <1>2, <1>3, <1>4, <1>5 DEF IInv, TypeOK
<1>7. KnowersRegistered' /\ CarefullyAnnounced'
  BY <1>1, TornDownHeard DEF Destroy
<1>8. QED
  BY <1>3, <1>4, <1>6, <1>7 DEF IInv

\* tearDownApInterface does the same with the other table.
LEMMA TearDownApStep ==
    ASSUME IInv, NEW n \in Ifaces, tearDownApInterface(n)
    PROVE  IInv'
<1> DEFINE dying == Found(apIfs, n)
<1>1. /\ dying \in SUBSET live
      /\ Destroy(dying)
      /\ ForgetWiphy(n)
      /\ known' = BroadcastTornDown(dying)
      /\ up' \in SetDown(up, dying)
      /\ UNCHANGED <<netdev, wiphyBands, regEvents, clientIfs, callbacks,
                     regSubs, crashed, missedWiphys>>
  BY DEF tearDownApInterface, Found, IInv, TablesOwnObjects
<1>2. /\ clientIfs' \in [Ifaces -> Objs \cup {None}]
      /\ apIfs' \in [Ifaces -> Objs \cup {None}]
      /\ \A m \in Ifaces :
            /\ clientIfs'[m] = IF clientIfs[m] \in dying THEN None
                               ELSE clientIfs[m]
            /\ apIfs'[m] = IF apIfs[m] \in dying THEN None ELSE apIfs[m]
  <2>1. apIfs' = [apIfs EXCEPT ![n] = None] /\ clientIfs' = clientIfs
    BY DEF tearDownApInterface
  <2>2. ASSUME NEW m \in Ifaces, apIfs[m] \in dying PROVE m = n
    BY <2>2 DEF Found, IInv, TablesOwnObjects
  <2>3. \A m \in Ifaces : clientIfs[m] \notin dying
    BY DEF Found, IInv, TablesOwnObjects
  <2>4. QED
    BY <2>1, <2>2, <2>3 DEF Found, IInv, TypeOK
<1> HIDE DEF dying
<1>3. /\ NoDanglingHandler'
      /\ TablesOwnObjects'
      /\ PointersFollowLife'
      /\ obj' \in [Objs -> ObjInfo \cup {None}]
      /\ live' \in SUBSET Objs
      /\ impl' \in SUBSET Objs
      /\ scannerValid' \in SUBSET Objs
      /\ bandInfo' \in [Objs -> SUBSET Bands]
      /\ handlers' \in [HandlerKinds -> [IfIndexes -> Objs \cup {None}]]
      /\ staleClients' \in SUBSET Objs
      /\ notSetUp' \in SUBSET Objs
  BY <1>1, <1>2, DestroyStep
<1>4. /\ ifaceWiphy' \in [Ifaces -> Wiphys \cup {None}]
      /\ bandWiphy' \in [Bands -> Wiphys \cup {None}]
      /\ RegChangesHeard'
  BY <1>1, ForgetStep DEF IInv
<1>5. known' \in [Callbacks -> SUBSET Objs] /\ up' \in [Ifaces -> BOOLEAN]
  BY <1>1, TornDownType DEF IInv, SetDown, SetUpStateFalse
<1>6. TypeOK'
  BY <1>1, <1>2, <1>3, <1>4, <1>5 DEF IInv, TypeOK
<1>7. KnowersRegistered' /\ CarefullyAnnounced'
  BY <1>1, TornDownHeard DEF Destroy
<1>8. QED
  BY <1>3, <1>4, <1>6, <1>7 DEF IInv

\* tearDownInterfaces empties both tables and unsubscribes every wiphy that a
\* name was mapped to.
LEMMA TearDownAllStep ==
    ASSUME IInv, tearDownInterfaces
    PROVE  IInv'
<1> DEFINE dying == (Range(clientIfs) \cup Range(apIfs)) \ {None}
           ws == Range(ifaceWiphy) \ {None}
<1>1. /\ Destroy(dying)
      /\ known' = BroadcastTornDown(dying)
      /\ \E u \in SetDown(up, dying) : up' \in MarkDownAllInterfaces(u)
      /\ bandWiphy' = EraseBandWiphyIndexMap(bandWiphy, ws)
      /\ ifaceWiphy' = [n \in Ifaces |-> None]
      /\ regSubs' = regSubs \ ws
      /\ UNCHANGED <<netdev, wiphyBands, regEvents, callbacks, crashed,
                     missedWiphys>>
  BY DEF tearDownInterfaces
<1>2. dying \in SUBSET live
  BY DEF Range, IInv, TablesOwnObjects, TypeOK
<1>3. /\ clientIfs' \in [Ifaces -> Objs \cup {None}]
      /\ apIfs' \in [Ifaces -> Objs \cup {None}]
      /\ \A m \in Ifaces :
            /\ clientIfs'[m] = IF clientIfs[m] \in dying THEN None
                               ELSE clientIfs[m]
            /\ apIfs'[m] = IF apIfs[m] \in dying THEN None ELSE apIfs[m]
  BY DEF tearDownInterfaces, Range, IInv, TypeOK
<1> HIDE DEF dying, ws
<1>4. /\ NoDanglingHandler'
      /\ TablesOwnObjects'
      /\ PointersFollowLife'
      /\ obj' \in [Objs -> ObjInfo \cup {None}]
      /\ live' \in SUBSET Objs
      /\ impl' \in SUBSET Objs
      /\ scannerValid' \in SUBSET Objs
      /\ bandInfo' \in [Objs -> SUBSET Bands]
      /\ handlers' \in [HandlerKinds -> [IfIndexes -> Objs \cup {None}]]
      /\ staleClients' \in SUBSET Objs
      /\ notSetUp' \in SUBSET Objs
  BY <1>1, <1>2, <1>3, DestroyStep
<1>5. /\ ifaceWiphy' \in [Ifaces -> Wiphys \cup {None}]
      /\ bandWiphy' \in [Bands -> Wiphys \cup {None}]
      /\ regSubs' \in SUBSET Wiphys
      /\ RegChangesHeard'
  BY <1>1, BandMapType DEF IInv, TypeOK, RegChangesHeard
<1>6. known' \in [Callbacks -> SUBSET Objs]
  BY <1>1, TornDownType DEF IInv
<1>7. up' \in [Ifaces -> BOOLEAN]
  BY <1>1 DEF MarkDownAllInterfaces, SetUpStateFalse
<1>8. TypeOK'
  BY <1>1, <1>3, <1>4, <1>5, <1>6, <1>7 DEF IInv, TypeOK
<1>9. KnowersRegistered' /\ CarefullyAnnounced'
  BY <1>1, TornDownHeard DEF Destroy
<1>10. QED
  BY <1>4, <1>5, <1>8, <1>9 DEF IInv

\* The step both create calls share: the new object takes over the name's
\* entry in its table, and the object the entry held before is destroyed.
LEMMA CreateStep ==
    ASSUME IInv, NEW kind \in {"client", "ap"}, NEW n \in Ifaces,
           NEW o \in Objs, NEW gotInfo \in BOOLEAN, NEW gotUp \in BOOLEAN,
           NEW gotBands \in BOOLEAN, NEW replaced,
           CarefulFramework => replaced = {}, netdev[n] # None, obj[o] = None,
           replaced = Found(IF kind = "client" THEN clientIfs ELSE apIfs, n),
           CreateObject(kind, n, o, replaced, gotInfo, gotUp, gotBands),
           clientIfs' = IF kind = "client" THEN [clientIfs EXCEPT ![n] = o]
                                           ELSE clientIfs,
           apIfs' = IF kind = "ap" THEN [apIfs EXCEPT ![n] = o] ELSE apIfs
    PROVE  IInv'
<1> DEFINE w == netdev[n].wiphy
           i == netdev[n].idx
           new == [kind |-> kind, name |-> n, idx |-> i, wiphy |-> w]
<1>1. w \in Wiphys /\ i \in IfIndexes /\ new \in ObjInfo
  BY DEF IInv, TypeOK, Netdev, ObjInfo
<1>2. o # None /\ o \notin live /\ \A x \in ObjInfo : x # None
  BY ConstantsAssumption DEF ConstantsAssumption, IInv, TablesOwnObjects
<1>3. /\ replaced \subseteq live
      /\ o \notin replaced
      /\ \A r \in replaced : obj[r].kind = kind /\ obj[r].name = n
  BY <1>2 DEF Found, IInv, TablesOwnObjects
<1>4. /\ obj' = [obj EXCEPT ![o] = new]
      /\ live' = (live \cup {o}) \ replaced
      /\ impl' = (impl \cup {o}) \ replaced
      /\ scannerValid' = (IF kind = "client" THEN scannerValid \cup {o}
                                             ELSE scannerValid) \ replaced
      /\ staleClients' \in SUBSET Objs
      /\ notSetUp' \in SUBSET Objs
      /\ regSubs' = regSubs \cup {w}
      /\ ifaceWiphy' = [ifaceWiphy EXCEPT ![n] = w]
      /\ known' = BroadcastReady(o)
      /\ UNCHANGED <<netdev, wiphyBands, regEvents, callbacks, crashed>>
  BY DEF CreateObject, IInv, TypeOK
<1>5. /\ clientIfs' \in [Ifaces -> Objs \cup {None}]
      /\ apIfs' \in [Ifaces -> Objs \cup {None}]
  BY DEF IInv, TypeOK
<1>6. /\ obj' \in [Objs -> ObjInfo \cup {None}]
      /\ obj'[o] = new
      /\ \A p \in Objs : p # o => obj'[p] = obj[p]
  BY <1>1, <1>4 DEF IInv, TypeOK
<1>7. /\ handlers' \in [HandlerKinds -> [IfIndexes -> Objs \cup {None}]]
      /\ \A k \in HandlerKinds, j \in IfIndexes :
            handlers'[k][j] =
              IF \E r \in replaced : k \in KindsOf(obj[r].kind) /\ obj[r].idx = j
              THEN None
              ELSE IF k \in KindsOf(kind) /\ j = i THEN o ELSE handlers[k][j]
  BY DEF CreateObject, Subscribe, Unsubscribe, IInv, TypeOK
<1>8. up' \in [Ifaces -> BOOLEAN] /\ bandInfo' \in [Objs -> SUBSET Bands]
  <2>1. up' \in [Ifaces -> BOOLEAN]
    BY DEF CreateObject, SetDown, SetUpStateFalse
  <2>2. bandInfo' \in [Objs -> SUBSET Bands]
    BY <1>1 DEF CreateObject, ParsedBands, IInv, TypeOK
  <2>3. QED
    BY <2>1, <2>2
<1>9. /\ bandWiphy' \in [Bands -> Wiphys \cup {None}]
      /\ missedWiphys' \in SUBSET Wiphys
  <2>1. CASE hasNoIfaceForWiphyIndex(ifaceWiphy, w)
    <3>1. /\ bandWiphy' \in UpdateBandWiphyIndexMap(bandWiphy,
                              IF gotBands THEN {w} ELSE {})
          /\ missedWiphys' \subseteq missedWiphys \cup {w}
      BY <2>1 DEF CreateObject
    <3>2. bandWiphy \in [Bands -> Wiphys \cup {None}] /\ missedWiphys \subseteq Wiphys
      BY DEF IInv, TypeOK
    <3>3. bandWiphy' \in [Bands -> Wiphys \cup {None}]
      BY <3>1, <3>2, BandMapType
    <3>4. QED
      BY <1>1, <3>1, <3>2, <3>3
  <2>2. CASE ~hasNoIfaceForWiphyIndex(ifaceWiphy, w)
    BY <2>2 DEF CreateObject, IInv, TypeOK
  <2>3. QED
    BY <2>1, <2>2
<1>10. known' \in [Callbacks -> SUBSET Objs]
  BY <1>4, BroadcastType DEF IInv
<1> HIDE DEF w, i
<1>11. TypeOK'
  BY <1>1, <1>4, <1>5, <1>6, <1>7, <1>8, <1>9, <1>10, ZenonT(30) DEF IInv, TypeOK
<1>12. NoDanglingHandler'
  <2> SUFFICES ASSUME NEW k \in HandlerKinds, NEW j \in IfIndexes,
                      handlers'[k][j] # None
               PROVE  /\ handlers'[k][j] \in live'
                      /\ obj'[handlers'[k][j]] # None
                      /\ obj'[handlers'[k][j]].idx = j
                      /\ k \in KindsOf(obj'[handlers'[k][j]].kind)
    BY DEF NoDanglingHandler
  <2>1. CASE k \in KindsOf(kind) /\ j = i
    <3>1. handlers'[k][j] = o
      BY <1>7, <2>1
    <3>2. o \in live' /\ obj'[o] = new /\ new # None
      BY <1>2, <1>3, <1>4, <1>6, <1>1 DEF IInv, TypeOK
    <3>3. QED
      BY <2>1, <3>1, <3>2
  <2>2. CASE ~(k \in KindsOf(kind) /\ j = i)
    <3>1. handlers'[k][j] = handlers[k][j]
      BY <1>7, <2>2
    <3>2. handlers[k][j] \notin replaced
      BY <1>7, <3>1 DEF IInv, NoDanglingHandler
    <3>3. handlers[k][j] \in live /\ handlers[k][j] # o
      BY <1>2, <3>1 DEF IInv, NoDanglingHandler
    <3>4. QED
      BY <1>4, <1>6, <3>1, <3>2, <3>3 DEF IInv, NoDanglingHandler, TypeOK
  <2>3. QED
    BY <2>1, <2>2
<1>13. TablesOwnObjects'
  <2>0. \A p \in live : p \notin replaced => p \in live' /\ obj'[p] = obj[p]
    BY <1>2, <1>4, <1>6 DEF IInv, TypeOK
  <2>1. ASSUME NEW m \in Ifaces
        PROVE  /\ clientIfs'[m] # None =>
                    /\ clientIfs'[m] \in live'
                    /\ obj'[clientIfs'[m]] # None
                    /\ obj'[clientIfs'[m]].kind = "client"
                    /\ obj'[clientIfs'[m]].name = m
               /\ apIfs'[m] # None =>
                    /\ apIfs'[m] \in live'
                    /\ obj'[apIfs'[m]] # None
                    /\ obj'[apIfs'[m]].kind = "ap"
                    /\ obj'[apIfs'[m]].name = m
    <3>1. ASSUME clientIfs[m] # None, clientIfs[m] \notin replaced
          PROVE  /\ clientIfs[m] \in live'
                 /\ obj'[clientIfs[m]] # None
                 /\ obj'[clientIfs[m]].kind = "client"
                 /\ obj'[clientIfs[m]].name = m
      <4>1. /\ clientIfs[m] \in live
            /\ obj[clientIfs[m]] # None
            /\ obj[clientIfs[m]].kind = "client"
            /\ obj[clientIfs[m]].name = m
        BY <3>1 DEF IInv, TablesOwnObjects
      <4>2. QED
        BY <2>0, <3>1, <4>1
    <3>2. ASSUME apIfs[m] # None, apIfs[m] \notin replaced
          PROVE  /\ apIfs[m] \in live'
                 /\ obj'[apIfs[m]] # None
                 /\ obj'[apIfs[m]].kind = "ap"
                 /\ obj'[apIfs[m]].name = m
      <4>1. /\ apIfs[m] \in live
            /\ obj[apIfs[m]] # None
            /\ obj[apIfs[m]].kind = "ap"
            /\ obj[apIfs[m]].name = m
        BY <3>2 DEF IInv, TablesOwnObjects
      <4>2. QED
        BY <2>0, <3>2, <4>1
    <3>3. /\ o \in live'
          /\ obj'[o] # None
          /\ obj'[o].kind = kind
          /\ obj'[o].name = n
      BY <1>1, <1>2, <1>3, <1>4, <1>6
    <3>4. CASE m # n
      <4>1. clientIfs'[m] = clientIfs[m] /\ apIfs'[m] = apIfs[m]
        BY <3>4 DEF IInv, TypeOK
      <4>2. clientIfs[m] # None => clientIfs[m] \notin replaced
        BY <1>3, <3>4 DEF IInv, TablesOwnObjects
      <4>3. apIfs[m] # None => apIfs[m] \notin replaced
        BY <1>3, <3>4 DEF IInv, TablesOwnObjects
      <4>4. QED
        BY <3>1, <3>2, <4>1, <4>2, <4>3
    <3>5. CASE m = n /\ kind = "client"
      <4>1. clientIfs'[m] = o /\ apIfs'[m] = apIfs[m]
        BY <3>5 DEF IInv, TypeOK
      <4>2. apIfs[m] # None => apIfs[m] \notin replaced
        BY <1>3, <3>5 DEF IInv, TablesOwnObjects
      <4>3. QED
        BY <3>2, <3>3, <3>5, <4>1, <4>2
    <3>6. CASE m = n /\ kind = "ap"
      <4>1. apIfs'[m] = o /\ clientIfs'[m] = clientIfs[m]
        BY <3>6 DEF IInv, TypeOK
      <4>2. clientIfs[m] # None => clientIfs[m] \notin replaced
        BY <1>3, <3>6 DEF IInv, TablesOwnObjects
      <4>3. QED
        BY <3>1, <3>3, <3>6, <4>1, <4>2
    <3>7. QED
      BY <3>4, <3>5, <3>6
  <2>2. ASSUME NEW p \in live'
        PROVE  /\ obj'[p] # None
               /\ p \in {clientIfs'[obj'[p].name], apIfs'[obj'[p].name]}
    <3>1. CASE p = o
      BY <1>1, <1>2, <1>6, <3>1 DEF IInv, TypeOK
    <3>2. CASE p # o
      <4>1. p \in live /\ p \notin replaced /\ obj'[p] = obj[p]
        BY <1>4, <1>6, <3>2 DEF IInv, TypeOK
      <4>2. /\ obj[p] # None
            /\ obj[p].name \in Ifaces
            /\ p \in {clientIfs[obj[p].name], apIfs[obj[p].name]}
        BY <4>1 DEF IInv, TypeOK, TablesOwnObjects, ObjInfo
      <4>3. p # None
        BY <4>1, ConstantsAssumption DEF ConstantsAssumption, IInv, TypeOK
      <4>4. CASE obj[p].name # n
        BY <4>1, <4>2, <4>4 DEF IInv, TypeOK
      <4>5. CASE obj[p].name = n
        BY <4>1, <4>2, <4>3, <4>5 DEF IInv, TypeOK, Found
      <4>6. QED
        BY <4>4, <4>5
    <3>3. QED
      BY <3>1, <3>2
  <2>3. QED
    BY <2>1, <2>2 DEF TablesOwnObjects
<1>14. PointersFollowLife'
  BY <1>2, <1>3, <1>4, <1>6 DEF PointersFollowLife, IInv, TypeOK
<1>15. RegChangesHeard'
  BY <1>1, <1>4 DEF RegChangesHeard, IInv, TypeOK
<1>16. KnowersRegistered'
  BY <1>4 DEF BroadcastReady, KnowersRegistered, IInv, TypeOK
<1>17. CarefullyAnnounced'
  <2>1. ASSUME CarefulFramework, NEW c \in Callbacks
        PROVE  known'[c] \subseteq live'
    <3>1. known'[c] \subseteq known[c] \cup {o}
      BY <1>4 DEF BroadcastReady
    <3>2. live' = live \cup {o}
      BY <1>4, <2>1
    <3>3. QED
      BY <2>1, <3>1, <3>2 DEF IInv, CarefullyAnnounced, TornDownAnnounced
  <2>2. QED
    BY <2>1 DEF CarefullyAnnounced, TornDownAnnounced
<1>18. QED
  BY <1>11, <1>12, <1>13, <1>14, <1>15, <1>16, <1>17 DEF IInv

\* createClientInterface either fails in SetupInterface or creates a client.
LEMMA CreateClientStep ==
    ASSUME IInv, NEW n \in Ifaces, createClientInterface(n)
    PROVE  IInv'
<1>1. CASE SetupInterfaceFails(n)
  BY <1>1, SetupFailsStep
<1>2. CASE ~SetupInterfaceFails(n)
  <2>1. netdev[n] # None /\ UNCHANGED apIfs
    BY <1>2 DEF createClientInterface
  <2>2. PICK o \in Objs, gotInfo \in BOOLEAN, gotUp \in BOOLEAN,
             gotBands \in BOOLEAN :
            /\ obj[o] = None
            /\ CreateObject("client", n, o, Found(clientIfs, n),
                            gotInfo, gotUp, gotBands)
            /\ clientIfs' = [clientIfs EXCEPT ![n] = o]
    BY <1>2 DEF createClientInterface
  <2>3. CarefulFramework => Found(clientIfs, n) = {}
    BY DEF createClientInterface, Found
  <2>4. QED
    BY <2>1, <2>2, <2>3, CreateStep
<1>3. QED
  BY <1>1, <1>2

\* createApInterface either fails in SetupInterface or creates an AP.
LEMMA CreateApStep ==
    ASSUME IInv, NEW n \in Ifaces, createApInterface(n)
    PROVE  IInv'
<1>1. CASE SetupInterfaceFails(n)
  BY <1>1, SetupFailsStep
<1>2. CASE ~SetupInterfaceFails(n)
  <2>1. netdev[n] # None /\ UNCHANGED clientIfs
    BY <1>2 DEF createApInterface
  <2>2. PICK o \in Objs, gotBands \in BOOLEAN :
            /\ obj[o] = None
            /\ CreateObject("ap", n, o, Found(apIfs, n), TRUE, TRUE, gotBands)
            /\ apIfs' = [apIfs EXCEPT ![n] = o]
    BY <1>2 DEF createApInterface
  <2>3. CarefulFramework => Found(apIfs, n) = {}
    BY DEF createApInterface, Found
  <2>4. QED
    BY <2>1, <2>2, <2>3, CreateStep
<1>3. QED
  BY <1>1, <1>2

\* Refreshing the bands changes no pointer, table or subscription.
LEMMA CountryCodeStep ==
    ASSUME IInv, notifyCountryCodeChanged \/ OnRegDomainChanged
    PROVE  IInv'
<1>1. /\ UNCHANGED <<netdev, up, wiphyBands, clientIfs, apIfs, callbacks,
                     handlers, regSubs, crashed, known>>
      /\ regEvents' \in 0..MaxRegEvents
  BY ConstantsAssumption DEF ConstantsAssumption, notifyCountryCodeChanged,
     OnRegDomainChanged, kernelVars, IInv, TypeOK
<1>2. /\ UNCHANGED <<ifaceWiphy, obj, live, impl, scannerValid, notSetUp>>
      /\ bandInfo' \in [Objs -> SUBSET Bands]
      /\ staleClients' \in SUBSET Objs
      /\ bandWiphy' \in [Bands -> Wiphys \cup {None}]
      /\ missedWiphys' \in SUBSET Wiphys
  <2>1. CASE handleCountryCodeChanged
    <3>0. PICK parsed \in SUBSET (Range(clientIfs) \ {None}),
               reached \in SUBSET {n \in {m \in Ifaces : clientIfs[m] # None
                                                        \/ apIfs[m] # None} :
                                      netdev[n] # None} :
            \E answered \in SUBSET parsed,
               ws \in SUBSET {netdev[n].wiphy : n \in reached} :
              /\ bandInfo' = [o \in Objs |->
                    IF o \in parsed THEN wiphyBands[obj[o].wiphy]
                                      ELSE bandInfo[o]]
              /\ staleClients' = (staleClients \ answered)
                                    \cup ((Range(clientIfs) \ {None}) \ answered)
              /\ bandWiphy' \in UpdateBandWiphyIndexMap(bandWiphy, ws)
              /\ missedWiphys' = (missedWiphys \ ws)
                    \cup ({ifaceWiphy[n] :
                             n \in {m \in Ifaces : clientIfs[m] # None
                                                   \/ apIfs[m] # None}}
                          \ (ws \cup {None}))
              /\ UNCHANGED <<ifaceWiphy, obj, live, impl, scannerValid, notSetUp>>
      BY <2>1 DEF handleCountryCodeChanged
    <3>1. PICK answered \in SUBSET parsed,
               ws \in SUBSET {netdev[n].wiphy : n \in reached} :
            /\ bandInfo' = [o \in Objs |->
                  IF o \in parsed THEN wiphyBands[obj[o].wiphy]
                                    ELSE bandInfo[o]]
            /\ staleClients' = (staleClients \ answered)
                                  \cup ((Range(clientIfs) \ {None}) \ answered)
            /\ bandWiphy' \in UpdateBandWiphyIndexMap(bandWiphy, ws)
            /\ missedWiphys' = (missedWiphys \ ws)
                  \cup ({ifaceWiphy[n] :
                           n \in {m \in Ifaces : clientIfs[m] # None
                                                 \/ apIfs[m] # None}}
                        \ (ws \cup {None}))
            /\ UNCHANGED <<ifaceWiphy, obj, live, impl, scannerValid, notSetUp>>
      BY <3>0
    <3>2. \A o \in parsed : o \in Objs /\ obj[o] \in ObjInfo
      BY DEF Range, IInv, TypeOK, TablesOwnObjects
    <3>3. bandInfo' \in [Objs -> SUBSET Bands]
      BY <3>1, <3>2 DEF IInv, TypeOK, ObjInfo
    <3>4. staleClients' \in SUBSET Objs
      BY <3>1 DEF Range, IInv, TypeOK
    <3>5. bandWiphy' \in [Bands -> Wiphys \cup {None}]
      BY <3>1, BandMapType DEF IInv, TypeOK
    <3>6. missedWiphys' \in SUBSET Wiphys
      BY <3>1 DEF IInv, TypeOK
    <3>7. QED
      BY <3>1, <3>3, <3>4, <3>5, <3>6
  <2>2. CASE UNCHANGED <<mapVars, objVars, staleClients, missedWiphys>>
    BY <2>2 DEF mapVars, objVars, IInv, TypeOK
  <2>3. QED
    BY <2>1, <2>2 DEF notifyCountryCodeChanged, OnRegDomainChanged
<1>3. TypeOK'
  BY <1>1, <1>2 DEF IInv, TypeOK
<1>4. NoDanglingHandler' /\ TablesOwnObjects'
  BY <1>1, <1>2 DEF IInv, NoDanglingHandler, TablesOwnObjects
<1>5. PointersFollowLife' /\ RegChangesHeard'
  BY <1>1, <1>2 DEF IInv, PointersFollowLife, RegChangesHeard
<1>6. KnowersRegistered' /\ CarefullyAnnounced'
  BY <1>1, <1>2 DEF IInv, KnowersRegistered, CarefullyAnnounced, TornDownAnnounced
<1>7. QED
  BY <1>3, <1>4, <1>5, <1>6 DEF IInv

\* The framework forgets only objects that are already destroyed.
LEMMA ReleaseStep ==
    ASSUME IInv, NEW o \in Objs, ReleaseBinder(o)
    PROVE  IInv'
<1>1. /\ o \notin live
      /\ obj' = [obj EXCEPT ![o] = None]
      /\ bandInfo' = [bandInfo EXCEPT ![o] = {}]
      /\ UNCHANGED <<netdev, up, wiphyBands, regEvents, clientIfs, apIfs,
                     ifaceWiphy, bandWiphy, callbacks, live, impl,
                     scannerValid, notSetUp, handlers, regSubs, crashed,
                     staleClients, missedWiphys>>
      /\ known' = [c \in Callbacks |-> known[c] \ {o}]
  BY DEF ReleaseBinder, kernelVars, mapVars
<1>2. \A p \in live : obj'[p] = obj[p]
  BY <1>1 DEF IInv, TypeOK
<1>3. TypeOK'
  BY <1>1 DEF IInv, TypeOK
<1>4. NoDanglingHandler'
  BY <1>1, <1>2 DEF IInv, NoDanglingHandler
<1>5. TablesOwnObjects'
  BY <1>1, <1>2 DEF IInv, TablesOwnObjects
<1>6. PointersFollowLife' /\ RegChangesHeard'
  BY <1>1, <1>2 DEF IInv, PointersFollowLife, RegChangesHeard
<1>7. KnowersRegistered' /\ CarefullyAnnounced'
  BY <1>1, <1>2 DEF IInv, KnowersRegistered, CarefullyAnnounced, TornDownAnnounced
<1>8. QED
  BY <1>3, <1>4, <1>5, <1>6, <1>7 DEF IInv

\* The kernel's own steps, and a call on a dead binder, leave wificond's
\* tables alone.
LEMMA KernelStep ==
    ASSUME IInv,
           \/ \E o \in Objs : ApGetInterfaceName(o)
           \/ \E n \in Ifaces, i \in IfIndexes, w \in Wiphys : AddNetdev(n, i, w)
           \/ \E n \in Ifaces : RemoveNetdev(n)
           \/ \E w \in Wiphys, bands \in SUBSET Bands : RegChange(w, bands)
           \/ UNCHANGED vars
    PROVE  IInv'
<1>1. UNCHANGED <<clientIfs, apIfs, ifaceWiphy, bandWiphy, callbacks, obj,
                  live, impl, scannerValid, bandInfo, notSetUp, handlers,
                  regSubs, known, staleClients, missedWiphys>>
  BY DEF ApGetInterfaceName, AddNetdev, RemoveNetdev, RegChange, vars,
         mapVars, objVars
<1>2. /\ netdev' \in [Ifaces -> Netdev \cup {None}]
      /\ up' \in [Ifaces -> BOOLEAN]
      /\ crashed' \in BOOLEAN
  <2> USE DEF IInv, TypeOK, kernelVars
  <2>1. netdev' \in [Ifaces -> Netdev \cup {None}]
    BY DEF ApGetInterfaceName, AddNetdev, RemoveNetdev, RegChange, vars, Netdev
  <2>2. up' = up \/ \E n \in Ifaces : up' = [up EXCEPT ![n] = FALSE]
    BY DEF ApGetInterfaceName, AddNetdev, RemoveNetdev, RegChange, vars
  <2>3. up' \in [Ifaces -> BOOLEAN]
    BY <2>2
  <2>4. crashed' = TRUE \/ crashed' = crashed
    BY DEF ApGetInterfaceName, AddNetdev, RemoveNetdev, RegChange, vars
  <2>5. QED
    BY <2>1, <2>3, <2>4
<1>3. wiphyBands' \in [Wiphys -> SUBSET Bands]
  BY DEF ApGetInterfaceName, AddNetdev, RemoveNetdev, RegChange, vars,
         kernelVars, IInv, TypeOK
<1>4. regEvents' \in 0..MaxRegEvents
  BY ConstantsAssumption DEF ConstantsAssumption, ApGetInterfaceName,
     AddNetdev, RemoveNetdev, RegChange, vars, kernelVars, IInv, TypeOK
<1>5. TypeOK'
  BY <1>1, <1>2, <1>3, <1>4 DEF IInv, TypeOK
<1>6. NoDanglingHandler' /\ TablesOwnObjects'
  BY <1>1 DEF IInv, NoDanglingHandler, TablesOwnObjects
<1>7. PointersFollowLife' /\ RegChangesHeard'
  BY <1>1 DEF IInv, PointersFollowLife, RegChangesHeard
<1>8. KnowersRegistered' /\ CarefullyAnnounced'
  BY <1>1, <1>2 DEF IInv, KnowersRegistered, CarefullyAnnounced, TornDownAnnounced
<1>9. QED
  BY <1>5, <1>6, <1>7, <1>8 DEF IInv

\* A new process starts from empty tables, whatever the kernel kept.
LEMMA RestartStep ==
    ASSUME IInv, Restart
    PROVE  IInv'
<1>1. TypeOK'
  <2>1. /\ netdev' \in [Ifaces -> Netdev \cup {None}]
        /\ up' \in [Ifaces -> BOOLEAN]
        /\ wiphyBands' \in [Wiphys -> SUBSET Bands]
    BY DEF Restart, IInv, TypeOK
  <2>2. regEvents' \in 0..MaxRegEvents
    BY ConstantsAssumption DEF ConstantsAssumption, Restart
  <2>3. /\ clientIfs' \in [Ifaces -> Objs \cup {None}]
        /\ apIfs' \in [Ifaces -> Objs \cup {None}]
        /\ ifaceWiphy' \in [Ifaces -> Wiphys \cup {None}]
        /\ bandWiphy' \in [Bands -> Wiphys \cup {None}]
        /\ callbacks' \in Seq(Callbacks)
    BY DEF Restart
  <2>4. /\ obj' \in [Objs -> ObjInfo \cup {None}]
        /\ bandInfo' \in [Objs -> SUBSET Bands]
        /\ handlers' \in [HandlerKinds -> [IfIndexes -> Objs \cup {None}]]
        /\ known' \in [Callbacks -> SUBSET Objs]
        /\ crashed' \in BOOLEAN
    BY DEF Restart
  <2>5. QED
    BY <2>1, <2>2, <2>3, <2>4 DEF TypeOK, Restart
<1>2. NoDanglingHandler'
  BY DEF Restart, NoDanglingHandler
<1>3. TablesOwnObjects' /\ PointersFollowLife' /\ RegChangesHeard'
  BY DEF Restart, TablesOwnObjects, PointersFollowLife, RegChangesHeard
<1>4. KnowersRegistered' /\ CarefullyAnnounced'
  BY DEF Restart, KnowersRegistered, CarefullyAnnounced, TornDownAnnounced
<1>5. QED
  BY <1>1, <1>2, <1>3, <1>4 DEF IInv

\* Every step of the specification preserves the invariant.
LEMMA NextIInv == IInv /\ [Next]_vars => IInv'
<1> SUFFICES ASSUME IInv, [Next]_vars PROVE IInv'
  OBVIOUS
<1>1. CASE \E c \in Callbacks : RegisterCallback(c) \/ UnregisterCallback(c)
  BY <1>1, CallbackSteps
<1>2. CASE \E n \in Ifaces : createClientInterface(n)
  BY <1>2, CreateClientStep
<1>3. CASE \E n \in Ifaces : createApInterface(n)
  BY <1>3, CreateApStep
<1>4. CASE \E n \in Ifaces : tearDownClientInterface(n)
  BY <1>4, TearDownClientStep
<1>5. CASE \E n \in Ifaces : tearDownApInterface(n)
  BY <1>5, TearDownApStep
<1>6. CASE tearDownInterfaces
  BY <1>6, TearDownAllStep
<1>7. CASE notifyCountryCodeChanged \/ OnRegDomainChanged
  BY <1>7, CountryCodeStep
<1>8. CASE \E o \in Objs : ReleaseBinder(o)
  BY <1>8, ReleaseStep
<1>9. CASE \/ \E o \in Objs : ApGetInterfaceName(o)
           \/ \E n \in Ifaces, i \in IfIndexes, w \in Wiphys : AddNetdev(n, i, w)
           \/ \E n \in Ifaces : RemoveNetdev(n)
           \/ \E w \in Wiphys, bands \in SUBSET Bands : RegChange(w, bands)
           \/ UNCHANGED vars
  BY <1>9, KernelStep
<1>10. CASE Restart
  BY <1>10, RestartStep
<1>11. QED
  BY <1>1, <1>2, <1>3, <1>4, <1>5, <1>6, <1>7, <1>8, <1>9, <1>10 DEF Next

-----------------------------------------------------------------------------
(***************************************************************************)
(* Theorems                                                                *)
(***************************************************************************)

\* The inductive invariant holds in every reachable state.
THEOREM Invariance == Spec => []IInv
BY InitIInv, NextIInv, PTL DEF Spec

\* Every variable keeps its type.
THEOREM TypeCorrect == Spec => []TypeOK
<1>1. IInv => TypeOK
  BY DEF IInv
<1>2. QED
  BY <1>1, Invariance, PTL

\* NetlinkManager never runs the handler of a destroyed object, whatever
\* sequence of creations, replacements, tear downs and restarts led there: the
\* handlers registered in ClientInterfaceImpl, ApInterfaceImpl and ScannerImpl
\* capture a raw |this|.
THEOREM HandlersAlive == Spec => []NoDanglingHandler
<1>1. IInv => NoDanglingHandler
  BY DEF IInv
<1>2. QED
  BY <1>1, Invariance, PTL

\* The tables of Server own exactly the live objects, each under its own name.
THEOREM Ownership == Spec => []TablesOwnObjects
<1>1. IInv => TablesOwnObjects
  BY DEF IInv
<1>2. QED
  BY <1>1, Invariance, PTL

\* Binders and scanners that outlive their object know it.
THEOREM PointersSafe == Spec => []PointersFollowLife
<1>1. IInv => PointersFollowLife
  BY DEF IInv
<1>2. QED
  BY <1>1, Invariance, PTL

\* Server hears the regulatory changes of every wiphy it has recorded, though
\* subscriptions are per wiphy and tear downs per interface.
THEOREM RegulatoryHeard == Spec => []RegChangesHeard
<1>1. IInv => RegChangesHeard
  BY DEF IInv
<1>2. QED
  BY <1>1, Invariance, PTL

\* With a framework that never creates a name over its object, a callback hears
\* of the end of every object it has heard of as ready, however callbacks register
\* and unregister between creations, tear downs and restarts.  (The object that
\* createClientInterface or createApInterface replaces ends unannounced.)
THEOREM EndsHeard ==
    ASSUME CarefulFramework
    PROVE  Spec => []TornDownAnnounced
<1>1. IInv => TornDownAnnounced
  BY DEF IInv, CarefullyAnnounced
<1>2. QED
  BY <1>1, Invariance, PTL

-----------------------------------------------------------------------------
(***************************************************************************)
(* What InterfaceServer promises a framework that creates a name only when *)
(* it has no interface and tears it down by the kind it created: that      *)
(* every interface hears its events, that clients are up, that the maps    *)
(* follow the interfaces, and that the bands are those of the regulatory   *)
(* domain.                                                                 *)
(*                                                                         *)
(* A destructor unsubscribes by interface index and switches off by name,  *)
(* so the argument is that no two live objects share either.  For indexes  *)
(* this takes the kernel's part: an index is one device's, and a device    *)
(* whose index an object remembers is the one the object was made for.     *)
(***************************************************************************)

\* A name has an interface of one kind at most.
OneKind == \A n \in Ifaces : clientIfs[n] = None \/ apIfs[n] = None

\* No two devices have the same index.
DistinctIndexes ==
    \A m, n \in Ifaces :
        /\ netdev[m] # None /\ netdev[n] # None
        /\ netdev[m].idx = netdev[n].idx
        => m = n

\* A device with the index of an object is the device it was made for.
IndexesOwn ==
    \A n \in Ifaces, o \in live :
        netdev[n] # None /\ netdev[n].idx = obj[o].idx => obj[o].name = n

\* The map knows the wiphy of a device.
DeviceWiphy ==
    \A n \in Ifaces :
        netdev[n] # None /\ ifaceWiphy[n] # None => netdev[n].wiphy = ifaceWiphy[n]

\* The inductive invariant, relative to that of InterfaceServer_proofs.
CInv ==
    /\ OneKind
    /\ DistinctIndexes
    /\ IndexesOwn
    /\ DeviceWiphy
    /\ FullySubscribed
    /\ ClientIsUp
    /\ MapsFollowInterfaces

-----------------------------------------------------------------------------
(***************************************************************************)
(* Live objects                                                            *)
(***************************************************************************)

\* A live object is in the table of its kind under its name, where the map has
\* its wiphy.
LEMMA LiveObjects ==
    ASSUME IInv, CInv, NEW o \in live
    PROVE  /\ o \in Objs /\ obj[o] \in ObjInfo
           /\ obj[o].name \in Ifaces /\ obj[o].idx \in IfIndexes
           /\ obj[o].wiphy \in Wiphys /\ obj[o].kind \in {"client", "ap"}
           /\ \/ o = clientIfs[obj[o].name] /\ obj[o].kind = "client"
              \/ o = apIfs[obj[o].name] /\ obj[o].kind = "ap"
           /\ ifaceWiphy[obj[o].name] = obj[o].wiphy
  <1>1. o \in Objs /\ obj[o] \in ObjInfo
    BY DEF IInv, TypeOK, TablesOwnObjects
  <1>2. /\ obj[o].name \in Ifaces /\ obj[o].idx \in IfIndexes
        /\ obj[o].wiphy \in Wiphys /\ obj[o].kind \in {"client", "ap"}
    BY <1>1 DEF ObjInfo
  <1>3. o # None
    BY <1>1, ConstantsAssumption DEF ConstantsAssumption
  <1>4. \/ o = clientIfs[obj[o].name] /\ obj[o].kind = "client"
        \/ o = apIfs[obj[o].name] /\ obj[o].kind = "ap"
    BY <1>2, <1>3 DEF IInv, TablesOwnObjects
  <1>5. ifaceWiphy[obj[o].name] = obj[o].wiphy
    BY <1>2, <1>3, <1>4 DEF CInv, OneKind, MapsFollowInterfaces
  <1> QED BY <1>1, <1>2, <1>4, <1>5

\* No two live objects share a name.
LEMMA NamesDistinct ==
    ASSUME IInv, CInv, NEW o \in live, NEW p \in live, obj[o].name = obj[p].name
    PROVE  o = p
  <1>1. o # None /\ p # None
    BY LiveObjects, ConstantsAssumption DEF ConstantsAssumption
  <1> QED BY <1>1, LiveObjects DEF CInv, OneKind

\* Nor an index: both kinds subscribe to channel switches.
LEMMA IndexesDistinct ==
    ASSUME IInv, CInv, NEW o \in live, NEW p \in live, obj[o].idx = obj[p].idx
    PROVE  o = p
  <1>1. "channel_switch" \in KindsOf(obj[o].kind) /\ "channel_switch" \in KindsOf(obj[p].kind)
    BY DEF KindsOf
  <1> QED BY <1>1 DEF CInv, FullySubscribed

\* The map has a wiphy for a name exactly while it has an object.
LEMMA MappedNames ==
    ASSUME IInv, CInv, NEW n \in Ifaces
    PROVE  ifaceWiphy[n] # None <=> clientIfs[n] # None \/ apIfs[n] # None
  <1>1. ASSUME clientIfs[n] # None
        PROVE  ifaceWiphy[n] \in Wiphys
    BY <1>1, LiveObjects DEF IInv, TablesOwnObjects, CInv, MapsFollowInterfaces
  <1>2. ASSUME clientIfs[n] = None, apIfs[n] # None
        PROVE  ifaceWiphy[n] \in Wiphys
    BY <1>2, LiveObjects DEF IInv, TablesOwnObjects, CInv, MapsFollowInterfaces
  <1> QED BY <1>1, <1>2, ConstantsAssumption
          DEF ConstantsAssumption, CInv, MapsFollowInterfaces

-----------------------------------------------------------------------------
(***************************************************************************)
(* Every action preserves the invariant                                    *)
(***************************************************************************)

\* Steps that concern neither the objects nor what was recorded of them.
LEMMA ObjectsStay ==
    ASSUME IInv, CInv, \A o \in live : obj'[o] = obj[o],
           UNCHANGED <<netdev, up, clientIfs, apIfs, ifaceWiphy, bandWiphy, live,
                       notSetUp, handlers>>
    PROVE  CInv'
  <1>1. OneKind' /\ DistinctIndexes' /\ DeviceWiphy'
    BY DEF CInv, OneKind, DistinctIndexes, DeviceWiphy
  <1>2. IndexesOwn' /\ FullySubscribed' /\ ClientIsUp'
    BY DEF CInv, IndexesOwn, FullySubscribed, ClientIsUp
  <1>3. MapsFollowInterfaces'
    BY DEF IInv, TablesOwnObjects, CInv, MapsFollowInterfaces, hasNoIfaceForWiphyIndex
  <1> QED BY <1>1, <1>2, <1>3 DEF CInv

\* An interface is torn down: the one object of that name dies.
LEMMA TearDownStep ==
    ASSUME IInv, CInv, NEW n \in Ifaces, NEW dying \in SUBSET live,
           \A o \in live : o \in dying <=> obj[o].name = n,
           Destroy(dying), up' \in SetDown(up, dying), ForgetWiphy(n), netdev' = netdev,
           clientIfs' = [clientIfs EXCEPT ![n] = None],
           apIfs' = [apIfs EXCEPT ![n] = None]
    PROVE  CInv'
  <1>1. /\ live' = live \ dying /\ obj' = obj /\ notSetUp' = notSetUp \ dying
        /\ handlers' = Unsubscribe(handlers, dying)
    BY DEF Destroy
  <1>2. /\ clientIfs \in [Ifaces -> Objs \cup {None}]
        /\ apIfs \in [Ifaces -> Objs \cup {None}]
        /\ ifaceWiphy \in [Ifaces -> Wiphys \cup {None}]
        /\ bandWiphy \in [Bands -> Wiphys \cup {None}]
    BY DEF IInv, TypeOK
  <1>3. OneKind' /\ DistinctIndexes'
    BY <1>2 DEF CInv, OneKind, DistinctIndexes
  <1>4. IndexesOwn'
    BY <1>1 DEF CInv, IndexesOwn
  <1>5. ifaceWiphy' = [ifaceWiphy EXCEPT ![n] = None]
    BY DEF ForgetWiphy
  <1>6. DeviceWiphy'
    BY <1>2, <1>5 DEF CInv, DeviceWiphy
  <1>7. FullySubscribed'
    <2>1. SUFFICES ASSUME NEW o \in live, o \notin dying, NEW k \in KindsOf(obj[o].kind)
                   PROVE  handlers'[k][obj[o].idx] = o
      BY <1>1 DEF FullySubscribed
    <2>2. handlers[k][obj[o].idx] = o
      BY DEF CInv, FullySubscribed
    <2>3. \A p \in dying : obj[p].idx # obj[o].idx
      BY <2>1, IndexesDistinct
    <2>4. k \in HandlerKinds /\ obj[o].idx \in IfIndexes
      BY LiveObjects DEF KindsOf, HandlerKinds
    <2> QED BY <1>1, <2>2, <2>3, <2>4 DEF Unsubscribe
  <1>8. ClientIsUp'
    <2>1. SUFFICES ASSUME NEW o \in live \ notSetUp, o \notin dying,
                          obj[o].kind = "client",
                          netdev[obj[o].name] # None,
                          netdev[obj[o].name].idx = obj[o].idx
                   PROVE  up'[obj[o].name]
      BY <1>1 DEF ClientIsUp
    <2>2. up[obj[o].name] /\ obj[o].name # n /\ obj[o].name \in Ifaces
      BY <2>1, LiveObjects DEF CInv, ClientIsUp
    <2>3. obj[o].name \notin {obj[p].name : p \in dying}
      BY <2>2
    <2> QED BY <2>2, <2>3 DEF SetDown, SetUpStateFalse
  <1>9. MapsFollowInterfaces'
    <2>1. ASSUME NEW m \in Ifaces
          PROVE  ifaceWiphy'[m] =
                    IF clientIfs'[m] # None THEN obj'[clientIfs'[m]].wiphy
                    ELSE IF apIfs'[m] # None THEN obj'[apIfs'[m]].wiphy ELSE None
      BY <1>1, <1>2, <1>5 DEF CInv, MapsFollowInterfaces
    <2>2. ASSUME NEW b \in Bands, bandWiphy'[b] # None
          PROVE  \E m \in Ifaces : ifaceWiphy'[m] = bandWiphy'[b]
      <3>1. bandWiphy'[b] = bandWiphy[b]
        BY <1>2, <2>2 DEF ForgetWiphy, EraseBandWiphyIndexMap
      <3>2. PICK m \in Ifaces : ifaceWiphy[m] = bandWiphy[b]
        BY <2>2, <3>1 DEF CInv, MapsFollowInterfaces, hasNoIfaceForWiphyIndex
      <3>3. CASE m # n
        BY <1>2, <1>5, <3>1, <3>2, <3>3
      <3>4. CASE m = n
        <4>1. ~hasNoIfaceForWiphyIndex(ifaceWiphy', ifaceWiphy[n])
          BY <1>5, <2>2, <3>1, <3>2, <3>4 DEF ForgetWiphy, EraseBandWiphyIndexMap
        <4> QED BY <3>1, <3>2, <3>4, <4>1 DEF hasNoIfaceForWiphyIndex
      <3> QED BY <3>3, <3>4
    <2> QED BY <2>1, <2>2 DEF MapsFollowInterfaces, hasNoIfaceForWiphyIndex
  <1> QED BY <1>3, <1>4, <1>6, <1>7, <1>8, <1>9 DEF CInv

\* The two calls that tear an interface down.
LEMMA TearDownCalls ==
    ASSUME IInv, CInv, CarefulFramework, NEW n \in Ifaces,
           tearDownClientInterface(n) \/ tearDownApInterface(n)
    PROVE  CInv'
  <1>0. None \notin Objs
    BY ConstantsAssumption DEF ConstantsAssumption
  <1>1. /\ clientIfs \in [Ifaces -> Objs \cup {None}]
        /\ apIfs \in [Ifaces -> Objs \cup {None}]
    BY DEF IInv, TypeOK
  <1>2. CASE tearDownClientInterface(n)
    <2>1. PICK dying : dying = Found(clientIfs, n)
      OBVIOUS
    <2>2. /\ apIfs[n] = None /\ apIfs' = apIfs
          /\ clientIfs' = [clientIfs EXCEPT ![n] = None]
          /\ Destroy(dying) /\ up' \in SetDown(up, dying)
          /\ ForgetWiphy(n) /\ netdev' = netdev
      BY <1>2, <2>1 DEF tearDownClientInterface
    <2>3. apIfs' = [apIfs EXCEPT ![n] = None]
      BY <1>1, <2>2
    <2>4. dying \in SUBSET live /\ \A o \in live : o \in dying <=> obj[o].name = n
      BY <1>0, <2>1, <2>2, LiveObjects DEF Found, IInv, TablesOwnObjects
    <2> QED BY <2>2, <2>3, <2>4, TearDownStep
  <1>3. CASE tearDownApInterface(n)
    <2>1. PICK dying : dying = Found(apIfs, n)
      OBVIOUS
    <2>2. /\ clientIfs[n] = None /\ clientIfs' = clientIfs
          /\ apIfs' = [apIfs EXCEPT ![n] = None]
          /\ Destroy(dying) /\ up' \in SetDown(up, dying)
          /\ ForgetWiphy(n) /\ netdev' = netdev
      BY <1>3, <2>1 DEF tearDownApInterface
    <2>3. clientIfs' = [clientIfs EXCEPT ![n] = None]
      BY <1>1, <2>2
    <2>4. dying \in SUBSET live /\ \A o \in live : o \in dying <=> obj[o].name = n
      BY <1>0, <2>1, <2>2, LiveObjects DEF Found, IInv, TablesOwnObjects
    <2> QED BY <2>2, <2>3, <2>4, TearDownStep
  <1> QED BY <1>2, <1>3

\* After tearDownInterfaces, and after a restart, there is no object.
LEMMA NoObjectStep ==
    ASSUME IInv, CInv, tearDownInterfaces \/ Restart
    PROVE  /\ CInv'
           /\ live' = {} /\ \A n \in Ifaces : ifaceWiphy'[n] = None
           /\ \A b \in Bands : bandWiphy'[b] = None
  <1>1. live' = {}
    <2>1. CASE tearDownInterfaces
      <3>1. live' = live \ ((Range(clientIfs) \cup Range(apIfs)) \ {None})
        BY <2>1 DEF tearDownInterfaces, Destroy
      <3>2. ASSUME NEW o \in live
            PROVE  o \in (Range(clientIfs) \cup Range(apIfs)) \ {None}
        BY LiveObjects, ConstantsAssumption DEF ConstantsAssumption, Range, IInv, TypeOK
      <3> QED BY <3>1, <3>2
    <2>2. CASE Restart
      BY <2>2 DEF Restart
    <2> QED BY <2>1, <2>2
  <1>2. /\ clientIfs' = [n \in Ifaces |-> None] /\ apIfs' = [n \in Ifaces |-> None]
        /\ ifaceWiphy' = [n \in Ifaces |-> None]
        /\ netdev' = netdev
    BY DEF tearDownInterfaces, Restart
  <1>3. ASSUME NEW b \in Bands
        PROVE  bandWiphy'[b] = None
    <2>1. CASE tearDownInterfaces
      <3>1. bandWiphy'[b] = IF bandWiphy[b] \in Range(ifaceWiphy) \ {None} THEN None
                            ELSE bandWiphy[b]
        BY <2>1 DEF tearDownInterfaces, EraseBandWiphyIndexMap
      <3>2. bandWiphy[b] # None => bandWiphy[b] \in Range(ifaceWiphy)
        BY DEF CInv, MapsFollowInterfaces, hasNoIfaceForWiphyIndex, Range, IInv, TypeOK
      <3> QED BY <3>1, <3>2
    <2>2. CASE Restart
      BY <2>2 DEF Restart
    <2> QED BY <2>1, <2>2
  <1>4. OneKind' /\ DistinctIndexes' /\ DeviceWiphy'
    BY <1>2 DEF CInv, OneKind, DistinctIndexes, DeviceWiphy
  <1>5. IndexesOwn' /\ FullySubscribed' /\ ClientIsUp'
    BY <1>1 DEF IndexesOwn, FullySubscribed, ClientIsUp
  <1>6. MapsFollowInterfaces'
    BY <1>2, <1>3 DEF MapsFollowInterfaces
  <1> QED BY <1>1, <1>2, <1>3, <1>4, <1>5, <1>6 DEF CInv

\* Devices come and go.  A new one has no object's index, and the wiphy the map
\* may have for its name.
LEMMA DeviceStep ==
    ASSUME IInv, CInv, CarefulFramework,
           \/ \E n \in Ifaces, i \in IfIndexes, w \in Wiphys : AddNetdev(n, i, w)
           \/ \E n \in Ifaces : RemoveNetdev(n)
    PROVE  CInv'
  <1>1. UNCHANGED <<clientIfs, apIfs, ifaceWiphy, bandWiphy, obj, live, notSetUp,
                    handlers>>
    BY DEF AddNetdev, RemoveNetdev, mapVars, objVars
  <1>2. netdev \in [Ifaces -> Netdev \cup {None}] /\ up \in [Ifaces -> BOOLEAN]
    BY DEF IInv, TypeOK
  <1>3. OneKind' /\ FullySubscribed' /\ MapsFollowInterfaces'
    BY <1>1 DEF CInv, OneKind, FullySubscribed, MapsFollowInterfaces, hasNoIfaceForWiphyIndex
  <1>4. ASSUME NEW n \in Ifaces, NEW i \in IfIndexes, NEW w \in Wiphys, AddNetdev(n, i, w)
        PROVE  DistinctIndexes' /\ IndexesOwn' /\ DeviceWiphy' /\ ClientIsUp'
    <2>1. /\ netdev'[n].idx = i /\ netdev'[n].wiphy = w
          /\ \A m \in Ifaces : m # n => netdev'[m] = netdev[m]
          /\ \A m \in Ifaces : netdev[m] # None => netdev[m].idx # i
          /\ \A o \in live : obj[o].idx # i
          /\ ifaceWiphy[n] \in {None, w} /\ up' = up
      BY <1>2, <1>4 DEF AddNetdev
    <2>2. DistinctIndexes'
      BY <2>1 DEF CInv, DistinctIndexes
    <2>3. IndexesOwn'
      BY <1>1, <2>1 DEF CInv, IndexesOwn
    <2>4. DeviceWiphy'
      BY <1>1, <2>1 DEF CInv, DeviceWiphy
    <2>5. ClientIsUp'
      BY <1>1, <2>1, LiveObjects DEF CInv, ClientIsUp
    <2> QED BY <2>2, <2>3, <2>4, <2>5
  <1>5. ASSUME NEW n \in Ifaces, RemoveNetdev(n)
        PROVE  DistinctIndexes' /\ IndexesOwn' /\ DeviceWiphy' /\ ClientIsUp'
    <2>1. /\ netdev'[n] = None
          /\ \A m \in Ifaces : m # n => netdev'[m] = netdev[m] /\ up'[m] = up[m]
      BY <1>2, <1>5 DEF RemoveNetdev
    <2>2. DistinctIndexes' /\ DeviceWiphy'
      BY <1>1, <2>1 DEF CInv, DistinctIndexes, DeviceWiphy
    <2>3. IndexesOwn'
      BY <1>1, <2>1 DEF CInv, IndexesOwn
    <2>4. ClientIsUp'
      BY <1>1, <2>1, LiveObjects DEF CInv, ClientIsUp
    <2> QED BY <2>2, <2>3, <2>4
  <1> QED BY <1>3, <1>4, <1>5 DEF CInv

\* A new regulatory domain gives bands only to wiphys with an interface.
LEMMA RefreshStep ==
    ASSUME IInv, CInv, handleCountryCodeChanged,
           UNCHANGED <<netdev, up, clientIfs, apIfs, handlers>>
    PROVE  CInv'
  <1>1. /\ UNCHANGED <<ifaceWiphy, obj, live, notSetUp>>
        /\ \E ws \in SUBSET {netdev[n].wiphy : n \in {m \in Ifaces :
                                 /\ clientIfs[m] # None \/ apIfs[m] # None
                                 /\ netdev[m] # None}} :
              bandWiphy' \in UpdateBandWiphyIndexMap(bandWiphy, ws)
    BY DEF handleCountryCodeChanged
  <1>2. OneKind' /\ DistinctIndexes' /\ DeviceWiphy'
    BY <1>1 DEF CInv, OneKind, DistinctIndexes, DeviceWiphy
  <1>3. IndexesOwn' /\ FullySubscribed' /\ ClientIsUp'
    BY <1>1 DEF CInv, IndexesOwn, FullySubscribed, ClientIsUp
  <1>4. ASSUME NEW b \in Bands, bandWiphy'[b] # None
        PROVE  \E n \in Ifaces : ifaceWiphy[n] = bandWiphy'[b]
    <2>1. CASE bandWiphy'[b] = bandWiphy[b]
      BY <1>4, <2>1 DEF CInv, MapsFollowInterfaces, hasNoIfaceForWiphyIndex
    <2>2. CASE bandWiphy'[b] # bandWiphy[b]
      <3>1. PICK n \in Ifaces : /\ clientIfs[n] # None \/ apIfs[n] # None
                                /\ netdev[n] # None
                                /\ bandWiphy'[b] = netdev[n].wiphy
        BY <1>1, <2>2 DEF UpdateBandWiphyIndexMap
      <3> QED BY <3>1, MappedNames DEF CInv, DeviceWiphy
    <2> QED BY <2>1, <2>2
  <1>5. MapsFollowInterfaces'
    BY <1>1, <1>4 DEF CInv, MapsFollowInterfaces, hasNoIfaceForWiphyIndex
  <1> QED BY <1>2, <1>3, <1>5 DEF CInv

\* An interface is created: its index and its name are no other object's.
LEMMA CreationStep ==
    ASSUME IInv, CInv, NEW kind \in {"client", "ap"}, NEW n \in Ifaces, NEW o \in Objs,
           NEW gotInfo \in BOOLEAN, NEW gotUp \in BOOLEAN, NEW gotBands \in BOOLEAN,
           netdev[n] # None, obj[o] = None, clientIfs[n] = None, apIfs[n] = None,
           CreateObject(kind, n, o, {}, gotInfo, gotUp, gotBands),
           clientIfs' = IF kind = "client" THEN [clientIfs EXCEPT ![n] = o] ELSE clientIfs,
           apIfs' = IF kind = "ap" THEN [apIfs EXCEPT ![n] = o] ELSE apIfs
    PROVE  CInv'
  <1>0. o # None /\ o \notin live
    BY ConstantsAssumption DEF ConstantsAssumption, IInv, TablesOwnObjects
  <1>1. netdev[n] \in Netdev /\ netdev[n].idx \in IfIndexes /\ netdev[n].wiphy \in Wiphys
    BY DEF IInv, TypeOK, Netdev
  <1>2. PICK i \in IfIndexes, w \in Wiphys : i = netdev[n].idx /\ w = netdev[n].wiphy
    BY <1>1
  <1>3. /\ obj' = [obj EXCEPT ![o] = [kind |-> kind, name |-> n, idx |-> i, wiphy |-> w]]
        /\ live' = live \cup {o}
        /\ handlers' = Unsubscribe(Subscribe(handlers, o, kind, i), {})
        /\ notSetUp' = IF kind = "client" /\ ~gotUp THEN notSetUp \cup {o} ELSE notSetUp
        /\ up' \in SetDown(IF kind = "client" /\ gotUp THEN [up EXCEPT ![n] = TRUE] ELSE up,
                          {})
        /\ ifaceWiphy' = [ifaceWiphy EXCEPT ![n] = w]
        /\ \/ bandWiphy' = bandWiphy
           \/ \E ws \in SUBSET {w} : bandWiphy' \in UpdateBandWiphyIndexMap(bandWiphy, ws)
        /\ netdev' = netdev
    BY <1>2 DEF CreateObject
  <1>4. /\ clientIfs \in [Ifaces -> Objs \cup {None}]
        /\ apIfs \in [Ifaces -> Objs \cup {None}]
        /\ ifaceWiphy \in [Ifaces -> Wiphys \cup {None}]
        /\ obj \in [Objs -> ObjInfo \cup {None}] /\ live \subseteq Objs
        /\ up \in [Ifaces -> BOOLEAN]
    BY DEF IInv, TypeOK
  <1>5. /\ obj'[o].kind = kind /\ obj'[o].name = n /\ obj'[o].idx = i
        /\ obj'[o].wiphy = w
        /\ \A p \in live : obj'[p] = obj[p]
    BY <1>0, <1>3, <1>4
  <1>6. \A p \in live : obj[p].name # n /\ obj[p].idx # i
    <2>1. \A p \in live : obj[p].name # n
      BY LiveObjects, ConstantsAssumption DEF ConstantsAssumption
    <2> QED BY <1>2, <2>1 DEF CInv, IndexesOwn
  <1>7. \A k \in HandlerKinds, j \in IfIndexes :
            handlers'[k][j] = IF k \in KindsOf(kind) /\ j = i THEN o ELSE handlers[k][j]
    BY <1>3 DEF Unsubscribe, Subscribe
  <1>8. OneKind' /\ DistinctIndexes' /\ DeviceWiphy'
    BY <1>2, <1>3, <1>4 DEF CInv, OneKind, DistinctIndexes, DeviceWiphy
  <1>9. IndexesOwn'
    BY <1>2, <1>3, <1>5 DEF CInv, IndexesOwn, DistinctIndexes
  <1>10. FullySubscribed'
    <2>1. ASSUME NEW p \in live, NEW k \in KindsOf(obj[p].kind)
          PROVE  handlers'[k][obj[p].idx] = p
      <3>1. k \in HandlerKinds /\ obj[p].idx \in IfIndexes
        BY LiveObjects DEF KindsOf, HandlerKinds
      <3>2. handlers[k][obj[p].idx] = p
        BY DEF CInv, FullySubscribed
      <3> QED BY <1>6, <1>7, <3>1, <3>2
    <2>2. ASSUME NEW k \in KindsOf(kind)
          PROVE  handlers'[k][i] = o
      <3>1. k \in HandlerKinds
        BY DEF KindsOf, HandlerKinds
      <3> QED BY <1>7, <3>1
    <2> QED BY <1>3, <1>5, <2>1, <2>2 DEF FullySubscribed
  <1>11. ClientIsUp'
    <2>1. \A m \in Ifaces : up'[m] <=> (up[m] \/ (kind = "client" /\ gotUp /\ m = n))
      BY <1>3, <1>4 DEF SetDown, SetUpStateFalse
    <2>2. ASSUME NEW p \in live \ notSetUp, obj[p].kind = "client", netdev[obj[p].name] # None,
                 netdev[obj[p].name].idx = obj[p].idx
          PROVE  up'[obj[p].name]
      <3>1. up[obj[p].name] /\ obj[p].name \in Ifaces
        BY <2>2, LiveObjects DEF CInv, ClientIsUp
      <3> QED BY <2>1, <3>1
    <2>3. kind = "client" /\ gotUp => up'[n]
      BY <2>1
    <2>4. SUFFICES ASSUME NEW p \in live' \ notSetUp', obj'[p].kind = "client",
                          netdev[obj'[p].name] # None,
                          netdev[obj'[p].name].idx = obj'[p].idx
                   PROVE  up'[obj'[p].name]
      BY <1>3 DEF ClientIsUp
    <2>5. CASE p = o
      BY <1>3, <1>5, <2>3, <2>4, <2>5
    <2>6. CASE p \in live
      <3>1. obj'[p] = obj[p] /\ p \notin notSetUp
        BY <1>3, <1>5, <2>4, <2>6
      <3> QED BY <2>2, <2>4, <2>6, <3>1
    <2> QED BY <1>3, <2>5, <2>6
  <1>12. MapsFollowInterfaces'
    <2>1. ASSUME NEW m \in Ifaces
          PROVE  ifaceWiphy'[m] =
                    IF clientIfs'[m] # None THEN obj'[clientIfs'[m]].wiphy
                    ELSE IF apIfs'[m] # None THEN obj'[apIfs'[m]].wiphy ELSE None
      <3>1. CASE m = n
        BY <1>0, <1>3, <1>4, <1>5, <3>1
      <3>2. CASE m # n
        <4>1. /\ clientIfs'[m] = clientIfs[m] /\ apIfs'[m] = apIfs[m]
              /\ ifaceWiphy'[m] = ifaceWiphy[m]
          BY <1>3, <1>4, <3>2
        <4>2. /\ clientIfs[m] # None => obj'[clientIfs[m]] = obj[clientIfs[m]]
              /\ apIfs[m] # None => obj'[apIfs[m]] = obj[apIfs[m]]
          BY <1>5 DEF IInv, TablesOwnObjects
        <4> QED BY <4>1, <4>2 DEF CInv, MapsFollowInterfaces
      <3> QED BY <3>1, <3>2
    <2>2. ASSUME NEW b \in Bands, bandWiphy'[b] # None
          PROVE  \E m \in Ifaces : ifaceWiphy'[m] = bandWiphy'[b]
      <3>1. CASE bandWiphy'[b] = bandWiphy[b]
        <4>1. PICK m \in Ifaces : ifaceWiphy[m] = bandWiphy[b]
          BY <2>2, <3>1 DEF CInv, MapsFollowInterfaces, hasNoIfaceForWiphyIndex
        <4>2. m # n
          BY <2>2, <3>1, <4>1, MappedNames
        <4> QED BY <1>3, <1>4, <3>1, <4>1, <4>2
      <3>2. CASE bandWiphy'[b] # bandWiphy[b]
        <4>1. bandWiphy'[b] = w
          BY <1>3, <3>2 DEF UpdateBandWiphyIndexMap
        <4> QED BY <1>3, <1>4, <4>1
      <3> QED BY <3>1, <3>2
    <2> QED BY <2>1, <2>2 DEF MapsFollowInterfaces, hasNoIfaceForWiphyIndex
  <1> QED BY <1>8, <1>9, <1>10, <1>11, <1>12 DEF CInv

\* What a call that creates an interface comes to.
LEMMA Creates ==
    ASSUME IInv, CarefulFramework, NEW n \in Ifaces,
           createClientInterface(n) \/ createApInterface(n)
    PROVE  /\ clientIfs[n] = None /\ apIfs[n] = None
           /\ \/ SetupInterfaceFails(n)
              \/ /\ netdev[n] # None
                 /\ \E kind \in {"client", "ap"}, o \in Objs,
                       gotInfo, gotUp, gotBands \in BOOLEAN :
                       /\ obj[o] = None
                       /\ CreateObject(kind, n, o, {}, gotInfo, gotUp, gotBands)
                       /\ clientIfs' = IF kind = "client" THEN [clientIfs EXCEPT ![n] = o]
                                       ELSE clientIfs
                       /\ apIfs' = IF kind = "ap" THEN [apIfs EXCEPT ![n] = o] ELSE apIfs
  <1>1. clientIfs[n] = None /\ apIfs[n] = None
    BY DEF createClientInterface, createApInterface
  <1>2. Found(clientIfs, n) = {} /\ Found(apIfs, n) = {}
    BY <1>1 DEF Found
  <1>3. CASE createClientInterface(n)
    <2>1. SUFFICES ASSUME ~SetupInterfaceFails(n)
                   PROVE  /\ netdev[n] # None
                          /\ \E o \in Objs, gotInfo, gotUp, gotBands \in BOOLEAN :
                                /\ obj[o] = None
                                /\ CreateObject("client", n, o, {}, gotInfo, gotUp, gotBands)
                                /\ clientIfs' = [clientIfs EXCEPT ![n] = o]
                                /\ apIfs' = apIfs
      BY <1>1
    <2> QED BY <1>2, <1>3, <2>1 DEF createClientInterface
  <1>4. CASE createApInterface(n)
    <2>1. SUFFICES ASSUME ~SetupInterfaceFails(n)
                   PROVE  /\ netdev[n] # None
                          /\ \E o \in Objs, gotBands \in BOOLEAN :
                                /\ obj[o] = None
                                /\ CreateObject("ap", n, o, {}, TRUE, TRUE, gotBands)
                                /\ apIfs' = [apIfs EXCEPT ![n] = o]
                                /\ clientIfs' = clientIfs
      BY <1>1
    <2> QED BY <1>2, <1>4, <2>1 DEF createApInterface
  <1> QED BY <1>3, <1>4

LEMMA InitCInv == Init => CInv
  <1> SUFFICES ASSUME Init
               PROVE  CInv
    OBVIOUS
  <1> QED BY DEF Init, CInv, OneKind, DistinctIndexes, IndexesOwn, DeviceWiphy,
                 FullySubscribed, ClientIsUp, MapsFollowInterfaces

LEMMA NextCInv ==
    ASSUME IInv, CInv, CarefulFramework, [Next]_vars
    PROVE  CInv'
  <1>1. CASE \E c \in Callbacks : RegisterCallback(c) \/ UnregisterCallback(c)
    BY <1>1, ObjectsStay DEF RegisterCallback, UnregisterCallback, kernelVars, mapVars, objVars
  <1>2. CASE \E n \in Ifaces : createClientInterface(n) \/ createApInterface(n)
    <2>1. PICK n \in Ifaces : createClientInterface(n) \/ createApInterface(n)
      BY <1>2
    <2>2. CASE SetupInterfaceFails(n)
      BY <2>2, ObjectsStay DEF SetupInterfaceFails, kernelVars, mapVars, objVars
    <2> QED BY <2>1, <2>2, Creates, CreationStep
  <1>3. CASE \E n \in Ifaces : tearDownClientInterface(n) \/ tearDownApInterface(n)
    BY <1>3, TearDownCalls
  <1>4. CASE tearDownInterfaces \/ Restart
    BY <1>4, NoObjectStep
  <1>5. CASE notifyCountryCodeChanged
    BY <1>5, RefreshStep DEF notifyCountryCodeChanged, kernelVars
  <1>6. CASE OnRegDomainChanged
    <2>1. CASE handleCountryCodeChanged
      BY <1>6, <2>1, RefreshStep DEF OnRegDomainChanged
    <2>2. CASE UNCHANGED <<mapVars, objVars, staleClients, missedWiphys>>
      BY <1>6, <2>2, ObjectsStay DEF OnRegDomainChanged, mapVars, objVars
    <2> QED BY <1>6, <2>1, <2>2 DEF OnRegDomainChanged
  <1>7. CASE \E o \in Objs : ApGetInterfaceName(o) \/ ReleaseBinder(o)
    <2>1. /\ UNCHANGED <<netdev, up, clientIfs, apIfs, ifaceWiphy, bandWiphy, live, notSetUp,
                        handlers>>
          /\ \A p \in live : obj'[p] = obj[p]
      BY <1>7 DEF ApGetInterfaceName, ReleaseBinder, kernelVars, mapVars, objVars, IInv, TypeOK
    <2> QED BY <2>1, ObjectsStay
  <1>8. CASE \/ \E n \in Ifaces, i \in IfIndexes, w \in Wiphys : AddNetdev(n, i, w)
             \/ \E n \in Ifaces : RemoveNetdev(n)
    BY <1>8, DeviceStep
  <1>9. CASE \E w \in Wiphys, bands \in SUBSET Bands :
                bands \subseteq BandsOf[w] /\ RegChange(w, bands)
    BY <1>9, ObjectsStay DEF RegChange, mapVars, objVars
  <1>10. CASE UNCHANGED vars
    BY <1>10, ObjectsStay DEF vars, kernelVars, mapVars, objVars
  <1> QED BY <1>1, <1>2, <1>3, <1>4, <1>5, <1>6, <1>7, <1>8, <1>9, <1>10 DEF Next

-----------------------------------------------------------------------------
(***************************************************************************)
(* Bands.  A band of the map keeps its wiphy as long as that has an        *)
(* interface, so two wiphys must not share a band: the second one's would  *)
(* not be found if the first one lost it.                                  *)
(***************************************************************************)

Exclusive ==
    \A v, w \in Wiphys : v # w => BandsOf[v] \cap BandsOf[w] = {}

\* A wiphy never has bands that its hardware does not have.
BandsPossible ==
    /\ \A w \in Wiphys : wiphyBands[w] \subseteq BandsOf[w]
    /\ \A b \in Bands : bandWiphy[b] # None => b \in BandsOf[bandWiphy[b]]

\* The two halves of BandsFresh.
WiphysFresh ==
    \A n \in Ifaces :
        ifaceWiphy[n] \notin missedWiphys \cup {None} =>
            \A b \in wiphyBands[ifaceWiphy[n]] : ChannelsAvailable(b)

ClientsFresh ==
    \A o \in live \ staleClients :
        obj[o].kind = "client" => bandInfo[o] = wiphyBands[obj[o].wiphy]

BInv == BandsPossible /\ BandsFresh

LEMMA FreshHalves == BandsFresh <=> (regEvents = 0 => WiphysFresh /\ ClientsFresh)
  BY DEF BandsFresh, WiphysFresh, ClientsFresh

\* Of two exclusive wiphys the map has the one that has the band.
LEMMA BandOwner ==
    ASSUME IInv, Exclusive, BandsPossible, NEW w \in Wiphys, NEW b \in wiphyBands[w],
           bandWiphy[b] # None
    PROVE  bandWiphy[b] = w /\ ChannelsAvailable(b)
  <1>1. b \in Bands /\ bandWiphy[b] \in Wiphys
    BY DEF IInv, TypeOK
  <1>2. bandWiphy[b] = w
    BY <1>1 DEF Exclusive, BandsPossible
  <1> QED BY <1>2 DEF ChannelsAvailable

\* Steps that leave the bands alone.
LEMMA BandsStay ==
    ASSUME BInv, UNCHANGED <<wiphyBands, ifaceWiphy, bandWiphy, missedWiphys, live,
                             staleClients, regEvents>>,
           \A o \in live : obj'[o] = obj[o] /\ bandInfo'[o] = bandInfo[o]
    PROVE  BInv'
  <1>1. BandsPossible'
    BY DEF BInv, BandsPossible
  <1>2. regEvents' = 0 => WiphysFresh'
    BY FreshHalves DEF BInv, WiphysFresh, ChannelsAvailable
  <1>3. regEvents' = 0 => ClientsFresh'
    BY FreshHalves DEF BInv, ClientsFresh
  <1> QED BY <1>1, <1>2, <1>3 DEF BInv, BandsFresh, WiphysFresh, ClientsFresh

\* Adding wiphys that have the band keeps the map possible.
LEMMA UpdatePossible ==
    ASSUME IInv, BandsPossible, NEW ws \in SUBSET Wiphys,
           bandWiphy' \in UpdateBandWiphyIndexMap(bandWiphy, ws), wiphyBands' = wiphyBands
    PROVE  /\ BandsPossible'
           /\ \A b \in Bands : bandWiphy[b] # None => bandWiphy'[b] = bandWiphy[b]
           /\ \A w \in ws : \A b \in wiphyBands[w] : bandWiphy'[b] # None
  <1>1. \A b \in Bands :
            \/ bandWiphy'[b] = bandWiphy[b]
            \/ bandWiphy'[b] \in ws /\ b \in wiphyBands[bandWiphy'[b]]
    BY DEF UpdateBandWiphyIndexMap
  <1>2. BandsPossible'
    BY <1>1 DEF BandsPossible
  <1>3. \A b \in Bands : bandWiphy[b] # None => bandWiphy'[b] = bandWiphy[b]
    BY DEF UpdateBandWiphyIndexMap
  <1>4. ASSUME NEW w \in ws, NEW b \in wiphyBands[w]
        PROVE  bandWiphy'[b] # None
    <2>1. b \in Bands /\ w \in {v \in ws : b \in wiphyBands[v]}
      BY DEF IInv, TypeOK
    <2>2. CASE bandWiphy[b] # None
      BY <1>3, <2>1, <2>2
    <2>3. CASE bandWiphy[b] = None
      <3>1. bandWiphy'[b] \in {v \in ws : b \in wiphyBands[v]}
        BY <2>1, <2>3 DEF UpdateBandWiphyIndexMap
      <3> QED BY <3>1, ConstantsAssumption DEF ConstantsAssumption
    <2> QED BY <2>2, <2>3
  <1> QED BY <1>2, <1>3, <1>4

\* handleCountryCodeChanged makes everything fresh, whatever it was before,
\* except what its requests get no answer for.
LEMMA Refreshed ==
    ASSUME IInv, IInv', CInv, Exclusive, BandsPossible, handleCountryCodeChanged,
           wiphyBands' = wiphyBands
    PROVE  BandsPossible' /\ WiphysFresh' /\ ClientsFresh'
  <1> DEFINE clients == Range(clientIfs) \ {None}
             names == {n \in Ifaces : clientIfs[n] # None \/ apIfs[n] # None}
  <1>1. PICK parsed \in SUBSET clients, reached \in SUBSET {n \in names : netdev[n] # None} :
            \E answered \in SUBSET parsed, ws \in SUBSET {netdev[n].wiphy : n \in reached} :
            /\ bandInfo' = [o \in Objs |->
                  IF o \in parsed THEN wiphyBands[obj[o].wiphy] ELSE bandInfo[o]]
            /\ staleClients' = (staleClients \ answered) \cup (clients \ answered)
            /\ bandWiphy' \in UpdateBandWiphyIndexMap(bandWiphy, ws)
            /\ missedWiphys' = (missedWiphys \ ws)
                  \cup ({ifaceWiphy[n] : n \in names} \ (ws \cup {None}))
            /\ UNCHANGED <<ifaceWiphy, obj, live>>
    BY DEF handleCountryCodeChanged
  <1>2. PICK answered \in SUBSET parsed, ws \in SUBSET {netdev[n].wiphy : n \in reached} :
            /\ bandInfo' = [o \in Objs |->
                  IF o \in parsed THEN wiphyBands[obj[o].wiphy] ELSE bandInfo[o]]
            /\ staleClients' = (staleClients \ answered) \cup (clients \ answered)
            /\ bandWiphy' \in UpdateBandWiphyIndexMap(bandWiphy, ws)
            /\ missedWiphys' = (missedWiphys \ ws)
                  \cup ({ifaceWiphy[n] : n \in names} \ (ws \cup {None}))
            /\ UNCHANGED <<ifaceWiphy, obj, live>>
    BY <1>1
  <1>3. ws \in SUBSET Wiphys
    BY DEF IInv, TypeOK, Netdev
  <1>4. BandsPossible' /\ \A w \in ws : \A b \in wiphyBands[w] : bandWiphy'[b] # None
    BY <1>2, <1>3, UpdatePossible
  <1>5. WiphysFresh'
    <2>1. SUFFICES ASSUME NEW n \in Ifaces, ifaceWiphy[n] \notin missedWiphys' \cup {None},
                          NEW b \in wiphyBands[ifaceWiphy[n]]
                   PROVE  ChannelsAvailable(b)'
      BY <1>2 DEF WiphysFresh
    <2>2. n \in names
      BY <2>1, MappedNames
    <2>3. ifaceWiphy[n] \in ws
      BY <1>2, <2>1, <2>2
    <2>4. bandWiphy'[b] # None
      BY <1>4, <2>3
    <2>5. b \in Bands /\ ifaceWiphy[n] \in Wiphys
      BY <1>3, <2>3 DEF IInv, TypeOK
    <2>6. bandWiphy'[b] \in Wiphys
      BY <2>4, <2>5 DEF IInv, TypeOK
    <2>7. bandWiphy'[b] = ifaceWiphy[n]
      BY <1>4, <2>4, <2>5, <2>6 DEF BandsPossible, Exclusive
    <2> QED BY <2>4, <2>7 DEF ChannelsAvailable
  <1>6. ClientsFresh'
    <2>1. SUFFICES ASSUME NEW o \in live, o \notin staleClients', obj[o].kind = "client"
                   PROVE  bandInfo'[o] = wiphyBands[obj[o].wiphy]
      BY <1>2 DEF ClientsFresh
    <2>2. o \in Objs /\ o \in clients
      <3>1. /\ o \in Objs /\ obj[o].name \in Ifaces
            /\ o = clientIfs[obj[o].name]
        BY <2>1, LiveObjects
      <3>2. o # None
        BY <3>1, ConstantsAssumption DEF ConstantsAssumption
      <3>3. DOMAIN clientIfs = Ifaces
        BY DEF IInv, TypeOK
      <3> QED BY <3>1, <3>2, <3>3 DEF Range
    <2>3. o \in answered
      BY <1>2, <2>1, <2>2
    <2> QED BY <1>2, <2>2, <2>3
  <1> QED BY <1>4, <1>5, <1>6

\* A new interface: if it is its wiphy's first, its bands are asked for.
LEMMA CreationFresh ==
    ASSUME IInv, IInv', CInv, Exclusive, BInv,
           NEW kind \in {"client", "ap"}, NEW n \in Ifaces, NEW o \in Objs,
           NEW gotInfo \in BOOLEAN, NEW gotUp \in BOOLEAN, NEW gotBands \in BOOLEAN,
           netdev[n] # None, obj[o] = None,
           CreateObject(kind, n, o, {}, gotInfo, gotUp, gotBands)
    PROVE  BInv'
  <1>0. o \notin live
    BY DEF IInv, TablesOwnObjects
  <1>1. PICK w \in Wiphys : w = netdev[n].wiphy
    BY DEF IInv, TypeOK, Netdev
  <1>2. /\ \A p \in live : obj'[p] = obj[p] /\ bandInfo'[p] = bandInfo[p]
        /\ obj'[o].kind = kind /\ obj'[o].wiphy = w
        /\ live' = live \cup {o}
        /\ bandInfo'[o] \in ParsedBands(kind, w, gotInfo)
        /\ staleClients' = IF kind = "client" /\ ~gotInfo THEN staleClients \cup {o}
                           ELSE staleClients
        /\ ifaceWiphy' = [ifaceWiphy EXCEPT ![n] = w]
        /\ UNCHANGED <<wiphyBands, regEvents>>
    BY <1>0, <1>1 DEF CreateObject, IInv, TypeOK
  <1>3. \/ /\ hasNoIfaceForWiphyIndex(ifaceWiphy, w)
           /\ bandWiphy' \in UpdateBandWiphyIndexMap(bandWiphy,
                                                     IF gotBands THEN {w} ELSE {})
           /\ missedWiphys' = IF gotBands THEN missedWiphys \ {w}
                              ELSE missedWiphys \cup {w}
        \/ /\ ~hasNoIfaceForWiphyIndex(ifaceWiphy, w)
           /\ UNCHANGED <<bandWiphy, missedWiphys>>
    BY <1>1 DEF CreateObject
  <1>4. PICK ws \in SUBSET {w} :
            /\ \/ bandWiphy' \in UpdateBandWiphyIndexMap(bandWiphy, ws)
               \/ ws = {} /\ bandWiphy' = bandWiphy
            /\ missedWiphys \subseteq missedWiphys' \cup ws
            /\ w \in ws \/ w \in missedWiphys'
                  \/ (missedWiphys' = missedWiphys /\ \E m \in Ifaces : ifaceWiphy[m] = w)
    <2>1. CASE ~hasNoIfaceForWiphyIndex(ifaceWiphy, w)
      BY <1>3, <2>1 DEF hasNoIfaceForWiphyIndex
    <2>2. CASE hasNoIfaceForWiphyIndex(ifaceWiphy, w)
      <3>1. CASE gotBands
        BY <1>3, <2>2, <3>1
      <3>2. CASE ~gotBands
        BY <1>3, <2>2, <3>2
      <3> QED BY <3>1, <3>2
    <2> QED BY <2>1, <2>2
  <1>5. /\ BandsPossible'
        /\ \A b \in Bands : bandWiphy[b] # None => bandWiphy'[b] = bandWiphy[b]
        /\ \A v \in ws : \A b \in wiphyBands[v] : bandWiphy'[b] # None
    <2>1. CASE bandWiphy' \in UpdateBandWiphyIndexMap(bandWiphy, ws)
      BY <1>2, <2>1, UpdatePossible DEF BInv
    <2>2. CASE ws = {} /\ bandWiphy' = bandWiphy
      BY <1>2, <2>2 DEF BInv, BandsPossible
    <2> QED BY <1>4, <2>1, <2>2
  <1>6. ASSUME regEvents = 0
        PROVE  WiphysFresh'
    <2>1. SUFFICES ASSUME NEW m \in Ifaces,
                          ifaceWiphy'[m] \notin missedWiphys' \cup {None},
                          NEW b \in wiphyBands[ifaceWiphy'[m]]
                   PROVE  ChannelsAvailable(b)'
      BY <1>2 DEF WiphysFresh
    <2>2. PICK v \in Wiphys : v = ifaceWiphy'[m]
      BY <2>1 DEF IInv, TypeOK
    <2>3. b \in Bands
      BY <2>1, <2>2 DEF IInv, TypeOK
    <2>4. v \in ws \/ (v \notin missedWiphys /\ \E l \in Ifaces : ifaceWiphy[l] = v)
      <3>1. CASE m = n
        <4>1. v = w
          BY <1>2, <2>2, <3>1 DEF IInv, TypeOK
        <4> QED BY <1>4, <2>1, <2>2, <4>1
      <3>2. CASE m # n
        <4>1. ifaceWiphy[m] = v
          BY <1>2, <2>2, <3>2 DEF IInv, TypeOK
        <4> QED BY <1>4, <2>1, <2>2, <4>1
      <3> QED BY <3>1, <3>2
    <2>5. bandWiphy'[b] # None
      <3>1. CASE v \in ws
        BY <1>5, <2>1, <2>2, <3>1
      <3>2. CASE v \notin missedWiphys /\ \E l \in Ifaces : ifaceWiphy[l] = v
        <4>1. v # None
          BY <2>1, <2>2
        <4>2. ChannelsAvailable(b)
          BY <1>6, <2>1, <2>2, <3>2, <4>1, FreshHalves DEF BInv, WiphysFresh
        <4> QED BY <1>5, <2>3, <4>2 DEF ChannelsAvailable
      <3> QED BY <2>4, <3>1, <3>2
    <2>6. bandWiphy'[b] \in Wiphys
      BY <2>3, <2>5 DEF IInv, TypeOK
    <2>7. bandWiphy'[b] = v
      BY <1>2, <1>5, <2>1, <2>2, <2>3, <2>5, <2>6 DEF BandsPossible, Exclusive
    <2> QED BY <1>2, <2>1, <2>2, <2>5, <2>7 DEF ChannelsAvailable
  <1>7. ASSUME regEvents = 0
        PROVE  ClientsFresh'
    <2>1. SUFFICES ASSUME NEW p \in live', p \notin staleClients', obj'[p].kind = "client"
                   PROVE  bandInfo'[p] = wiphyBands[obj'[p].wiphy]
      BY <1>2 DEF ClientsFresh
    <2>2. CASE p = o
      <3>1. kind = "client" /\ gotInfo
        BY <1>2, <2>1, <2>2
      <3> QED BY <1>2, <2>2, <3>1 DEF ParsedBands
    <2>3. CASE p \in live
      BY <1>2, <1>7, <2>1, <2>3, FreshHalves DEF BInv, ClientsFresh
    <2> QED BY <1>2, <2>2, <2>3
  <1>8. BandsFresh'
    BY <1>2, <1>6, <1>7 DEF BandsFresh, WiphysFresh, ClientsFresh
  <1> QED BY <1>5, <1>8 DEF BInv

\* An interface is torn down: the bands of its wiphy go with the last one.
LEMMA TearDownFresh ==
    ASSUME IInv, Exclusive, BInv, NEW n \in Ifaces,
           tearDownClientInterface(n) \/ tearDownApInterface(n)
    PROVE  BInv'
  <1>1. /\ ForgetWiphy(n) /\ UNCHANGED <<wiphyBands, regEvents, missedWiphys, obj, bandInfo>>
        /\ live' \subseteq live /\ live' \ staleClients' \subseteq live \ staleClients
    BY DEF tearDownClientInterface, tearDownApInterface, Destroy
  <1>2. /\ ifaceWiphy \in [Ifaces -> Wiphys \cup {None}]
        /\ bandWiphy \in [Bands -> Wiphys \cup {None}]
    BY DEF IInv, TypeOK
  <1>3. ifaceWiphy' = [ifaceWiphy EXCEPT ![n] = None]
    BY <1>1 DEF ForgetWiphy
  <1>4. ASSUME NEW b \in Bands
        PROVE  \/ bandWiphy'[b] = bandWiphy[b]
               \/ bandWiphy'[b] = None /\ hasNoIfaceForWiphyIndex(ifaceWiphy', bandWiphy[b])
    BY <1>1, <1>2, <1>3 DEF ForgetWiphy, EraseBandWiphyIndexMap
  <1>5. BandsPossible'
    BY <1>1, <1>4 DEF BInv, BandsPossible
  <1>6. ASSUME regEvents = 0
        PROVE  WiphysFresh'
    <2>1. SUFFICES ASSUME NEW m \in Ifaces,
                          ifaceWiphy'[m] \notin missedWiphys \cup {None},
                          NEW b \in wiphyBands[ifaceWiphy'[m]]
                   PROVE  ChannelsAvailable(b)'
      BY <1>1 DEF WiphysFresh
    <2>2. m # n /\ ifaceWiphy'[m] = ifaceWiphy[m] /\ ifaceWiphy[m] \in Wiphys
      BY <1>2, <1>3, <2>1
    <2>3. ChannelsAvailable(b) /\ b \in Bands
      BY <1>6, <2>1, <2>2, FreshHalves DEF BInv, WiphysFresh, IInv, TypeOK
    <2>4. bandWiphy[b] = ifaceWiphy[m]
      BY <2>1, <2>2, <2>3, BandOwner DEF BInv, ChannelsAvailable
    <2>5. bandWiphy'[b] = bandWiphy[b]
      BY <1>4, <2>2, <2>3, <2>4 DEF hasNoIfaceForWiphyIndex
    <2> QED BY <1>1, <2>3, <2>5 DEF ChannelsAvailable
  <1>7. regEvents = 0 => ClientsFresh'
    BY <1>1, FreshHalves DEF BInv, ClientsFresh
  <1>8. BandsFresh'
    BY <1>1, <1>6, <1>7 DEF BandsFresh, WiphysFresh, ClientsFresh
  <1> QED BY <1>5, <1>8 DEF BInv

\* Without an object nothing can be stale.
LEMMA NoObjectFresh ==
    ASSUME live' = {}, \A n \in Ifaces : ifaceWiphy'[n] = None
    PROVE  BandsFresh'
  BY DEF BandsFresh

\* A regulatory event is read.  If it refreshes nothing, no wiphy that the Server
\* listens to has an interface, hence none has.
LEMMA EventRead ==
    ASSUME IInv, IInv', CInv, Exclusive, BInv, OnRegDomainChanged
    PROVE  BInv'
  <1>1. wiphyBands' = wiphyBands
    BY DEF OnRegDomainChanged
  <1>2. CASE handleCountryCodeChanged
    <2>1. BandsPossible' /\ WiphysFresh' /\ ClientsFresh'
      BY <1>1, <1>2, Refreshed DEF BInv
    <2> QED BY <2>1 DEF BInv, BandsFresh, WiphysFresh, ClientsFresh
  <1>3. CASE /\ \A w \in regSubs : hasNoIfaceForWiphyIndex(ifaceWiphy, w)
             /\ UNCHANGED <<mapVars, objVars, staleClients, missedWiphys>>
    <2>1. \A n \in Ifaces : ifaceWiphy[n] = None
      BY <1>3 DEF IInv, RegChangesHeard, hasNoIfaceForWiphyIndex
    <2>2. live = {}
      BY <2>1, LiveObjects, ConstantsAssumption DEF ConstantsAssumption
    <2>3. BandsFresh'
      BY <1>3, <2>1, <2>2, NoObjectFresh DEF mapVars, objVars
    <2>4. BandsPossible'
      BY <1>1, <1>3 DEF BInv, BandsPossible, mapVars
    <2> QED BY <2>3, <2>4 DEF BInv
  <1> QED BY <1>2, <1>3 DEF OnRegDomainChanged

LEMMA InitBInv == Init => BInv
  <1> SUFFICES ASSUME Init
               PROVE  BInv
    OBVIOUS
  <1> QED BY DEF Init, BInv, BandsPossible, BandsFresh

LEMMA NextBInv ==
    ASSUME IInv, IInv', CInv, CarefulFramework, Exclusive, BInv, [Next]_vars
    PROVE  BInv'
  <1>1. CASE \E c \in Callbacks : RegisterCallback(c) \/ UnregisterCallback(c)
    BY <1>1, BandsStay DEF RegisterCallback, UnregisterCallback, kernelVars, mapVars, objVars
  <1>2. CASE \E n \in Ifaces : createClientInterface(n) \/ createApInterface(n)
    <2>1. PICK n \in Ifaces : createClientInterface(n) \/ createApInterface(n)
      BY <1>2
    <2>2. CASE SetupInterfaceFails(n)
      BY <2>2, BandsStay DEF SetupInterfaceFails, kernelVars, mapVars, objVars
    <2> QED BY <2>1, <2>2, Creates, CreationFresh
  <1>3. CASE \E n \in Ifaces : tearDownClientInterface(n) \/ tearDownApInterface(n)
    BY <1>3, TearDownFresh
  <1>4. CASE tearDownInterfaces \/ Restart
    <2>1. BandsFresh'
      BY <1>4, NoObjectStep, NoObjectFresh
    <2>2. wiphyBands' = wiphyBands
      BY <1>4 DEF tearDownInterfaces, Restart
    <2>3. BandsPossible'
      BY <1>4, <2>2, NoObjectStep DEF BInv, BandsPossible
    <2> QED BY <2>1, <2>3 DEF BInv
  <1>5. CASE notifyCountryCodeChanged
    <2>1. BandsPossible' /\ WiphysFresh' /\ ClientsFresh'
      BY <1>5, Refreshed DEF BInv, notifyCountryCodeChanged, kernelVars
    <2> QED BY <2>1 DEF BInv, BandsFresh, WiphysFresh, ClientsFresh
  <1>6. CASE OnRegDomainChanged
    BY <1>6, EventRead
  <1>7. CASE \E o \in Objs : ApGetInterfaceName(o) \/ ReleaseBinder(o)
    <2>1. /\ UNCHANGED <<wiphyBands, ifaceWiphy, bandWiphy, missedWiphys, live,
                         staleClients, regEvents>>
          /\ \A p \in live : obj'[p] = obj[p] /\ bandInfo'[p] = bandInfo[p]
      BY <1>7 DEF ApGetInterfaceName, ReleaseBinder, kernelVars, mapVars, objVars, IInv, TypeOK
    <2> QED BY <2>1, BandsStay
  <1>8. CASE \/ \E n \in Ifaces, i \in IfIndexes, w \in Wiphys : AddNetdev(n, i, w)
             \/ \E n \in Ifaces : RemoveNetdev(n)
    BY <1>8, BandsStay DEF AddNetdev, RemoveNetdev, mapVars, objVars
  <1>9. ASSUME NEW w \in Wiphys, NEW bands \in SUBSET Bands, bands \subseteq BandsOf[w],
               RegChange(w, bands)
        PROVE  BInv'
    <2>1. regEvents' # 0
      BY <1>9 DEF RegChange, IInv, TypeOK
    <2>2. BandsPossible'
      BY <1>9 DEF RegChange, BInv, BandsPossible, IInv, TypeOK, mapVars
    <2> QED BY <2>1, <2>2 DEF BInv, BandsFresh
  <1>10. CASE UNCHANGED vars
    BY <1>10, BandsStay DEF vars, kernelVars, mapVars, objVars
  <1> QED BY <1>1, <1>2, <1>3, <1>4, <1>5, <1>6, <1>7, <1>8, <1>9, <1>10 DEF Next

-----------------------------------------------------------------------------
(***************************************************************************)
(* The theorems                                                            *)
(***************************************************************************)

\* With a careful framework names and indexes stay apart, and with them every
\* interface's handlers, link state and entry in the maps.
THEOREM CarefulInvariance ==
    ASSUME CarefulFramework
    PROVE  Spec => []CInv
  <1>1. IInv /\ CInv /\ [Next]_vars => CInv'
    BY NextCInv
  <1> QED BY Invariance, InitCInv, <1>1, PTL DEF Spec

\* No destructor takes the handlers of an interface that lives on: every live
\* object receives every kind of event its constructor subscribed to.
THEOREM EventsReachOwners ==
    ASSUME CarefulFramework
    PROVE  Spec => []FullySubscribed
  <1>1. CInv => FullySubscribed
    BY DEF CInv
  <1> QED BY CarefulInvariance, <1>1, PTL

\* No destructor switches off an interface that lives on: a client whose own
\* constructor set its device up is up as long as the device exists, though every
\* SetUpState of its own and of others may fail.
THEOREM ClientsAreUp ==
    ASSUME CarefulFramework
    PROVE  Spec => []ClientIsUp
  <1>1. CInv => ClientIsUp
    BY DEF CInv
  <1> QED BY CarefulInvariance, <1>1, PTL

\* iface_to_wiphy_index_map_ has exactly the names with an interface and the
\* wiphys these were made for, and band_to_wiphy_index_map_ only such wiphys.
THEOREM MapsAreTrue ==
    ASSUME CarefulFramework
    PROVE  Spec => []MapsFollowInterfaces
  <1>1. CInv => MapsFollowInterfaces
    BY DEF CInv
  <1> QED BY CarefulInvariance, <1>1, PTL

\* When all regulatory events are read, the channels of every wiphy with an
\* interface are found and every client knows its bands, unless the last request
\* for them failed; the wiphys must not share a band.
THEOREM BandsAreFresh ==
    ASSUME CarefulFramework, Exclusive
    PROVE  Spec => []BandsFresh
  <1>1. IInv /\ IInv' /\ CInv /\ BInv /\ [Next]_vars => BInv'
    BY NextBInv
  <1>2. BInv => BandsFresh
    BY DEF BInv
  <1> QED BY Invariance, CarefulInvariance, InitBInv, <1>1, <1>2, PTL DEF Spec

=============================================================================
