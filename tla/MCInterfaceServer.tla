-------------------------- MODULE MCInterfaceServer --------------------------
(***************************************************************************)
(* Instances of InterfaceServer for TLC.                                   *)
(***************************************************************************)
EXTENDS InterfaceServer, TLC

CONSTANTS w1, w2, b1, b2

\* One chip with every band.
AllBands == [w \in Wiphys |-> Bands]

\* Two chips with exclusive bands.
ExclusiveBands == [w \in Wiphys |-> IF w = w1 THEN {b1} ELSE {b2}]

Symmetry == Permutations(Objs) \cup Permutations(Ifaces)
                \cup Permutations(IfIndexes) \cup Permutations(Callbacks)

\* The exclusive chips change places together with their bands.
ChipSymmetry ==
    Symmetry \cup {(w1 :> w2) @@ (w2 :> w1) @@ (b1 :> b2) @@ (b2 :> b1)}

HasItsDevice(o) ==
    netdev[obj[o].name] # None /\ netdev[obj[o].name].idx = obj[o].idx

\* What of a state the properties of a careful framework, now or later, depend
\* on.  No guard reads up, and ClientIsUp reads it of a live client's own device
\* only, which it does not get back once it is removed.  Of a destroyed object it
\* matters that its binder is held, but not what it was; impl and scannerValid
\* serve the calls through binders, and a crash leaves everything as it was.  The
\* first interface of a wiphy sets anew what regSubs and missedWiphys say of it,
\* and the answer to a client's next request its bandInfo.
CarefulView ==
    LET used == Range(ifaceWiphy)
    IN  <<netdev, {o \in live \ notSetUp : HasItsDevice(o) /\ up[obj[o].name]},
          wiphyBands, regEvents, clientIfs, apIfs, mapVars, callbacks,
          [o \in live |-> obj[o]], {o \in Objs : obj[o] # None},
          [o \in live \ staleClients |-> bandInfo[o]], staleClients, notSetUp,
          handlers, regSubs \cap used, known, missedWiphys \cap used>>

=============================================================================
