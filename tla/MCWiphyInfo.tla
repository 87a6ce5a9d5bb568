----------------------------- MODULE MCWiphyInfo -----------------------------
(***************************************************************************)
(* Instances of WiphyInfo for TLC.                                         *)
(***************************************************************************)
EXTENDS WiphyInfo

\* The last channel of 5 GHz, the first ones of 6 and 60 GHz.
MCFrequencies == {5885, 5935, 58320}

Plain == [disabled |-> FALSE, noIr |-> FALSE, dfs |-> "absent"]

\* A channel in which radar was seen, or in which it has yet to be looked for.
MCRegulations ==
    <<{Plain, [Plain EXCEPT !.disabled = TRUE]},
      {Plain, [Plain EXCEPT !.noIr = TRUE, !.dfs = "unavailable"],
       [Plain EXCEPT !.dfs = "usable"]}>>

\* Two streams with 802.11n, where the transmit side has one of its own; and a
\* band whose attributes disagree: four and two streams with 802.11ac, three
\* with 802.11ax, for the first of two interface types.
MCBands ==
    <<[ht |-> TRUE, vht |-> <<>>,
       htMcs |-> <<255, 255, 0, 0, 0, 0, 0, 0, 0, 0, 0, 0, 3, 0, 0, 0>>,
       vhtMcs |-> <<>>, iftypes |-> <<>>],
      [ht |-> TRUE, vht |-> <<4>>, htMcs |-> <<255>>,
       vhtMcs |-> <<170, 255, 0, 0, 250, 255, 0, 0>>,
       iftypes |-> <<[hePhy |-> <<16, 0, 0, 0, 0, 0, 0, 0, 0>>,
                      heMcs |-> <<234, 255, 234, 255>>, ehtPhy |-> <<2>>],
                     [hePhy |-> <<>>, heMcs |-> <<>>, ehtPhy |-> <<>>]>>]>>
=============================================================================
