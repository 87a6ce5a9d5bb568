--------------------------- MODULE MCNetlinkEvents ---------------------------
(***************************************************************************)
(* Messages for TLC: a channel whose width has a number out of the row;    *)
(* the world's domain, and a country's without its type, which may be      *)
(* taken for one with it.                                                  *)
(***************************************************************************)
EXTENDS NetlinkEvents

MCChannels == {<<5180, 13>>}

MCRegMessages == {<<World, TRUE>>, <<"us", FALSE>>}

=============================================================================
