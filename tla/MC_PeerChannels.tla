-------------------------- MODULE MC_PeerChannels ---------------------------
(* Instantiates PeerChannels for TLC: channels and roots are model values. *)
EXTENDS PeerChannels, TLC

CONSTANTS ch1, ch2, s1

MCTwoChannels == {ch1, ch2}
MCOneChannel == {ch1}
MCStaticRoots == {s1}
====
