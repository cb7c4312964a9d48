----------------------------- MODULE MCPlayback -----------------------------
(* Instances of Playback for TLC. *)
EXTENDS Playback, TLC

Lasting(on, off) == [key |-> "k", on |-> on, off |-> off]

\* Nothing; a note in the middle; two notes around a rest.
MCContents == {{}, {Lasting(1, 3)}, {Lasting(0, 1), Lasting(2, 4)}}

ChannelsAlike == Permutations(Channels)
=============================================================================
