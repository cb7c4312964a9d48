----------------------------- MODULE MCHandOver -----------------------------
(***************************************************************************)
(* One run for the components that hand things over between the user's     *)
(* thread, the audio thread and a device's: published objects, the         *)
(* snapshot, the mixer, the schedule and the transport commands, a change  *)
(* of device. They share no state here: a behaviour is one of the          *)
(* component `part` names, chosen at the start, while the others stay as   *)
(* they are.                                                               *)
(***************************************************************************)
EXTENDS Publisher, SnapshotSlot, MCMixerGraph, DeviceChange, ModelPublish, TLC

VARIABLE part

Parts == {"published", "snapshot", "mixer", "device", "desk"}
everything == <<part, vars, snapshotVars, mixerVars, changeVars, publishVars>>

\* The parts left out start in one of their states.
HandOverInit ==
  /\ part \in Parts
  /\ Init /\ SlotInit /\ MixerInit /\ DeviceInit /\ PublishInit
  /\ part # "device" => default = CHOOSE d \in Devices : TRUE

HandOverNext ==
  \/ /\ part = "published" /\ Next
     /\ UNCHANGED <<part, snapshotVars, mixerVars, changeVars, publishVars>>
  \/ /\ part = "snapshot" /\ SlotNext
     /\ UNCHANGED <<part, vars, mixerVars, changeVars, publishVars>>
  \/ /\ part = "mixer" /\ MixerNext
     /\ UNCHANGED <<part, vars, snapshotVars, changeVars, publishVars>>
  \/ /\ part = "device" /\ DeviceNext
     /\ UNCHANGED <<part, vars, snapshotVars, mixerVars, publishVars>>
  \/ /\ part = "desk" /\ PublishNext
     /\ UNCHANGED <<part, vars, snapshotVars, mixerVars, changeVars>>

HandOverSpec == HandOverInit /\ [][HandOverNext]_everything

\* Three devices: two that differ in the rate alone and two in the block alone, so
\* that a move changes either, both or nothing.
MCDevices == {"built-in", "usb", "hdmi"}
MCFormatOf ==
  [d \in MCDevices |-> [rate   |-> IF d = "usb" THEN 2 ELSE 1,
                        frames |-> IF d = "hdmi" THEN 2 ELSE 1]]

\* A song with a two-bar pattern to load, and one without any.
MCSavedSongs ==
  {[patterns |-> 11 :> [bars |-> 2, place |-> 1],
    clips    |-> 12 :> [of |-> 11, start |-> 1, bars |-> 2],
    tempo    |-> 1, loop |-> TRUE],
   [patterns |-> <<>>, clips |-> <<>>, tempo |-> 2, loop |-> FALSE]}

Symmetry == Permutations(Objs)
=============================================================================
