------------------------------ MODULE MCSound -------------------------------
(***************************************************************************)
(* One run for the components that decide what sounds: the transport and   *)
(* the schedule, the built-in sampler, the stock instruments, and the part *)
(* of its file an audio clip plays. They share no state here: a behaviour  *)
(* is one of the component `part` names, chosen at the start, while the    *)
(* others stay as they are.                                                *)
(***************************************************************************)
EXTENDS MCPlayback, MCSampler, StockVoices, AudioClip

VARIABLE part

Parts == {"playback", "sampler", "stock", "clips"}
everything == <<part, vars, samplerVars, stockVars, clipVars>>

\* The parts left out start in one of their states.
SoundInit ==
  /\ part \in Parts
  /\ Init /\ SamplerInit /\ StockInit /\ ClipInit
  /\ part # "sampler" => ~clipPlays
  /\ part # "stock" => kind = CHOOSE k \in Kinds : TRUE
  /\ part # "clips" => bpm = CHOOSE t \in ClipTempos : TRUE

SoundNext ==
  \/ /\ part = "playback" /\ Next
     /\ UNCHANGED <<part, samplerVars, stockVars, clipVars>>
  \/ /\ part = "sampler" /\ SamplerNext
     /\ UNCHANGED <<part, vars, stockVars, clipVars>>
  \/ /\ part = "stock" /\ StockNext
     /\ UNCHANGED <<part, vars, samplerVars, clipVars>>
  \/ /\ part = "clips" /\ ClipNext
     /\ UNCHANGED <<part, vars, samplerVars, stockVars>>

SoundSpec == SoundInit /\ [][SoundNext]_everything
=============================================================================
