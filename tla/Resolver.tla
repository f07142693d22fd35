------------------------------ MODULE Resolver ------------------------------
(***************************************************************************)
(* What a chunk store promises its readers, and nothing of how.  A reader  *)
(* asks for one chunk, in the absolute frame of a density, or for all that *)
(* the scene covers, in the frame the scene is recentered to.  What it     *)
(* then holds is what the scene resolves to now, in the frame it asked     *)
(* for: all it asked for if that fits in the store's memory, and otherwise *)
(* some of it.                                                             *)
(***************************************************************************)
EXTENDS Integers

CONSTANTS
  Keys, Scenes, Densities,
  Fits(_),            \* whether the memory holds that many chunks
  Resolved(_, _, _),  \* the chunk a scene has at a key, in a frame
  NoAsk, NoReply

VARIABLES
  scene,
  asked,   \* the call a reader has made and the store not forgotten
  reply    \* what it was given

OneChunk(key, density) ==
  [keys |-> {key}, frame |-> [density |-> density, origin |-> 0]]
WholeRegion(density) ==
  [keys |-> scene.covering, frame |-> [density |-> density, origin |-> scene.recenter]]

Calls ==
  {OneChunk(key, density) : key \in Keys, density \in Densities}
    \cup {WholeRegion(density) : density \in Densities}

Given(call, keys) ==
  /\ keys \subseteq call.keys
  /\ Fits(call.keys) => keys = call.keys
  /\ reply' = [k \in keys |-> Resolved(scene, k, call.frame)]

Init ==
  /\ scene \in Scenes
  /\ asked = NoAsk
  /\ reply = NoReply

Edit ==
  /\ scene' \in Scenes
  /\ asked' = NoAsk
  /\ reply' = NoReply

Ask ==
  /\ asked' \in Calls
  /\ reply' = NoReply
  /\ UNCHANGED scene

Answer ==
  /\ asked # NoAsk
  /\ reply = NoReply
  /\ \E keys \in SUBSET Keys : Given(asked, keys)
  /\ UNCHANGED <<scene, asked>>

(* Asked and answered in one call.                                         *)
Read ==
  /\ asked' \in Calls
  /\ \E keys \in SUBSET Keys : Given(asked', keys)
  /\ UNCHANGED scene

(* The process ends: nobody is left to answer, or to ask.                  *)
Forget ==
  /\ asked' = NoAsk
  /\ reply' = NoReply
  /\ UNCHANGED scene

Next == Edit \/ Ask \/ Answer \/ Read \/ Forget

Spec == Init /\ [][Next]_<<scene, asked, reply>>
=============================================================================
