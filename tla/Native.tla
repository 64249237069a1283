-------------------------------- MODULE Native --------------------------------
(***************************************************************************)
(* The native port (am/src/native) under the programs of amtest: mainargs  *)
(* selects what the program does ("a" audio, "k" keyboard, "i" interrupts, *)
(* "p" virtual memory), and the threads of the port run beside it.  The    *)
(* three parts share no state, so each is checked under the program that   *)
(* uses it.                                                                *)
(***************************************************************************)
EXTENDS NativeAudio, NativeKeys, NativeVme

VARIABLES mainargs

natVars == <<mainargs, audioVars, keyVars, vmeVars>>

(* The parts a program does not use start in one state.                    *)
NatInit ==
  /\ mainargs \in {"a", "k", "i", "p"}
  /\ AudioInit /\ (mainargs = "a" \/ (port = "native" /\ wait))
  /\ KeyInit /\ polling = (mainargs # "i")
  /\ VmeInit

AudioProgram == mainargs = "a" /\ AudioMain /\ UNCHANGED <<mainargs, keyVars, vmeVars>>
AudioThread == mainargs = "a" /\ AudioDevice /\ UNCHANGED <<mainargs, keyVars, vmeVars>>
Keyboard == mainargs \in {"k", "i"} /\ KeyNext /\ UNCHANGED <<mainargs, audioVars, vmeVars>>
Memory == mainargs = "p" /\ VmeNext /\ UNCHANGED <<mainargs, audioVars, keyVars>>

NatNext == AudioProgram \/ AudioThread \/ Keyboard \/ Memory

(* The program executes, and SDL goes on asking for samples.               *)
NatSpec == NatInit /\ [][NatNext]_natVars /\ WF_natVars(AudioProgram) /\ WF_natVars(AudioThread)

(* The audio test comes to an end, lost updates or not: the program's wait *)
(* for room and its wait for silence are over some time.  A program that   *)
(* does not wait may undo every update of audio_play for ever.             *)
AudioFinishes == mainargs = "a" /\ wait => <>(w_at = "end")
=============================================================================
