-------------------------- MODULE SessionContract --------------------------
(***************************************************************************)
(* What stream.Session promises to its Observer (src/stream/types.go,      *)
(* StateChange): the sequence of states and connection generations a       *)
(* subscriber may see over the life of one session.                        *)
(***************************************************************************)
EXTENDS Naturals

VARIABLES state, generation

Init == state = "none" /\ generation = 0

\* A dial begins; the generation of the last connection is still announced.
BeginDial ==
  /\ state \in {"none", "connecting", "disconnected"}
  /\ state' = "connecting"
  /\ UNCHANGED generation

\* Every connection gets the next generation: none skipped, none repeated.
Establish ==
  /\ state = "connecting"
  /\ state' = "connected"
  /\ generation' = generation + 1

\* A dial fails or the connection ends, under the generation it belongs to.
Lose ==
  /\ state \in {"connecting", "connected"}
  /\ state' = "disconnected"
  /\ UNCHANGED generation

\* Run returns; nothing is announced afterwards.
Shut ==
  /\ state # "closed"
  /\ state' = "closed"
  /\ UNCHANGED generation

Next == BeginDial \/ Establish \/ Lose \/ Shut

Spec == Init /\ [][Next]_<<state, generation>>
=============================================================================
