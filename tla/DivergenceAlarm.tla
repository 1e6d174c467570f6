---------------------------- MODULE DivergenceAlarm ----------------------------
(***************************************************************************)
(* What the prevhash monitor promises to whoever listens to its events: an *)
(* alarm that is first suspected, is raised once per episode and only when *)
(* the episode is old enough, and that is called off only if it was raised *)
(* before.  An episode may also end without a word.                        *)
(***************************************************************************)
EXTENDS Integers

CONSTANT MinAge  \* how old an episode is when its alarm is raised, at least

VARIABLES
  phase,   \* "clear", "suspect" or "alarmed"
  age,     \* the age of the episode, counted up to MinAge; 0 when clear
  signal   \* what the last step told the listener

alarmVars == <<phase, age, signal>>

Init == phase = "clear" /\ age = 0 /\ signal = {}

Suspect ==
  /\ phase = "clear"
  /\ phase' = "suspect"
  /\ age' = 0
  /\ signal' = {}

Raise ==
  /\ phase # "alarmed"
  /\ age >= MinAge
  /\ phase' = "alarmed"
  /\ age' = age
  /\ signal' = {"divergence"}

CallOff ==
  /\ phase = "alarmed"
  /\ phase' = "clear"
  /\ age' = 0
  /\ signal' = {"resolved"}

Forget ==
  /\ phase' = "clear"
  /\ age' = 0
  /\ signal' = {}

\* Time passes for an open episode, or nothing happens.
Wait ==
  /\ phase' = phase
  /\ age' \in {age} \cup (IF phase # "clear" /\ age < MinAge THEN {age + 1} ELSE {})
  /\ signal' = {}

Next == Suspect \/ Raise \/ CallOff \/ Forget \/ Wait

Spec == Init /\ [][Next]_alarmVars

=============================================================================
