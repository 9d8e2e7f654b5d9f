---------------------------- MODULE CommandFates ----------------------------
(***************************************************************************)
(* What the way from the ground station to the handlers of Send_Task may   *)
(* do to the commands sent, numbered as they were sent.  A command is open *)
(* while it may still take effect; it takes effect while it is open only,  *)
(* and what is closed stays closed: no repeated frame, forgotten           *)
(* transaction or restart brings a command back.  GsCommand implements it. *)
(***************************************************************************)
EXTENDS Naturals

CONSTANTS Sendings

VARIABLES
  count,   \* the commands sent so far
  plain,   \* those of them that bear no transaction
  twice,   \* those whose frame the link repeated
  open,    \* those that may still take effect
  took     \* how often a command took effect

vars == <<count, plain, twice, open, took>>

Init ==
  /\ count = 0 /\ plain = {} /\ twice = {} /\ open = {}
  /\ took = [c \in Sendings |-> 0]

(* The frame may be lost at once.                                          *)
Send ==
  /\ count' = count + 1 /\ count' \in Sendings
  /\ plain' \in {plain, plain \cup {count'}}
  /\ open' \in {open, open \cup {count'}}
  /\ UNCHANGED <<twice, took>>

(* Only a frame that was not yet obeyed is repeated, and only once.        *)
Repeat(c) ==
  /\ c \in open \ twice /\ took[c] = 0
  /\ twice' = twice \cup {c}
  /\ UNCHANGED <<count, plain, open, took>>

(* A command takes effect before those sent after it, unless its frame     *)
(* came twice; and once, unless its second frame has no transaction to be  *)
(* known by.                                                               *)
Do(c) ==
  /\ c \in open
  /\ c \in twice \/ \A d \in Sendings : c < d => took[d] = 0
  /\ took' = [took EXCEPT ![c] = @ + 1]
  /\ \/ open' = open \ {c}
     \/ c \in plain \cap twice /\ took[c] = 0 /\ open' = open
  /\ UNCHANGED <<count, plain, twice>>

(* Lost on the link, dropped by a full queue, refused or taken for a       *)
(* repetition.                                                             *)
Lose(c) ==
  /\ c \in open /\ open' = open \ {c}
  /\ UNCHANGED <<count, plain, twice, took>>

Next == Send \/ \E c \in Sendings : Repeat(c) \/ Do(c) \/ Lose(c)

Spec == Init /\ [][Next]_vars
=============================================================================
