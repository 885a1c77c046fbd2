--------------------------- MODULE DurableMailbox ---------------------------
(***************************************************************************)
(* What internal/vaultconn promises of the device's mailbox (the package   *)
(* comment: "saves the state before a collected batch is acknowledged").   *)
(*                                                                         *)
(* The relay keeps a message until it is acknowledged.  A message leaves   *)
(* the mailbox only when the state file has its effect, or when the state  *)
(* was wiped; the state is wiped only on a device.unlinked, and nothing is *)
(* saved after that.                                                       *)
(***************************************************************************)
CONSTANTS
  Message,    \* all messages the vault may send this agent
  Unlinks     \* those that are device.unlinked

VARIABLES
  box,        \* messages the relay keeps
  durable,    \* messages whose effect the state file has
  wiped       \* the state file was wiped

Init == box = {} /\ durable = {} /\ wiped = FALSE

\* The vault sends a message.
Deliver ==
  /\ \E m \in box' \ box : m \in Message /\ box' = box \cup {m}
  /\ UNCHANGED <<durable, wiped>>

\* A save: it takes in messages that are still in the mailbox.
Save(S) == ~wiped /\ durable' = durable \cup S /\ UNCHANGED <<box, wiped>>

\* An acknowledgement.
Drop(S) == (S \subseteq durable \/ wiped) /\ box' = box \ S /\ UNCHANGED <<durable, wiped>>

Wipe == (\E m \in box : m \in Unlinks) /\ wiped' = TRUE /\ UNCHANGED <<box, durable>>

Next ==
  \/ Deliver
  \/ \E S \in SUBSET box : Save(S) \/ Drop(S)
  \/ Wipe

Spec == Init /\ [][Next]_<<box, durable, wiped>>
=============================================================================
