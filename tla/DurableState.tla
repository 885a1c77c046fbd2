---------------------------- MODULE DurableState ----------------------------
(***************************************************************************)
(* What internal/state promises of the state file, whatever steps a write  *)
(* or a wipe takes (the package's account of writeAtomic and of            *)
(* CreateReplace's order).                                                 *)
(*                                                                         *)
(* The state is a version, a number, or Nothing that can be read.  It      *)
(* changes from one version to a newer one in a single step, with none in  *)
(* which there is nothing or part of it.  What a power loss may bring back *)
(* is what was there since the last flush; a flush makes the state the     *)
(* only one.  A promised version is taken away on purpose only, and what   *)
(* was destroyed never becomes readable again.                             *)
(***************************************************************************)
EXTENDS Naturals

VARIABLES
  now,        \* the version that can be read
  maybe,      \* those that may be read after a power loss
  promised,   \* the version that was reported as durable
  destroying  \* whether what runs replaces or wipes the state on purpose; an input

Nothing == 0

Init == now = Nothing /\ maybe = {Nothing} /\ promised = Nothing

\* A newer version takes the place of the old one.
Write ==
  /\ \A v \in maybe : now' > v
  /\ maybe' = maybe \cup {now'}
  /\ UNCHANGED promised

\* A flush, of which the caller is told or not.
Flush ==
  /\ maybe' = {now} /\ UNCHANGED now
  /\ promised' = promised \/ (now # Nothing /\ promised' = now)

\* Some of what could be read can be read no more.
Destroy ==
  /\ destroying /\ promised' = Nothing
  /\ maybe' \subseteq maybe \cup {Nothing}
  /\ now' \in {now, Nothing} \cap maybe'

PowerLoss == now' \in maybe /\ maybe' = {now'} /\ UNCHANGED promised

Next == Flush \/ Write \/ Destroy \/ PowerLoss

Spec == Init /\ [][Next]_<<now, maybe, promised>>
=============================================================================
