----------------------------- MODULE AtMostOnce -----------------------------
(***************************************************************************)
(* What internal/leash/request promises a tool call, whatever becomes of   *)
(* the copies, the waits, the caller's context and the Client (the package *)
(* comment, Outcome, Status).                                             *)
(*                                                                         *)
(* The vault decides on a request once.  A result that is given is that of *)
(* a request that was executed, and is given once: by the call itself, or  *)
(* to Status, if the call returned its id.  Who was told an error is given *)
(* no result later; an error does not say that nothing was executed.       *)
(***************************************************************************)
EXTENDS Naturals

CONSTANT Call

VARIABLES
  decided,  \* what the vault made of each call's request
  told,     \* what each call returned; "none" is neither an outcome nor an id
  given     \* how often each result was given

Init ==
  /\ decided = [c \in Call |-> "none"] /\ told = [c \in Call |-> "nothing"]
  /\ given = [c \in Call |-> 0]

Decide(c) ==
  /\ decided[c] = "none"
  /\ \E v \in {"ok", "error"} : decided' = [decided EXCEPT ![c] = v]
  /\ UNCHANGED <<told, given>>

GiveResult(c) ==
  /\ decided[c] = "ok" /\ given[c] = 0
  /\ given' = [given EXCEPT ![c] = 1]

Return(c) ==
  /\ told[c] = "nothing" /\ UNCHANGED decided
  /\ \/ GiveResult(c) /\ told' = [told EXCEPT ![c] = "result"]
     \/ /\ \E out \in {"error", "pending", "none"} : told' = [told EXCEPT ![c] = out]
        /\ UNCHANGED given

Collect(c) == told[c] = "pending" /\ GiveResult(c) /\ UNCHANGED <<decided, told>>

Next == \E c \in Call : Decide(c) \/ Return(c) \/ Collect(c)

Spec == Init /\ [][Next]_<<decided, told, given>>

\* Who has a result has the one result of a request that was executed (Outcome, Status).
GivenOnce ==
  \A c \in Call :
    /\ given[c] <= 1
    /\ given[c] > 0 => decided[c] = "ok" /\ told[c] \in {"result", "pending"}
=============================================================================
