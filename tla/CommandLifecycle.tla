-------------------------- MODULE CommandLifecycle --------------------------
(***************************************************************************)
(* What the CAN bridge promises for each delivery of a planner command: it *)
(* is accepted or refused; no command is accepted twice; an accepted one   *)
(* is sent at most MaxSends times and ends in exactly one outcome, and     *)
(* does end while the process is up.                                       *)
(***************************************************************************)
EXTENDS Naturals

CONSTANTS Requests,   \* deliveries
          Command,    \* the command a delivery carries
          MaxSends    \* max_retries + 1

VARIABLES up,         \* the process has not been asked to stop
          status,     \* "new", "refused", "accepted" or the outcome
          sends       \* frames sent for the delivery

vars == <<up, status, sends>>

Outcomes == {"ack_received", "retry_exhausted", "send_failed", "rejected"}

Init == /\ up = TRUE
        /\ status = [r \in Requests |-> "new"]
        /\ sends = [r \in Requests |-> 0]

Become(r, s) == status' = [status EXCEPT ![r] = s] /\ UNCHANGED <<up, sends>>

Refuse(r) == status[r] = "new" /\ Become(r, "refused")

Accept(r) ==
  /\ up /\ status[r] = "new"
  /\ \A s \in Requests \ {r} :
       Command[s] = Command[r] => status[s] \in {"new", "refused"}
  /\ Become(r, "accepted")

Send(r) ==
  /\ status[r] = "accepted" /\ sends[r] < MaxSends
  /\ sends' = [sends EXCEPT ![r] = @ + 1]
  /\ UNCHANGED <<up, status>>

\* An ACK needs a frame, and giving up needs all of them.
End(r) ==
  /\ status[r] = "accepted"
  /\ \E o \in Outcomes :
       /\ o = "ack_received" => sends[r] > 0
       /\ o = "retry_exhausted" => sends[r] = MaxSends
       /\ Become(r, o)

GoDown == up /\ up' = FALSE /\ UNCHANGED <<status, sends>>

Next == GoDown \/ \E r \in Requests : Refuse(r) \/ Accept(r) \/ Send(r) \/ End(r)

Spec == /\ Init /\ [][Next]_vars
        /\ \A r \in Requests : WF_vars(up /\ End(r))
=============================================================================
