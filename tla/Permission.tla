----------------------------- MODULE Permission -----------------------------
(***************************************************************************)
(* What the permission relay promises a Claude Code session: a tool runs   *)
(* only if somebody has approved that very request, and a request is       *)
(* answered one way only.  An answer may be sent twice.                    *)
(***************************************************************************)
CONSTANTS Requests

VARIABLES
  approved,  \* requests that somebody has approved
  answers    \* what the session was sent for each request

Verdicts == {"allow", "deny"}

Init ==
  /\ approved = {}
  /\ answers = [r \in Requests |-> {}]

Approve(r) ==
  /\ approved' = approved \union {r}
  /\ UNCHANGED answers

Answer(r, verdict) ==
  /\ verdict = "allow" => r \in approved
  /\ answers[r] \subseteq {verdict}
  /\ answers' = [answers EXCEPT ![r] = {verdict}]
  /\ UNCHANGED approved

Next == \E r \in Requests : Approve(r) \/ \E verdict \in Verdicts : Answer(r, verdict)

Spec == Init /\ [][Next]_<<approved, answers>>
=============================================================================
