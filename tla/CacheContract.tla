---------------------------- MODULE CacheContract ----------------------------
(***************************************************************************)
(* What execution.Cache promises about one entry, whichever backend keeps  *)
(* it: a Load answers with what is published at one moment during the      *)
(* call, complete; a failure can bring back only what was published and    *)
(* not yet superseded for good; and what a Store has acknowledged is never *)
(* lost.                                                                   *)
(***************************************************************************)
CONSTANTS Values,  \* complete results
          Absent,  \* no entry
          Pending  \* Load has not returned

VARIABLES content,   \* the published result, or Absent
          possible,  \* what may be found after a failure of the machine
          acked,     \* whether a Store was acknowledged
          answers    \* answers[c]: what Load has returned to c

vars == <<content, possible, acked, answers>>

Callers == DOMAIN answers
NoAnswers == [c \in Callers |-> Pending]

Init ==
    /\ content = Absent
    /\ possible = {Absent}
    /\ acked = FALSE
    /\ answers = NoAnswers

\* A result is visible to all, for good or not yet.
Publish(v) ==
    /\ content' = v
    /\ possible' \in {{v}, possible \cup {v}}
    /\ UNCHANGED <<acked, answers>>

\* What is published is made durable and a Store returns nil.
Acknowledge ==
    /\ content # Absent
    /\ possible' = {content}
    /\ acked' = TRUE
    /\ UNCHANGED <<content, answers>>

Answer(c) ==
    /\ answers' = [answers EXCEPT ![c] = content]
    /\ UNCHANGED <<content, possible, acked>>

\* The caller starts over, or all callers do.
Ask(callers) ==
    /\ answers' = [c \in Callers |-> IF c \in callers THEN Pending ELSE answers[c]]
    /\ UNCHANGED <<content, possible, acked>>

\* The machine fails.
Fail ==
    /\ content' \in possible
    /\ possible' = {content'}
    /\ answers' = NoAnswers
    /\ UNCHANGED acked

Next ==
    \/ \E v \in Values : Publish(v)
    \/ Acknowledge
    \/ \E c \in Callers : Answer(c) \/ Ask({c})
    \/ Ask(Callers)
    \/ Fail

Spec == Init /\ [][Next]_vars
==============================================================================
