------------------------------- MODULE Mailbox -------------------------------
(***************************************************************************)
(* What SynchronizedWorker::Thread promises its callers: a mailbox of one  *)
(* slot.  A later request replaces one the worker has not taken yet, a     *)
(* request leaves the slot only by being taken or replaced, and the worker *)
(* reports the state it took.                                              *)
(***************************************************************************)
CONSTANTS Requests,   \* the states a caller can ask for
          Empty,      \* the slot holds no request
          Idle        \* what the worker falls back to between two requests

VARIABLES slot, current

vars == <<slot, current>>

Init == slot = Empty /\ current = Empty

Post(s) == slot' = s /\ UNCHANGED current

Take == /\ slot # Empty
        /\ current' = slot
        /\ slot' = Empty

FallBack == current' = Idle /\ UNCHANGED slot

Next == (\E s \in Requests : Post(s)) \/ Take \/ FallBack

Spec == Init /\ [][Next]_vars /\ WF_vars(Take)
==============================================================================
