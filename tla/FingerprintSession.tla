-------------------------- MODULE FingerprintSession --------------------------
(***************************************************************************)
(* What the framework sees of the sessions of a fingerprint HAL.  It asks  *)
(* for a session (authenticate or enroll), the HAL serves one at a time,   *)
(* and a session is over for the framework with its final callback: a      *)
(* success, an error, a cancellation or a time-out.                        *)
(*                                                                         *)
(* Whoever awaits that callback has a session that is wanted or being      *)
(* served, and each session has exactly one, but for the HAL's Faults:     *)
(*   "overridden"  a request may be replaced before it is served,          *)
(*   "untold"      a session may end without a final callback,             *)
(*   "twice"       a session may have a further one.                       *)
(***************************************************************************)
EXTENDS Naturals

CONSTANT Faults

VARIABLES
  wanted,     \* a session has been asked for and not begun
  phase,      \* of the session being served: "open", "closing"; "none" without one
  answers,    \* the final callbacks it has had: none, one, or more (2)
  awaiting,   \* the framework awaits one
  lost        \* the one it awaits will not come

vars == <<wanted, phase, answers, awaiting, lost>>

Init == /\ wanted = FALSE /\ phase = "none" /\ answers = 0
        /\ awaiting = FALSE /\ lost = FALSE

\* Nothing is awaited by one who has not registered a callback.
Ask == /\ wanted' = TRUE /\ awaiting' \in BOOLEAN /\ lost' = FALSE
       /\ UNCHANGED <<phase, answers>>

Override == /\ "overridden" \in Faults /\ wanted
            /\ wanted' = FALSE /\ lost' = TRUE
            /\ UNCHANGED <<phase, answers, awaiting>>

Begin == /\ wanted /\ phase = "none"
         /\ wanted' = FALSE /\ phase' = "open"
         /\ UNCHANGED <<answers, awaiting, lost>>

\* Whatever the framework has asked for since: it takes the callback for its answer.
Answer == /\ phase = "open" /\ (answers = 0 \/ "twice" \in Faults)
          /\ phase' \in {"open", "closing"}
          /\ answers' = (IF answers = 0 THEN 1 ELSE 2) /\ awaiting' = FALSE
          /\ UNCHANGED <<wanted, lost>>

Close == /\ phase = "open" /\ phase' = "closing"
         /\ \/ (answers > 0 \/ ~awaiting) /\ UNCHANGED lost
            \/ "untold" \in Faults /\ answers = 0 /\ lost' = ~wanted
         /\ UNCHANGED <<wanted, answers, awaiting>>

End == /\ phase = "closing"
       /\ phase' = "none" /\ answers' = 0
       /\ UNCHANGED <<wanted, awaiting, lost>>

\* Another client, or another service after a crash, of which nothing is awaited.
Renew == /\ phase = "none"
         /\ wanted' = FALSE /\ answers' = 0 /\ awaiting' = FALSE /\ lost' = FALSE
         /\ UNCHANGED phase

Next == Ask \/ Override \/ Begin \/ Answer \/ Close \/ End \/ Renew

Spec == Init /\ [][Next]_vars

\* Who awaits a final callback has asked for a session that is to come, or is served by
\* one that owes it; and no session has more of them than one.
Kept == /\ awaiting => wanted \/ (phase = "open" /\ answers = 0) \/ lost
        /\ "twice" \notin Faults => answers <= 1
===============================================================================
