----------------------------- MODULE SmsLedger -----------------------------
(***************************************************************************)
(* What app/scraper/otp_store.py promises of a forwarded SMS: «one SMS,    *)
(* one answer».  However often the phone posts it, an SMS is reserved by   *)
(* one poster at a time, and it answers at most one prompt, for good.      *)
(***************************************************************************)
EXTENDS Sequences

CONSTANTS Sms, Keys

VARIABLES
    reserved,   \* SMS somebody claimed for an answer that has not landed
    answered    \* what each SMS was written to, one entry a write

vars == <<reserved, answered>>

Unspent(s) == s \notin reserved /\ answered[s] = <<>>

Init == reserved = {} /\ answered = [s \in Sms |-> <<>>]

Reserve(s) ==
    /\ Unspent(s)
    /\ reserved' = reserved \cup {s}
    /\ UNCHANGED answered

\* The prompt it was meant for had moved on: another copy may still answer.
Return(s) ==
    /\ s \in reserved
    /\ reserved' = reserved \ {s}
    /\ UNCHANGED answered

Answer(s, k) ==
    /\ s \in reserved
    /\ reserved' = reserved \ {s}
    /\ answered' = [answered EXCEPT ![s] = <<k>>]

Next == \E s \in Sms : Reserve(s) \/ Return(s) \/ \E k \in Keys : Answer(s, k)

Spec == Init /\ [][Next]_vars
============================================================================
