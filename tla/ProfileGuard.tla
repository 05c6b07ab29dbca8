---------------------------- MODULE ProfileGuard ----------------------------
(***************************************************************************)
(* The promise of the browser-profile lock: one Chromium per Divar         *)
(* number's profile directory.  A job may be *excused*: its lease has       *)
(* lapsed under it, or it opened while Redis could not be reached.  Of the  *)
(* others no two have the same profile open.                                *)
(***************************************************************************)
CONSTANTS Jobs, Accounts

VARIABLES
  users,     \* the jobs whose Chromium may be up on a number's profile
  excused    \* those of them the guard no longer answers for

vars == <<users, excused>>

Users == UNION {users[a] : a \in Accounts}

TypeOK == /\ users \in [Accounts -> SUBSET Jobs]
          /\ excused \subseteq Jobs

Init == /\ users = [a \in Accounts |-> {}]
        /\ excused = {}

Join(j, a) == /\ j \notin Users
              /\ users' = [users EXCEPT ![a] = @ \cup {j}]

\* A guarded opening: nobody the guard answers for is in.
Open(j, a) == /\ users[a] \subseteq excused
              /\ Join(j, a)
              /\ UNCHANGED excused

OpenUnguarded(j, a) == Join(j, a) /\ excused' = excused \cup {j}

\* One browser closes, or a process dies with all of its.
Close(J) == /\ users' = [a \in Accounts |-> users[a] \ J]
            /\ excused' = excused \ J

Lapse(J) == /\ J \subseteq Users
            /\ excused' = excused \cup J
            /\ UNCHANGED users

Next == \/ \E j \in Jobs, a \in Accounts : Open(j, a) \/ OpenUnguarded(j, a)
        \/ \E J \in SUBSET Jobs : Close(J) \/ Lapse(J)

Spec == Init /\ [][Next]_vars
=============================================================================
