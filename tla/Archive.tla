------------------------------- MODULE Archive -------------------------------
(***************************************************************************)
(* What an archive promises: once it is published, the name of a file      *)
(* gives the bytes of that file, a name it does not hold gives a refusal,  *)
(* and nothing else is ever given.                                         *)
(***************************************************************************)
CONSTANTS Names,       \* the names a reader may ask for
          Contents,    \* the bytes a file may hold
          NoName,      \* no name: nothing has been asked yet
          Nothing      \* no bytes: what a refusal gives, not one of Contents

VARIABLES stored,      \* the published files: a function from names to bytes
          reply        \* the name last asked for and what was given

vars == <<stored, reply>>

Init ==
    /\ stored = <<>>
    /\ reply = [name |-> NoName, got |-> Nothing]

Publish ==
    /\ stored = <<>>
    /\ \E held \in SUBSET Names : stored' \in [held -> Contents]
    /\ UNCHANGED reply

Read(n) ==
    /\ reply' = [name |-> n, got |-> IF n \in DOMAIN stored THEN stored[n] ELSE Nothing]
    /\ UNCHANGED stored

Next == Publish \/ \E n \in Names : Read(n)

Spec == Init /\ [][Next]_vars
=============================================================================
