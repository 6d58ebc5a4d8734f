------------------------------- MODULE MCLz77 -------------------------------
(* Small instances of Lz77. *)
EXTENDS Lz77

Strings(n) == UNION {[1..k -> {0, 1}] : k \in 0..n}

\* Sizes of two digits, and runs too long to fit beside their offset.
MCTwoDigits == {<<[k \in 1..9 |-> k % m], <<1>> >> : m \in {1, 2, 4}}

\* One message, or two short ones, or one of two digits and a short one.
MCMessages == {<<s>> : s \in Strings(7)} \cup (Strings(2) \X Strings(2)) \cup MCTwoDigits
=============================================================================
