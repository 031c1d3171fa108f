--------------------------- MODULE MCWorkloadNames ---------------------------
(* An instance of WorkloadNames for TLC.                                    *)
EXTENDS WorkloadNames

\* The names of two to five characters, as the limit is three: short enough,
\* shortened, and (those whose last part is too long) impossible to shorten.
\* They begin with a letter, as the names of Kubernetes do.
SomeNames == {n \in UNION {[1..k -> Char] : k \in 2..5} : n[1] = "a"}

=============================================================================
