----------------------------- MODULE MCAccounts -----------------------------
(* Model values and thread sets for checking Accounts.                    *)
EXTENDS Accounts

CONSTANTS p1, p2, u1, b1, k1, v1, v2

OneThread == {p1}
TwoThreads == {p1, p2}
====
