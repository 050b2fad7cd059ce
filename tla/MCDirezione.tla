----------------------------- MODULE MCDirezione -----------------------------
(***************************************************************************)
(* Small values for Direzione: one operator and one user by default, and   *)
(* a file that changes both, says something senseless and has a comment    *)
(* that is too long.                                                       *)
(***************************************************************************)
EXTENDS Direzione

CONSTANTS c1, c2

MCDefault == [k \in Keys |-> 1]
Set(k, v) == Line([key |-> k, val |-> v])
MCFile == <<Set("explode_max", 7), Set("num_users", 2), Set("num_users", 0),
            Set("sim_duration", 2),
            [setting |-> [key |-> "seats", val |-> 3], tail |-> [key |-> "explode_max", val |-> 0]]>>
MCFiles == {MCFile}
MCNewUsers == [c \in Clients |-> IF c = c1 THEN 2 ELSE 1]

\* Every file of up to three lines over a key of either kind and one that is none,
\* and values on both sides of what each accepts; two lines have a long comment.
SmallLines == {Set(k, v) : k \in {"num_users", "explode_max", "colour"}, v \in {-1, 0, 2, 3}}
    \cup {[setting |-> [key |-> "num_users", val |-> 2], tail |-> [key |-> t, val |-> 0]]
             : t \in {"num_users", "explode_max"}}
SmallFiles == UNION {[1 .. n -> SmallLines] : n \in 0 .. 3}
=============================================================================
