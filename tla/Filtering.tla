------------------------------ MODULE Filtering ------------------------------
(***************************************************************************)
(* Two loops over a list, as recursive functions of how far they have      *)
(* come: Kept copies it and leaves out the members of a set, Inserted adds *)
(* each of its members to a table unless it is there.  Selecting with an   *)
(* operator would say the same to TLC, but not to the prover.              *)
(***************************************************************************)
EXTENDS Naturals, Sequences

KeptUpTo(s, out) ==
    LET f[i \in 0..Len(s)] == IF i = 0 THEN << >>
                              ELSE IF s[i] \in out THEN f[i - 1] ELSE Append(f[i - 1], s[i])
    IN  f

Kept(s, out) == KeptUpTo(s, out)[Len(s)]

Elements(s) == {s[i] : i \in DOMAIN s}

InsertedUpTo(rows, s) ==
    LET f[i \in 0..Len(s)] == IF i = 0 THEN rows
                              ELSE IF s[i] \in Elements(f[i - 1]) THEN f[i - 1]
                              ELSE Append(f[i - 1], s[i])
    IN  f

Inserted(rows, s) == InsertedUpTo(rows, s)[Len(s)]
=============================================================================
