-------------------------- MODULE MCPackController --------------------------
(***************************************************************************)
(* Instances of PackController for TLC.                                    *)
(***************************************************************************)
EXTENDS PackController, TLC

V100 == <<1, 0, 0>>
V110 == <<1, 1, 0>>
V020 == <<0, 2, 9>>

MCCoresMixed == {V100, V110}
MCAgents == {[os |-> "linux", version |-> V100]}
MCMinVersions == {V020, V110}
MCOne == {V020}
MCLinux == {{"linux"}}
=============================================================================
