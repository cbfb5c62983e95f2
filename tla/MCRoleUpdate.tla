---------------------------- MODULE MCRoleUpdate ----------------------------
(***************************************************************************)
(* An instance of RoleUpdate for TLC.  Releases v1 < v2 < v3; the third    *)
(* raises the rollback floor to v2, the fourth manifest publishes v2 again *)
(* with other bytes and the old floor.                                     *)
(***************************************************************************)
EXTENDS RoleUpdate, TLC

CONSTANTS v1, v2, v3,       \* versions
          m1, m2, m3, m4    \* manifests

RankMC == v1 :> 1 @@ v2 :> 2 @@ v3 :> 3

SequenceMC == m1 :> 1 @@ m2 :> 2 @@ m3 :> 3 @@ m4 :> 4
VersionMC == m1 :> v1 @@ m2 :> v2 @@ m3 :> v3 @@ m4 :> v2
FloorMC == m1 :> v1 @@ m2 :> v1 @@ m3 :> v2 @@ m4 :> v1
=============================================================================
