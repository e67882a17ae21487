---------------------------- MODULE MC_VroInstall ----------------------------
(* Instances of VroInstall for TLC. *)
EXTENDS VroInstall

(* A complete spec, one that forgets the SSO, and none at all. *)
VroOptions ==
    {[spec |-> TRUE, sso |-> TRUE, license |-> TRUE, version |-> "none"],
     [spec |-> TRUE, sso |-> FALSE, license |-> FALSE, version |-> "other"],
     [spec |-> FALSE, sso |-> TRUE, license |-> FALSE, version |-> "none"]}
=============================================================================
