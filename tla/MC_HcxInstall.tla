---------------------------- MODULE MC_HcxInstall ----------------------------
(* Instances of HcxInstall for TLC. *)
EXTENDS HcxInstall

(* Every combination of the options. *)
AllOptions == OptionSet

(* A complete spec, with an external SSO. *)
WithSso == {o \in OptionSet : o.spec /\ o.pw = "config" /\ o.sso /\ o.version = "none"}

(* A complete spec that names the version of its OVA. *)
SameVersion == {o \in OptionSet : o.spec /\ o.pw = "config" /\ o.version = "same"}
=============================================================================
