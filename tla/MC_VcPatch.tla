------------------------------ MODULE MC_VcPatch ------------------------------
(***************************************************************************)
(* Instances of VcPatch for TLC.  Version v1 is what the appliance runs;   *)
(* v2 and v3 are pending and v3's number extends v2's, as 9.0.1.0 does     *)
(* 9.0.1.                                                                  *)
(***************************************************************************)
EXTENDS VcPatch

CONSTANTS v1, v2, v3

MCVersions == {v1, v2, v3}
MCPrefixPairs == {<<v2, v3>>}
MCPending == [src \in Sources |-> {v2, v3}]
(* the repository lists v2 first, the default source v3 *)
MCRank == [src \in Sources |-> [v \in MCVersions |->
             CASE v = v1 -> 0 [] v = v2 -> 2 [] v = v3 -> IF src = "url" THEN 3 ELSE 1]]

Opt(ver, repo, force, test, monitor, precheck) ==
    [version |-> ver, repo |-> repo, force |-> force, test |-> test,
     monitor |-> monitor, precheck |-> precheck]

(* The defaults of update_prepared, for an explicit version. *)
Plain == {Opt(v2, TRUE, FALSE, FALSE, TRUE, TRUE)}

(* No version, force_stage, test=True, no monitor and no precheck, in turn. *)
Varied == Plain \cup
          {Opt(NoVersion, TRUE, FALSE, FALSE, TRUE, TRUE),
           Opt(v2, FALSE, TRUE, FALSE, TRUE, TRUE),
           Opt(v2, TRUE, FALSE, TRUE, TRUE, TRUE),
           Opt(v2, TRUE, FALSE, FALSE, FALSE, FALSE),
           Opt(v3, FALSE, FALSE, FALSE, FALSE, TRUE)}
===============================================================================
