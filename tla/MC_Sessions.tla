------------------------------ MODULE MC_Sessions ------------------------------
(***************************************************************************)
(* Sessions with every helper of utils/*.py.                               *)
(***************************************************************************)
EXTENDS Sessions

AllHelpers == {vcenter, sddc, hcx, vmsp, esxi, vim, vcfops, avi, vsan, pbm, installer, vrni,
               vrli, vcfa, nsx, vro, cim}

(* The properties of Sessions speak of helpers that renew a session, and   *)
(* that lend one.  These, and only these, do; all but pbm, which keeps its *)
(* session in the thread's context, for a key without the whole account.   *)
ASSUME TheyRenew == {h \in AllHelpers : Renews(h)} = {nsx, installer, vrni}
ASSUME TheyHeal == {h \in AllHelpers : Heals(h)} = {nsx, installer, vrni, vrli}
ASSUME TheyLend ==
    {h \in AllHelpers : Lends(h)} = {vcfops, avi, vrni, vrli, vcfa, vro, cim, pbm}
===============================================================================
