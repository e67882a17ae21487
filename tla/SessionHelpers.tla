---------------------------- MODULE SessionHelpers ----------------------------
(***************************************************************************)
(* The connection helpers of utils/*.py, as far as they differ in the      *)
(* sessions they keep; the steps they share are in Sessions.               *)
(***************************************************************************)

(* holds      what is cached: "nothing", a "password" inside a connection    *)
(*            object, or a "session"                                         *)
(* from       what a session is made of: a "login", a "refresh" token that a *)
(*            login gave, or the "cookie" of the cached SOAP session         *)
(* onRefusal  on a 401: "raise", "login" once more, or "exchange" the cached *)
(*            refresh token for another session                              *)
(* worded     only a 401 that says that the session expired counts as one    *)
(* ages       a session is given up when most of its lifetime is over        *)
(* keyed      the cache's key has all of the profile that decides where and  *)
(*            as whom a session is opened                                    *)
(* ambient    requests go by the session in the context of the thread, which *)
(*            is set only when something is cached                           *)
Helper == [holds : {"nothing", "password", "session"},
           from : {"login", "refresh", "cookie"},
           onRefusal : {"raise", "login", "exchange"},
           worded : BOOLEAN, ages : BOOLEAN, keyed : BOOLEAN, ambient : BOOLEAN]

Cached == [holds |-> "session", from |-> "login", onRefusal |-> "raise",
           worded |-> FALSE, ages |-> FALSE, keyed |-> TRUE, ambient |-> FALSE]

vcenter == Cached
sddc == Cached
hcx == Cached
vmsp == Cached
esxi == Cached
vim == Cached

(* The key leaves out the auth_source, the tenant. *)
vcfops == [Cached EXCEPT !.keyed = FALSE]
avi == [Cached EXCEPT !.keyed = FALSE]

(* They copy the cookie of the ServiceInstance of utils/vim.py, whose port   *)
(* is part of the host if it is given at all.  PBM looks for the session in  *)
(* the request, where pyVmomi puts what the thread's context has.            *)
vsan == [Cached EXCEPT !.from = "cookie"]
pbm == [Cached EXCEPT !.from = "cookie", !.ambient = TRUE]

installer == [Cached EXCEPT !.onRefusal = "login"]

(* The key leaves out the domain, the provider, the domain. *)
vrni == [Cached EXCEPT !.onRefusal = "login", !.keyed = FALSE]
vrli == [Cached EXCEPT !.onRefusal = "login", !.worded = TRUE, !.ages = TRUE, !.keyed = FALSE]
vcfa == [Cached EXCEPT !.from = "refresh", !.onRefusal = "exchange", !.keyed = FALSE]

(* Every request has the password with it; the first takes it from the     *)
(* pillar each time, the others from a connection object. Their keys leave *)
(* out the name in the Host header, the port.                              *)
nsx == [Cached EXCEPT !.holds = "nothing"]
vro == [Cached EXCEPT !.holds = "password", !.keyed = FALSE]
cim == [Cached EXCEPT !.holds = "password", !.keyed = FALSE]
===============================================================================
