----------------------------- MODULE MCExecution -----------------------------
(* Instances of Execution for TLC: two threads, and requests that take every *)
(* path.  Four of them need the same package, on the host and in a container, *)
(* with and without web access, with and without a window: it can be whole,  *)
(* in part or missing in a cache.                                            *)
EXTENDS Execution, TLC

CONSTANTS t1, t2

Req(language) ==
    [language |-> language, live |-> FALSE, backend |-> "unset", image |-> "slim",
     web |-> FALSE, teacher |-> FALSE, allowed |-> TRUE, code |-> TRUE, valid |-> TRUE,
     project |-> "complete", needs |-> {}, gui |-> FALSE]

OnHost(q) == [q EXCEPT !.backend = "process", !.teacher = TRUE]
Live(q) == [q EXCEPT !.live = TRUE]
Needs(q, web) == [q EXCEPT !.needs = {"p1"}, !.web = web]

MCRequests ==
    { Needs(Req("python"), TRUE), OnHost(Needs(Req("python"), TRUE)),
      Live([Needs(Req("python"), TRUE) EXCEPT !.gui = TRUE]),
      [Req("python") EXCEPT !.gui = TRUE, !.code = FALSE, !.valid = FALSE],
      [Needs(Req("python"), FALSE) EXCEPT !.gui = TRUE],
      Live(OnHost(Req("compiled"))), Req("npm run"),
      [Req("script") EXCEPT !.code = FALSE, !.project = "empty"],
      [Req("script") EXCEPT !.project = "linked"],
      Live(Req("npm install")), OnHost(Req("npm install")),
      [Req("html") EXCEPT !.code = FALSE], Live([Req("html") EXCEPT !.web = TRUE]) }

MCSettings ==
    { [backend |-> "container", unsafe |-> FALSE, proxy |-> "missing"],
      [backend |-> "process", unsafe |-> TRUE, proxy |-> "open"] }

Symmetric == Permutations(Runs)
=============================================================================
