------------------------------- MODULE MCServer -------------------------------
(* An old and a new release start together, each deployed with a sound       *)
(* environment or with one wrong setting; one address logs in, or one visitor *)
(* uses two tabs of a browser.                                               *)
EXTENDS Site

CONSTANTS p1, p2, i1, c1, c2, t1, t2, u1

Sound == [s \in Settings |-> "ok"]
Wrong(s) == CASE s = "database_url" -> {"missing", "empty", "garbled"}
              [] s = "redis_url" -> {"missing", "empty"}
              [] s = "jwt_secret" -> {"missing", "empty", "short"}
              [] s \in KeySettings -> {"missing", "empty", "short", "garbled"}
MCEnvironments ==
    {Sound} \cup UNION {{[Sound EXCEPT ![s] = v] : v \in Wrong(s)} : s \in Settings}
MCFilesOf == [p \in Processes |-> IF p = p1 THEN {1, 2} ELSE {1, 2, 3}]
=============================================================================
