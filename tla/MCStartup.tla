----------------------------- MODULE MCStartup -----------------------------
EXTENDS Startup

CONSTANTS r1, r2, r3, r4

Numbers(port) == [n \in {"PORT"} |-> port]

Plain(port) ==
  [host |-> "ip", numbers |-> Numbers(port), cert |-> Unset, key |-> Unset,
   backend |-> "as built", hash |-> Unset, username |-> "admin"]

(* r1 and r2 race for the administrator.  r1 speaks TLS and redirects port    *)
(* 80, where r3 would listen, but r3 never gets past the parsing of its hash. *)
(* r2 has a redirect port and only one of the TLS paths.  r4 cannot start.    *)
MCEnv ==
  [r \in Replica |->
     CASE r = r1 -> [Plain(443) EXCEPT !.cert = "good", !.key = "good",
                       !.numbers = [n \in {"PORT", "HTTP_REDIRECT_PORT"} |->
                                      IF n = "PORT" THEN 443 ELSE 80]]
       [] r = r2 -> [Plain(8080) EXCEPT !.cert = "good",
                       !.numbers = [n \in {"PORT", "HTTP_REDIRECT_PORT"} |->
                                      IF n = "PORT" THEN 8080 ELSE 81]]
       [] r = r3 -> [Plain(80) EXCEPT !.hash = "garbage"]
       [] r = r4 -> [Plain(0) EXCEPT !.numbers = [n \in {"MAX_CONNECTIONS"} |-> 0]]]

ASSUME ~FromEnvOk(MCEnv[r4]) /\ FromEnvOk(MCEnv[r1])
=============================================================================
