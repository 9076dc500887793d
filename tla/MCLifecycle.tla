---------------------------- MODULE MCLifecycle ----------------------------
(* Two instances that start, stop, fail and are stopped on one database.   *)
EXTENDS Lifecycle, TLC

\* docker-compose.dev.yml: nothing is restarted.
Dev == [prod |-> FALSE, secret |-> "insecure", seed |-> TRUE, creds |-> TRUE,
        provider |-> "smtp", key |-> FALSE, tls |-> FALSE, user |-> TRUE, restarts |-> FALSE]

\* docker-compose.prod.yml: restart: unless-stopped.
Prod == [Dev EXCEPT !.prod = TRUE, !.secret = "strong", !.tls = TRUE, !.restarts = TRUE]

\* Both, and others that differ from them: neither file says what APP_ENV is.
MCConfigs ==
    {Dev,
     [Dev EXCEPT !.restarts = TRUE],
     [Dev EXCEPT !.creds = FALSE],
     [Dev EXCEPT !.provider = "noop"],
     Prod,
     [Prod EXCEPT !.secret = "insecure"],
     [Prod EXCEPT !.provider = "resend", !.key = TRUE],
     [Prod EXCEPT !.provider = "other"]}
=============================================================================
