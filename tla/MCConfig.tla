------------------------------ MODULE MCConfig ------------------------------
(* Settings for TLC: for every type of key a value that is taken, one that  *)
(* is refused, one that does not decode, and zero values.                   *)
EXTENDS Config

MCStrings == STRING

MCFileRaws ==
  {<<"attempts", Raw("number", 5)>>, <<"attempts", Raw("number", 1001)>>,
   <<"attempts", Raw("text", "five")>>,
   <<"timeout", Raw("duration", 30)>>, <<"timeout", Raw("number", 30)>>,
   <<"delay", Raw("duration", 8)>>, <<"backoff", Raw("text", "exponential")>>,
   <<"backoff", Raw("text", "diophantine")>>,
   <<"max_delay", Raw("duration", 6)>>, <<"multiplier", Raw("number", 30)>>,
   <<"success_pattern", Raw("text", "ok")>>,
   <<"success_pattern", Raw("text", "(")>>,
   <<"case_insensitive", Raw("bool", TRUE)>>,
   <<"daemon_enabled", Raw("bool", TRUE)>>}

MCEnvRaws ==
  {<<"attempts", Raw("digits", 7)>>, <<"attempts", Raw("digits", 0)>>,
   <<"timeout", Raw("duration", -1)>>, <<"timeout", Raw("digits", 30)>>,
   <<"timeout", Raw("duration", 40)>>,
   <<"backoff", Raw("text", "linear")>>, <<"multiplier", Raw("digits", 120)>>,
   <<"success_pattern", Raw("text", "")>>, <<"failure_pattern", Raw("text", "(")>>,
   <<"daemon_enabled", Raw("text", "maybe")>>}

MCFlagValues ==
  {<<"attempts", 0>>, <<"attempts", 2>>, <<"timeout", 0>>, <<"timeout", 9>>,
   <<"success_pattern", "">>, <<"failure_pattern", "(">>,
   <<"case_insensitive", FALSE>>, <<"daemon_enabled", TRUE>>,
   <<"backoff", "jitter">>}

MCDaemonRaws ==
  {<<"socket_path", Raw("text", "/run/d.sock")>>, <<"http_port", Raw("number", 9090)>>,
   <<"metrics_max_age", Raw("text", "24h")>>, <<"metrics_max_age", Raw("number", 5)>>,
   <<"pid_file", Raw("text", "/run/d.pid")>>}

MCDaemonFlagValues ==
  {<<"http_port", 8080>>, <<"http_port", 7070>>, <<"pid_file", "/run/e.pid">>}
=============================================================================
