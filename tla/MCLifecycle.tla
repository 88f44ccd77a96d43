----------------------------- MODULE MCLifecycle -----------------------------
(***************************************************************************)
(* Lifecycle on four migrations: one that is IF NOT EXISTS throughout, two *)
(* that add columns and one that rebuilds tables.                          *)
(***************************************************************************)
EXTENDS Lifecycle

CONSTANTS p1, p2

MCReplayable == {1, 3}
MCNoEffect == {1}

Plain == [database |-> "sqlite", dsn |-> "", cache |-> "memory", redisAddr |-> FALSE,
          redisUp |-> FALSE, git |-> "gogit", artifacts |-> "", sdkType |-> "",
          s3 |-> FALSE, registryHost |-> TRUE, totpKey |-> "", oauth |-> "off",
          proxies |-> TRUE, telemetry |-> FALSE, bind |-> "loopback",
          publicDiagnostics |-> FALSE, sdk |-> FALSE]

\* The sample configuration, and ones that differ from it where a step looks.
MCConfigs ==
    {[Plain EXCEPT !.sdk = TRUE, !.telemetry = TRUE],
     [Plain EXCEPT !.database = "postgres", !.dsn = "parses"],
     [Plain EXCEPT !.cache = "redis", !.redisAddr = TRUE],
     [Plain EXCEPT !.cache = "redis"],
     [Plain EXCEPT !.sdkType = "s3"],
     [Plain EXCEPT !.telemetry = TRUE, !.bind = "any"],
     [Plain EXCEPT !.git = "gitaly"]}

MCRoots == {"all", "none"}

OneConfig == {Plain}
=============================================================================
