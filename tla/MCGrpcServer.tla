---------------------------- MODULE MCGrpcServer ----------------------------
(* Instances of GrpcServer for TLC. *)
EXTENDS GrpcServer

\* The preset DefaultGrpcServerWithErrorReporting, which has both reporters.
ErrorReporting == <<"newrelic", "sentry">>

\* The preset DefaultGrpcServerWithNewrelic.
Newrelic == <<"newrelic">>
=============================================================================
