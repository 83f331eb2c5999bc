------------------------------ MODULE Pyroscope ------------------------------
(***************************************************************************)
(* The profiling agent of plugins/pyroscope: a configuration and a         *)
(* profiler, which fx starts and stops through the agent's hooks.          *)
(***************************************************************************)
EXTENDS Naturals

CONSTANT MaxProfilers   \* a bound on the profilers started

ASSUME ProfilersAssumption == MaxProfilers \in Nat

VARIABLES
  enabled,     \* whether ENABLE_PYROSCOPE is "true" for this process
  configured,  \* config # nil
  profile,     \* the profiler the agent holds, 0 for nil
  profilers,   \* the number of profilers started so far
  profiling    \* the profilers that run

agentVars == <<enabled, configured, profile, profilers, profiling>>

AgentInit ==
  /\ enabled \in BOOLEAN
  /\ configured = FALSE /\ profile = 0 /\ profilers = 0 /\ profiling = {}

\* Without a name or an address it is an error, and an earlier configuration
\* stays.
Configure(name, address) ==
  /\ configured' = (configured \/ (name /\ address))
  /\ UNCHANGED <<enabled, profile, profilers, profiling>>

\* What Start returns without an error, and what it returns with one.
StartDisabled == ~enabled /\ UNCHANGED agentVars

StartRuns ==
  /\ enabled /\ configured /\ profilers < MaxProfilers
  /\ profilers' = profilers + 1
  /\ profile' = profilers + 1
  /\ profiling' = profiling \cup {profilers + 1}
  /\ UNCHANGED <<enabled, configured>>

Start == StartDisabled \/ StartRuns

\* ErrAgentConfig, or an error of pyroscope.Start.
StartFails == enabled /\ UNCHANGED agentVars

\* Mutant: Stop looks at a field that Start has not set.
StopsNothing == UNCHANGED agentVars

\* Flush and stop what the agent holds; nothing if it is nil.
Stop == /\ profiling' = profiling \ {profile}
        /\ UNCHANGED <<enabled, configured, profile, profilers>>

AgentTypeOK ==
  /\ enabled \in BOOLEAN /\ configured \in BOOLEAN
  /\ profilers \in 0..MaxProfilers
  /\ profile \in 0..profilers
  /\ profiling \subseteq 1..profilers
=============================================================================
