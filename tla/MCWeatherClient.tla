-------------------------- MODULE MCWeatherClient --------------------------
(* Instances of WeatherClient for TLC. *)
EXTENDS WeatherClient, TLC

\* Processes are only compared.
Symmetry == Permutations(Procs)

=============================================================================
