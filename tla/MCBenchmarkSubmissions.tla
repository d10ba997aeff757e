----------------------- MODULE MCBenchmarkSubmissions -----------------------
(* BenchmarkSubmissions for TLC: cases, requests and workers are            *)
(* interchangeable, so sets of them are symmetric.                          *)
EXTENDS BenchmarkSubmissions, TLC

Symmetry == Permutations(Case) \cup Permutations(Request) \cup Permutations(Worker)
=============================================================================
