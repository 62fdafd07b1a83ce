----------------------------- MODULE MCSidecar -----------------------------
(***************************************************************************)
(* Instances of Sidecar for TLC: a configuration that can be used, and one *)
(* for each way ReadConfig can panic.                                      *)
(***************************************************************************)
EXTENDS Sidecar, TLC

Config(trusted, c, k) == [trusted |-> trusted, cert |-> c, key |-> k]

SomeConfigs ==
  {Config({"cert"}, "cert", "rsa"),
   Config({}, "cert", "rsa"),
   Config({"cert", "other"}, "cert", "rsa"),
   Config({"cert"}, "other", "rsa"),
   Config({"cert"}, "cert", "ec"),
   Config({"cert"}, "cert", "other")}

Symmetry == Permutations(Conns)

=============================================================================
