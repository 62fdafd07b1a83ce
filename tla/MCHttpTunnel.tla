---------------------------- MODULE MCHttpTunnel ----------------------------
(***************************************************************************)
(* Instances of HttpTunnel for TLC.  The safety runs use the symmetry of   *)
(* the connections.  The liveness run has none; it looks only at states    *)
(* where requests are orderly, as its properties do: no step makes a       *)
(* disorderly state orderly again.                                         *)
(***************************************************************************)
EXTENDS HttpTunnel, TLC

Orderly == orderly

Symmetry == Permutations(Conns)

=============================================================================
