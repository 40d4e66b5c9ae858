------------------------------- MODULE MCStartup -------------------------------
(* Command lines for the model checker: both modes, each flag, both commands.   *)
EXTENDS Startup, TLC

Serve == [name |-> "serve", noTls |-> FALSE, given |-> {}]

MCOffered == {Serve, [Serve EXCEPT !.noTls = TRUE], [Serve EXCEPT !.given = Flags],
              [Idle EXCEPT !.name = "rotate"], Idle}

MCSymmetry == Permutations(Procs)
================================================================================
