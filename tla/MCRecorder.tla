----------------------------- MODULE MCRecorder -----------------------------
(* Recorder with two savers, three files and a pool of two images.           *)
EXTENDS Recorder, TLC
CONSTANTS s1, s2

Counts == (s1 :> 1) @@ (s2 :> -1)
Ends == {-1, 2}
TwoSavers == <<s1, s2>>
\* The savers are both there, or /distribute names ports that are not.
Wired == {{s1, s2}, {}}
Reads == {Cmd("/init-done", 0), Cmd("/reinit", 0), Cmd("/play", 0), Cmd("/pause", 0), Cmd("/pause", 1),
          Cmd("/pause", -1), Cmd("/next", 0), [cmd |-> "/count-add", k |-> 1, off |-> -1]}
Syncs == {Cmd("/go", 0), Cmd("/auto", 0), Cmd("/manual", 0), Cmd("/count", 2)}
=============================================================================
