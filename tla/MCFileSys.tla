----------------------------- MODULE MCFileSys -----------------------------
(* The instances of FileSys that TLC checks.                               *)
EXTENDS FileSys, TLC

Paths == {<<"/", "a">>, <<"a">>, <<"/", "a", "b">>}
\* With "..", for fs_dotdot.cfg.
DotDotPaths == Paths \cup {<<"b">>, <<"..">>}
Symmetric == Permutations(Proc)
=============================================================================
