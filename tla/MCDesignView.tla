---------------------------- MODULE MCDesignView ----------------------------
(* Two columns and enough calls to save, give both columns new formulas, *)
(* and save again.  Callers choose a name of their own, the name that is *)
(* generated first, or none.                                             *)
EXTENDS DesignView

MCCallerNames == {<<>>, <<"$", 1>>, <<"price", 0>>}
MCSortings == {<<"none", FALSE>>, <<"none", TRUE>>, <<"descending", FALSE>>}
=============================================================================
