------------------------------- MODULE MCNative -------------------------------
(* Two processes with two pages at most; the first may map one of them      *)
(* again, to another physical page.                                         *)
EXTENDS Native

CONSTANTS p1, p2, v1, v2, f1, f2

MCRequests == {<<p1, v1, f1>>, <<p1, v1, f2>>, <<p1, v2, f2>>, <<p2, v1, f2>>}
=============================================================================
