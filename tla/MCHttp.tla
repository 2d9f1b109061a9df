------------------------------- MODULE MCHttp -------------------------------
(* Small instances of HttpRequestManager. *)
EXTENDS HttpRequestManager

CONSTANTS j1, j2, t1

TwoJson == {j1, j2}
OneJson == {j1}
OneText == {t1}
=============================================================================
