--------------------------- MODULE MCAdminSession -----------------------------
(***************************************************************************)
(* Two request threads, so that one may run an effect while the other      *)
(* locks, renews or validates; three capabilities, one of them outside the *)
(* role and one of them left to a session with a doubt.                    *)
(***************************************************************************)
EXTENDS AdminSession

CONSTANTS t1, t2

MCThreads == {t1, t2}
MCCapabilities == {"inspect", "write", "publish"}
MCRoleCaps == {"inspect", "write"}
MCInspectCaps == {"inspect"}
===============================================================================
