---------------------------- MODULE MCSipReceiver ----------------------------
(***************************************************************************)
(* Finite instances of SipReceiver: up to four receiver threads, which is  *)
(* two logins with their logouts, or a login, a logout and two returns.    *)
(***************************************************************************)
EXTENDS SipReceiver

CONSTANTS t1, t2, t3, t4

MCThread2 == {t1, t2}
MCThread4 == {t1, t2, t3, t4}

MCOneByOne == {}
MCAnyTime  == {"relogin", "background"}
=============================================================================
