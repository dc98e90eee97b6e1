-------------------------- MODULE MCBrowserSession --------------------------
(* BrowserSession with two tabs: of two browsers, or of one. *)
EXTENDS BrowserSession, TLC

CONSTANTS t1, t2, b1, b2

TwoBrowsers == t1 :> b1 @@ t2 :> b2
OneBrowser == [t \in {t1, t2} |-> b1]
MCSlots == {t1, t2} \X {"login", "refresh", "logout", "gone"}
=============================================================================
