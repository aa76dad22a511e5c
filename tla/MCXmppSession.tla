---- MODULE MCXmppSession ----
(* TLC instance of XmppSession. *)
EXTENDS XmppSession

AllAsks      == {"ping", "time", "switch", "plan", "commamd", "async"}
AllMechs     == SUBSET {"md5", "plain"}
AllServices  == {{"bind", "session"}, {"bind"}}
AllRefusals  == {"auth", "bind", "session"}
====
