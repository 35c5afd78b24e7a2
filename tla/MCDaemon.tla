------------------------------ MODULE MCDaemon ------------------------------
(* Small instances of Daemon.tla for TLC: an instance "mail" that stays as *)
(* it is, and an instance "hook" that is reconfigured or removed.          *)
EXTENDS Daemon

Mail    == [name |-> "mail", settings |-> 1]
Hook(n) == [name |-> "hook", settings |-> n]

Both     == {Mail, Hook(1)}
Loadable == {Both, {Mail, Hook(2)}, {Mail}, {Mail, Hook(3)}}
Raising  == {{Mail, Hook(3)}}

=============================================================================
