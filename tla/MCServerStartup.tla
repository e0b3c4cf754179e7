---------------------------- MODULE MCServerStartup ----------------------------
(* Small instances of ServerStartup: two servers race for the lock, one may be  *)
(* started again after a crash; two files tell the last one from the others.    *)
EXTENDS ServerStartup

CONSTANTS a, b

TwoServers == {a, b}
===============================================================================
