----------------------------- MODULE MCBootStages -----------------------------
(***************************************************************************)
(* A module, a zygisk module that is not installed at first, and a device  *)
(* with a native bridge of its own.                                        *)
(***************************************************************************)
EXTENDS BootStages
SomeModules == {"m", "z"}
OneModule == {"m"}
ZModule == {"z"}
SomeLibs == {"0", "libhoudini.so"}
Houdini == <<"libhoudini.so">>
=============================================================================
