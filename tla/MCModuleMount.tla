--------------------------- MODULE MCModuleMount ---------------------------
(***************************************************************************)
(* Two devices, one with vendor as a partition of its own and one, with an *)
(* su and 32-bit code, that has it in system; up to two modules that put   *)
(* files over files, add some, in new directories too, replace and hide    *)
(* directories, and get in each other's way.                               *)
(***************************************************************************)
EXTENDS ModuleMount

SomeNames ==
    <<".replace", "bin", "d", "data", "etc", "f", "g", "lib", "lib64", "libzygisk", "linker", "linker64",
      "lnk", "magisk", "magiskpolicy", "new", "resetprop", "sh", "su", "supolicy", "vendor", "x", "xbin">>
Real(p) == p :> File("real", p)

Common ==
    <<"system">> :> Dir @@ <<"system", "bin">> :> Dir @@ Real(<<"system", "bin", "linker64">>)
    @@ Real(<<"system", "bin", "sh">>)
    @@ <<"system", "etc">> :> Dir @@ Real(<<"system", "etc", "f">>)
    @@ <<"system", "etc", "d">> :> Dir @@ Real(<<"system", "etc", "d", "g">>)
    @@ <<"system", "etc", "lnk">> :> Symlink(<<"system", "etc", "d">>)
    @@ <<"system", "lib64">> :> Dir @@ <<"data">> :> Dir

\* vendor as a partition of its own, with a bin; or as a directory of system.
Split == Common @@ <<"vendor">> :> Dir @@ <<"vendor", "bin">> :> Dir @@ Real(<<"vendor", "f">>)
         @@ <<"system", "vendor">> :> Symlink(<<"vendor">>)
Old == Common @@ <<"system", "vendor">> :> Dir @@ Real(<<"system", "vendor", "f">>)
       @@ <<"vendor">> :> Symlink(<<"system", "vendor">>)
       @@ <<"system", "xbin">> :> Dir @@ Real(<<"system", "xbin", "su">>)
       @@ <<"system", "lib">> :> Dir @@ Real(<<"system", "bin", "linker">>)

Tree(nodes) == [k \in UNION {Above(x) \ {<<>>} : x \in DOMAIN nodes} |-> Dir] @@ nodes
F(k) == k :> [t |-> "file"]
M(nodes) == [tree |-> Tree(nodes), skip_mount |-> FALSE]

SomeModules ==
    {M(F(<<"etc", "f">>)), M(F(<<"etc", "new">>) @@ F(<<"bin", "su">>)),
     M(F(<<"etc", "d", ".replace">>) @@ F(<<"etc", "d", "new">>)),
     M(F(<<"etc", ".replace">>) @@ F(<<"etc", "d", "new">>)),
     M(F(<<"etc", "d", "f">>) @@ F(<<"new">>)), M(F(<<"etc", "d", "x", "f">>)),
     M(<<"etc", "f">> :> Whiteout @@ F(<<"etc", "lnk", "f">>)),
     M(<<"etc", "d">> :> Whiteout), M(<<"etc", "d">> :> Symlink(<<"data">>)),
     M(F(<<"etc", "d">>)), M(F(<<"vendor", "f">>) @@ F(<<"vendor", "bin", "f">>)),
     M(F(<<"vendor", "bin">>)), [M(F(<<"etc", "f">>)) EXCEPT !.skip_mount = TRUE]}
Env(emulator, sbin, zygisk, magisk32) ==
    [emulator |-> emulator, sbin |-> sbin, zygisk |-> zygisk, magisk32 |-> magisk32]
SomeEnvironments ==
    {Env(FALSE, FALSE, FALSE, FALSE), Env(TRUE, FALSE, FALSE, FALSE), Env(FALSE, TRUE, TRUE, FALSE),
     Env(FALSE, FALSE, TRUE, TRUE)}
TwoNames == <<"A", "B">>
SomePath == <<<<"system", "bin">>, <<"system", "xbin">>, <<"vendor", "bin">>>>
SomeDevices == {Split, Old}
=============================================================================
