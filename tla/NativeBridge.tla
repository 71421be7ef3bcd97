----------------------------- MODULE NativeBridge -----------------------------
(***************************************************************************)
(* ZygiskState of core/zygisk/daemon.rs: how the daemon puts its loader    *)
(* into ro.dalvik.vm.native.bridge and takes it out again.  Zygote loads   *)
(* the library the property names when it starts.                          *)
(*                                                                         *)
(* The code keeps the original value behind the loader's name in the one   *)
(* string lib_name and cuts it off by length.  A string is modelled as the *)
(* sequence of the names it is put together from.                          *)
(***************************************************************************)
EXTENDS Naturals, Sequences

CONSTANTS LDR,      \* ZYGISKLDR, the name of the loader
          Libs,     \* other names of libraries, and "0"
          Orig      \* what the property is when the device starts

Zero == "0"
ASSUME BridgeAssumption ==
    /\ LDR \notin Libs
    /\ Zero \in Libs
    /\ Orig \in Seq(Libs)

VARIABLES nbprop,       \* the property NBPROP
          lib_name, start_count,
          stopping,     \* STOP_DAEMON has restored the property, exit is to come
          blind,        \* (history) restore_prop ran with nothing to restore
          late          \* (history) the loader was put back while stopping

bridge == <<nbprop, lib_name, start_count, stopping, blind, late>>

\* The property names no bridge.
Absent(v) == v \in {<<>>, <<Zero>>}
HasLoader(v) == v # <<>> /\ Head(v) = LDR
SameBridge(v, w) == v = w \/ (Absent(v) /\ Absent(w))

BridgeInit ==
    /\ nbprop = Orig
    /\ lib_name = <<>>
    /\ start_count = 1
    /\ stopping = FALSE /\ blind = FALSE /\ late = FALSE

-----------------------------------------------------------------------------
set_prop_Again ==
    /\ lib_name' = IF Absent(nbprop) THEN <<LDR>> ELSE <<LDR>> \o nbprop
    /\ nbprop' = lib_name'
    /\ late' = stopping
    /\ UNCHANGED blind
set_prop ==
    \/ lib_name # <<>> /\ UNCHANGED <<nbprop, lib_name, blind, late>>
    \/ /\ lib_name = <<>>
       /\ lib_name' = IF Absent(nbprop) THEN <<LDR>> ELSE <<LDR>> \o nbprop
       /\ nbprop' = lib_name'
       /\ late' = stopping
       /\ UNCHANGED blind

restore_prop ==
    /\ nbprop' = IF Len(lib_name) > 1 THEN Tail(lib_name) ELSE <<Zero>>
    /\ lib_name' = <<>>
    /\ blind' = (blind \/ (lib_name = <<>> /\ ~ Absent(nbprop)))
    /\ late' = FALSE

\* Beyond 3 the count makes no difference any more, and is kept at 4.
MaxStarts == 4
NextCount == IF start_count < MaxStarts THEN start_count + 1 ELSE MaxStarts

\* reset(true), at boot-complete, and reset(false), for a restarted zygote.
reset_restore == start_count' = 1 /\ set_prop /\ UNCHANGED stopping
reset_crash ==
    /\ start_count' = NextCount /\ UNCHANGED stopping
    /\ \/ start_count' > 3 /\ restore_prop
       \/ start_count' <= 3 /\ set_prop

-----------------------------------------------------------------------------
\* The property is what the daemon believes; if it believes nothing, the loader is
\* not in there, except when a handler put it back while STOP_DAEMON, which gives
\* the lock free after restore_prop, was on its way to exit (core/daemon.rs:109-114).
\* Unless a restore had nothing to go by, the original value can be had from it.
BridgeExact ==
    /\ lib_name # <<>> => nbprop = lib_name /\ HasLoader(lib_name)
    /\ lib_name = <<>> => (HasLoader(nbprop) <=> late)
    /\ ~ blind => SameBridge(IF HasLoader(nbprop) THEN Tail(nbprop) ELSE nbprop, Orig)
=============================================================================
