------------------------------- MODULE MCZygisk -------------------------------
(***************************************************************************)
(* Instances of Zygisk: a recent platform, one without                     *)
(* nativeSpecializeAppProcess and fds_to_ignore, one with a method of a    *)
(* signature nobody knows, and ones where hooks or callbacks are missing.  *)
(***************************************************************************)
EXTENDS Zygisk

Recent == [has |-> Methods, known |-> Methods, missing |-> {}, callbacks |-> TRUE, ignore |-> TRUE]
Old == [Recent EXCEPT !.has = @ \ {"nativeSpecializeAppProcess"},
                      !.known = @ \ {"nativeSpecializeAppProcess"}, !.ignore = FALSE]
Unknown == [Recent EXCEPT !.known = @ \ {"nativeForkSystemServer"},
                          !.missing = {"selinux_android_setcontext"}]
NoTrigger == [Recent EXCEPT !.missing = {"strdup"}]
NoCallbacks == [Recent EXCEPT !.callbacks = FALSE]

MCDevices == {Recent, Old, Unknown, NoTrigger, NoCallbacks}
=============================================================================
