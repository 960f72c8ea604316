-------------------------- MODULE MCNativeProfiler --------------------------
(***************************************************************************)
(* NativeProfiler on a small instance: a framework module with a native    *)
(* image, whose method inlines the target in the application's module.     *)
(* Each id of InitializeProfiler brings one integration.                   *)
(***************************************************************************)
EXTENDS NativeProfiler

CONSTANTS framework, application, f, first, second, i1, i2

MCDomainOf == framework :> 1 @@ application :> 1
MCDefinitions == first :> {i1} @@ second :> {i2}
MCMatches == i1 :> {<<application, f>>} @@ i2 :> {<<framework, f>>}
MCInliners ==
    framework :> [p \in Pairs |->
        IF p = <<application, f>> THEN {<<framework, f>>} ELSE {}]
=============================================================================
