---------------------------- MODULE MCKernelBoot ----------------------------
(***************************************************************************)
(* KernelBoot with short sleeps and two beeps; the configurations choose   *)
(* the exceptions that happen.                                             *)
(***************************************************************************)
EXTENDS KernelBoot
=============================================================================
