--------------------------- MODULE MCApplication ---------------------------
(***************************************************************************)
(* Instances of Injection, and so of Application, for TLC.  The types are  *)
(* those of the README's example, with a singleton that refers back to the *)
(* repository that is given it.                                            *)
(***************************************************************************)
EXTENDS Injection

MCTtl3 == <<3>>

MCType == {"InitJob", "LoopingJob", "Component", "Repository", "Singleton"}
MCFields ==
  [t \in MCType |->
     CASE t = "InitJob"    -> <<"Repository">>
       [] t = "LoopingJob" -> <<"Component", "Repository", "Component">>
       [] t = "Component"  -> <<"Singleton", "Repository">>
       [] t = "Repository" -> <<"Singleton">>
       [] t = "Singleton"  -> <<"Repository">>]
MCProvided == {"Singleton"}
MCJobTypes == <<"InitJob", "InitJob">>
MCServiceTypes == <<"LoopingJob">>

=============================================================================
