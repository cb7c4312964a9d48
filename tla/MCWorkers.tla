----------------------------- MODULE MCWorkers ------------------------------
(***************************************************************************)
(* One run for the threads and processes that work beside the app's own:   *)
(* the realtime ring, the export worker, a sandboxed plug-in's process and *)
(* its exchange of blocks, each under the fairness its scheduling gives    *)
(* it. They share no state here: a behaviour is one of the component       *)
(* `part` names, chosen at the start, while the others stay as they are.   *)
(***************************************************************************)
EXTENDS MpscRing, MCSongExport, PluginHelper, Sandbox

VARIABLE part

Parts == {"ring", "export", "process", "blocks"}
everything == <<part, vars, exportVars, childVars, sandboxVars>>

WorkersInit ==
  /\ part \in Parts
  /\ Init /\ ExportInit /\ HelperInit /\ SandboxInit

WorkersNext ==
  \/ /\ part = "ring" /\ Next
     /\ UNCHANGED <<part, exportVars, childVars, sandboxVars>>
  \/ /\ part = "export" /\ ExportNext
     /\ UNCHANGED <<part, vars, childVars, sandboxVars>>
  \/ /\ part = "process" /\ HelperNext
     /\ UNCHANGED <<part, vars, exportVars, sandboxVars>>
  \/ /\ part = "blocks" /\ SandboxNext
     /\ UNCHANGED <<part, vars, exportVars, childVars>>

\* The fairness of FairSpec, ExportSpec, HelperSpec and SandboxFairSpec, each for
\* its own part.
WorkersSpec ==
  /\ WorkersInit /\ [][WorkersNext]_everything
  /\ \A p \in Producers : WF_vars(part = "ring" /\ (Writes(p) \/ Publishes(p)))
  /\ WF_vars(part = "ring" /\ Pop)
  /\ SF_vars(part = "ring" /\ Pops)
  /\ WF_exportVars(part = "export" /\ Works)
  /\ WF_childVars(part = "process" /\ AppStep)
  /\ WF_childVars(part = "process" /\ HelperStep)
  /\ WF_childVars(part = "process" /\ AudioStep)
  /\ WF_sandboxVars(part = "blocks" /\ Finishes)
=============================================================================
