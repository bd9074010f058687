------------------------------ MODULE MCAgents ------------------------------
(***************************************************************************)
(* A small instance of Agents: one file of the specification and one of    *)
(* the refinement, each of which the language model may write in any       *)
(* answer.                                                                 *)
(***************************************************************************)
EXTENDS Agents

MCKinds == {"dafny_spec", "dafny_impl", "c_source"}
MCPaths == {"types.dfy", "concrete.dfy"}
MCDomainFiles == {"types.dfy"}
MCRefinementFiles == {"concrete.dfy"}
=============================================================================
