------------------------------ MODULE MCResearch ------------------------------
(* Two machines that share no state: one workspace with two requests at a   *)
(* time, and three reviews of the effect of one document.  `machine` says   *)
(* which one is run; the other keeps one initial state.                     *)
EXTENDS Workspaces, LegalRegistry, TLC

CONSTANTS p, q, x, y, law, b1, b2, fp

VARIABLE machine

MCRequests == {p, q}
MCDocuments == {x, y}
MCLaw == {law}
MCBatches == {b1, b2}
MCFingerprints == {fp}
MCRulings == {p, q, law}
MCDays == 1..3

Event(kind, date, scope, incoming) ==
  [kind |-> kind, date |-> date, scope |-> scope, incoming |-> incoming]
MCEvents ==
  {Event(k, d, "whole_document", TRUE) : k \in {"effective", "repeal"}, d \in MCDays}
  \union {Event(k, 2, "whole_document", TRUE) : k \in {"replace", "amend"}}
  \union {Event("repeal", 2, "partial", TRUE), Event("amend", 2, "whole_document", FALSE)}

ResearchInit ==
  /\ machine \in {"workspace", "registry"}
  /\ WorkspacesInit /\ RegistryInit
  /\ machine # "workspace" => documents = << >> /\ evidence = {} /\ analyses = << >>
  /\ machine # "registry" =>
       \A v \in Rulings : reviewed[v] = Event("effective", 1, "whole_document", TRUE)

ResearchNext ==
  /\ UNCHANGED machine
  /\ \/ machine = "workspace" /\ WorkspacesNext /\ UNCHANGED registryVars
     \/ machine = "registry" /\ RegistryNext /\ UNCHANGED workspaceVars

ResearchSpec == ResearchInit /\ [][ResearchNext]_<<machine, workspaceVars, registryVars>>

Symmetry == Permutations(MCRequests) \union Permutations(MCDocuments)
===============================================================================
