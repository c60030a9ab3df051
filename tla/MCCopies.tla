------------------------------- MODULE MCCopies -------------------------------
(* Two machines that share no state, each with two operators: the copies of *)
(* full texts and the search of phrases in them, and the pilot in a Pinecone *)
(* namespace.  `machine` says which one is run; the other keeps one initial  *)
(* state.                                                                    *)
EXTENDS FullDocuments, PineconePilot, TLC

CONSTANTS o1, o2

VARIABLE machine

MCOperators == {o1, o2}

\* The second edition has one more document, before the others, another text
\* and another type of one that both have.
Text(phrases, type) == [text |-> phrases, type |-> type]
MCStoreOf == [e \in {"old", "new"} |->
  IF e = "old" THEN [d \in {2, 3} |-> Text(IF d = 2 THEN {"phrase"} ELSE {}, "law")]
  ELSE [d \in {1, 2, 3} |->
          IF d = 2 THEN Text({}, "decree") ELSE Text({"phrase"}, "law")]]
MCPicks == {{2, 3}, {1, 3}}

\* The first and the last of three records are looked up; the corpora differ in
\* the one between them.
MCIdsIn == [c \in {"c1", "c2"} |->
  IF c = "c1" THEN <<"a", "b", "c">> ELSE <<"a", "d", "c">>]

CopiesInit ==
  /\ machine \in {"texts", "pinecone"}
  /\ DocumentsInit /\ PineconeInit
  /\ store = "old" /\ local = [corpus |-> "c1", text |-> "t1"]
  /\ audited \in IF machine = "pinecone" THEN {{}, {MCIdsIn[c] : c \in Corpora}} ELSE {{}}
  /\ namespace \in IF machine = "pinecone" THEN {<< >>, "d" :> "t1"} ELSE {<< >>}

CopiesNext ==
  /\ UNCHANGED machine
  /\ \/ machine = "texts" /\ DocumentsNext /\ UNCHANGED pineconeVars
     \/ machine = "pinecone" /\ PineconeNext /\ UNCHANGED documentVars

CopiesSpec == CopiesInit /\ [][CopiesNext]_<<machine, documentVars, pineconeVars>>

Symmetry == Permutations(MCOperators)
===============================================================================
