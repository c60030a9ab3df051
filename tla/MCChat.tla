-------------------------------- MODULE MCChat --------------------------------
(* Four machines that share no state; `machine` says which one is run:    *)
(* the handler of two chats; the rows of two chats of a browser with two   *)
(* accounts and of another browser, with two other requests at a time; one *)
(* question through the retrievers, over four chunks of two documents;  *)
(* and requests of the service and of an evaluation that have documents    *)
(* reranked.                                                               *)
EXTENDS ChatFlow, ChatRecords, Retrieval, RerankStaging

CONSTANTS t1, t2, c1, c2, u1, u2, j1, j2, k1, k2, r1, r2, r3

VARIABLE machine

MCChats == {t1, t2}
MCUsers == {u1, u2}
MCJobs == {j1, j2}
MCRequesters == {<<c1, NoUser>>, <<c1, u1>>, <<c1, u2>>, <<c2, NoUser>>}

MCChunks == 1..4
MCDocumentOf == [c \in MCChunks |-> IF c <= 2 THEN 11 ELSE 12]
MCTokens == [c \in MCChunks |-> IF c = 3 THEN 2 ELSE 1]
MCStale == {12}
MCChunkLists == {<<>>, <<1, 2>>, <<4, 1>>}
MCDocumentLists == {<<>>, <<11>>, <<12, 11>>}
MCNeighbors == [c \in MCChunks |-> IF c = 1 THEN {2} ELSE IF c = 4 THEN {3} ELSE {}]
MCMatches == {{}, {2, 4}}

\* The service, with and without its options, and the evaluations' retrievers.
Setting(backend, rewrite, expand, final_rerank) ==
  [backend |-> backend, rewrite |-> rewrite, expand |-> expand,
   final_rerank |-> final_rerank]
MCSettings ==
  {Setting("parallel", FALSE, TRUE, TRUE), Setting("parallel", FALSE, FALSE, TRUE),
   Setting("parallel", FALSE, FALSE, FALSE), Setting("vertex", TRUE, FALSE, FALSE),
   Setting("full_corpus", FALSE, FALSE, FALSE)}

\* Two requests of the service, and one of an evaluation.
MCRerankings == {r1, r2, r3}
MCRerankerOf == [r \in MCRerankings |-> IF r = r3 THEN k2 ELSE k1]
MCModesOf == k1 :> {"current"} @@ k2 :> {"qdrant-only"}

ChatInit ==
  /\ machine \in {"flow", "records", "retrieval", "rerank"}
  /\ FlowInit /\ RecordsInit /\ RetrievalInit /\ RerankInit
  /\ machine # "retrieval" => config = Setting("parallel", FALSE, FALSE, FALSE)
  /\ machine # "rerank" => collection = "absent"

ChatNext ==
  /\ UNCHANGED machine
  /\ \/ machine = "flow" /\ FlowNext /\ UNCHANGED <<recordVars, retrievalVars, rerankVars>>
     \/ machine = "records" /\ RecordsNext /\ UNCHANGED <<flowVars, retrievalVars, rerankVars>>
     \/ machine = "retrieval" /\ RetrievalNext /\ UNCHANGED <<flowVars, recordVars, rerankVars>>
     \/ machine = "rerank" /\ RerankNext /\ UNCHANGED <<flowVars, recordVars, retrievalVars>>

ChatSpec == ChatInit /\ [][ChatNext]_<<machine, flowVars, recordVars, retrievalVars, rerankVars>>

Symmetry == Permutations(MCJobs) \union Permutations(MCUsers)
===============================================================================
