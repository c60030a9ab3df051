------------------------------ MODULE ChatProofs ------------------------------
(***************************************************************************)
(* Five promises of the chat endpoint and of what it calls, for any number *)
(* of chats, browsers, users and requests.                                 *)
(*                                                                         *)
(* The log, the progress and the stored answer of a chat agree: the        *)
(* handler writes each of them in a step of its own, so this rests on what *)
(* a stage has settled.                                                    *)
(*                                                                         *)
(* A row that is gone or owned stays so, because a chat writes its rows    *)
(* once; and the judge stays within its budget, because a job reserves     *)
(* once.                                                                   *)
(*                                                                         *)
(* What failed in a search shows: a lane that failed has no evidence, so   *)
(* whatever is merged of two lanes carries the failures of both.           *)
(*                                                                         *)
(* And what the model is given stays within the limits: each lane bounds   *)
(* what it shows and repeats nothing, and what two lanes give by rank is   *)
(* bounded again.  The lists are made by recursive functions over their    *)
(* positions, so this rests on induction over the positions.               *)
(***************************************************************************)
EXTENDS ChatFlow, ChatRecords, Retrieval, FiniteSetTheorems, SequenceTheorems,
        WellFoundedInduction, TLAPS

-----------------------------------------------------------------------------
(* ChatFlow                                                                *)

\* A status is settled from "persist" on, and only then means anything.
Settled(t) == chat[t].stage \in {"persist", "respond", "save", "done"}
StatusEarned(t) ==
  /\ chat[t].status \in {"ok", "cache_hit"} => chat[t].evidence
  /\ chat[t].status \in {"blocked_input", "blocked_output"} => Checked(t)

ChatSettled(t) ==
  /\ Settled(t) => StatusEarned(t)
  /\ logged[t] # "none" => /\ logged[t] = chat[t].status /\ StatusEarned(t)
                           /\ chat[t].stage \in {"respond", "save", "done", "cut"}
  /\ chat[t].stage = "save" => ToBeCached(t)
  /\ t \in answerCache => chat[t].stage = "done" /\ ToBeCached(t)

ProgressSettled(entry) ==
  entry.status # "running" => /\ entry.status = chat[entry.chat].status
                              /\ chat[entry.chat].stage \in {"save", "done"}

FlowInv == /\ FlowTypeOK
           /\ \A t \in Chats : ChatSettled(t)
           /\ \A i \in DOMAIN progress : ProgressSettled(progress[i])

\* The registry is a sequence of entries about chats.
LEMMA EntriesTyped ==
  ASSUME FlowTypeOK, NEW i \in DOMAIN progress
  PROVE  progress[i] \in [chat : Chats, status : Outcomes \union {"running"}]
<1> DEFINE E == [chat : Chats, status : Outcomes \union {"running"}]
<1>1. progress \in Seq(E)
  BY DEF FlowTypeOK
<1> HIDE DEF E
<1>2. progress[i] \in E
  BY <1>1
<1> QED
  BY <1>2 DEF E

LEMMA InitFlow == FlowInit => FlowInv
BY FlowAssumption
DEF FlowInit, FlowInv, FlowTypeOK, ChatSettled, Settled, StatusEarned, ToBeCached, NewChat, Outcomes,
    Running, Scopes

\* A step of chat t that leaves the progress alone and has settled what it left.
LEMMA OneChatStep ==
  ASSUME FlowInv, NEW t \in Chats, NEW c, chat' = [chat EXCEPT ![t] = c], progress' = progress,
         c \in [stage : Running \union {"new", "done", "cut"}, scope : Scopes,
                evidence : BOOLEAN, status : Outcomes],
         \A u \in Chats \ {t} : logged'[u] = logged[u] /\ (u \in answerCache' <=> u \in answerCache),
         ChatSettled(t)', chat[t].stage \notin {"save", "done"} \/
                          (c.stage \in {"save", "done"} /\ c.status = chat[t].status),
         logged' \in [Chats -> Outcomes \union {"none"}], answerCache' \subseteq Chats, cuts' = cuts
  PROVE  FlowInv'
<1>1. FlowTypeOK'
  BY DEF FlowInv, FlowTypeOK
<1>2. ASSUME NEW u \in Chats \ {t} PROVE ChatSettled(u)'
  <2>1. chat'[u] = chat[u]
    BY DEF FlowInv, FlowTypeOK
  <2> QED
    BY <2>1 DEF FlowInv, ChatSettled, Settled, StatusEarned, ToBeCached, Checked, Scoped
<1>3. ASSUME NEW i \in DOMAIN progress PROVE ProgressSettled(progress[i])'
  <2>1. progress[i].chat \in Chats
    BY EntriesTyped DEF FlowInv
  <2>2. chat'[progress[i].chat] = IF progress[i].chat = t THEN c ELSE chat[progress[i].chat]
    BY <2>1 DEF FlowInv, FlowTypeOK
  <2> QED
    BY <2>2 DEF FlowInv, ProgressSettled
<1> QED
  BY <1>1, <1>2, <1>3 DEF FlowInv

LEMMA ChatStepKeeps == ASSUME FlowInv, NEW t \in Chats, ChatStep(t) PROVE FlowInv'
<1>1. chat \in [Chats -> [stage : Running \union {"new", "done", "cut"}, scope : Scopes,
                          evidence : BOOLEAN, status : Outcomes]]
  BY DEF FlowInv, FlowTypeOK
<1>2. ChatSettled(t)
  BY DEF FlowInv
<1>3. CASE CreateFirst(t) \/ InputGuardrail(t) \/ CheckCache(t) \/ Answer(t) \/ OutputGuardrail(t)
  <2>1. UNCHANGED onlyChat /\ logged[t] = "none" /\ t \notin answerCache
    BY <1>2, <1>3 DEF CreateFirst, InputGuardrail, CheckCache, Answer, OutputGuardrail, Now,
                      ChatSettled
  <2>2. PICK c \in [stage : Running \union {"new", "done", "cut"}, scope : Scopes,
                    evidence : BOOLEAN, status : Outcomes] :
          /\ chat' = [chat EXCEPT ![t] = c] /\ c.scope = chat[t].scope
          /\ \/ c.stage \in {"input", "cache", "answer", "output"}
             \/ /\ c.stage = "persist"
                /\ c.status \in {"ok", "cache_hit"} => c.evidence
                /\ c.status \in {"blocked_input", "blocked_output"} => Checked(t)
    <3>1. CASE CreateFirst(t)
      <4> DEFINE c == [chat[t] EXCEPT !.stage = "input"]
      <4>1. chat' = [chat EXCEPT ![t] = c]
        BY <1>1, <3>1 DEF CreateFirst, Goto
      <4>2. /\ c \in [stage : Running \union {"new", "done", "cut"}, scope : Scopes,
                      evidence : BOOLEAN, status : Outcomes]
            /\ c.scope = chat[t].scope /\ c.stage = "input"
        BY <1>1 DEF Running
      <4> HIDE DEF c
      <4> QED
        BY <4>1, <4>2
    <3>2. CASE InputGuardrail(t)
      BY <1>1, <3>2 DEF InputGuardrail, Goto, Settle, Running, Outcomes
    <3>3. CASE CheckCache(t)
      BY <1>1, <3>3 DEF CheckCache, Goto, Running, Outcomes
    <3>4. CASE Answer(t)
      BY <1>1, <3>4 DEF Answer, Running, Outcomes
    <3>5. CASE OutputGuardrail(t)
      BY <1>1, <3>5 DEF OutputGuardrail, Settle, Running, Outcomes
    <3> QED
      BY <1>3, <3>1, <3>2, <3>3, <3>4, <3>5
  <2>3. chat'[t] = c
    BY <1>1, <2>2
  <2>4. ChatSettled(t)'
    BY <2>1, <2>2, <2>3 DEF ChatSettled, Settled, StatusEarned, Checked, onlyChat
  <2>5. chat[t].stage \notin {"save", "done"}
    BY <1>3 DEF CreateFirst, InputGuardrail, CheckCache, Answer, OutputGuardrail, Now
  <2> QED
    BY <2>1, <2>2, <2>4, <2>5, OneChatStep DEF onlyChat, FlowInv, FlowTypeOK
<1>4. CASE Persist(t)
  <2> DEFINE c == [chat[t] EXCEPT !.stage = "respond"]
  <2>1. /\ chat' = [chat EXCEPT ![t] = c] /\ chat[t].stage = "persist"
        /\ c \in [stage : Running \union {"new", "done", "cut"}, scope : Scopes,
                  evidence : BOOLEAN, status : Outcomes]
    BY <1>1, <1>4 DEF Persist, Now, Goto, Running
  <2>2. logged' = [logged EXCEPT ![t] = chat[t].status] \/ logged' = logged
    BY <1>4 DEF Persist
  <2>3. /\ chat'[t].stage = "respond" /\ chat'[t].status = chat[t].status
        /\ chat'[t].evidence = chat[t].evidence /\ chat'[t].scope = chat[t].scope
    BY <1>1, <2>1
  <2>4. logged'[t] \in {logged[t], chat[t].status}
    BY <2>2 DEF FlowInv, FlowTypeOK
  <2>5. UNCHANGED <<progress, answerCache, cuts>>
    BY <1>4 DEF Persist
  <2>6. ChatSettled(t)'
    BY <1>2, <2>1, <2>3, <2>4, <2>5 DEF ChatSettled, Settled, StatusEarned, Checked, ToBeCached
  <2>7. logged' \in [Chats -> Outcomes \union {"none"}]
    BY <1>1, <2>2 DEF FlowInv, FlowTypeOK
  <2> QED
    BY <2>1, <2>2, <2>5, <2>6, <2>7, OneChatStep DEF FlowInv, FlowTypeOK
<1>5. CASE SaveAnswer(t)
  <2> DEFINE c == [chat[t] EXCEPT !.stage = "done"]
  <2>1. /\ chat' = [chat EXCEPT ![t] = c] /\ chat[t].stage = "save"
        /\ c \in [stage : Running \union {"new", "done", "cut"}, scope : Scopes,
                  evidence : BOOLEAN, status : Outcomes]
    BY <1>1, <1>5 DEF SaveAnswer, Now, Goto
  <2>2. UNCHANGED <<logged, progress, cuts>> /\ answerCache' \in {answerCache, answerCache \union {t}}
    BY <1>5 DEF SaveAnswer
  <2>3. /\ chat'[t].stage = "done" /\ chat'[t].status = chat[t].status
        /\ chat'[t].evidence = chat[t].evidence /\ chat'[t].scope = chat[t].scope
    BY <1>1, <2>1
  <2>4. ChatSettled(t)'
    BY <1>2, <2>1, <2>2, <2>3 DEF ChatSettled, Settled, StatusEarned, Checked, ToBeCached, Scoped
  <2>5. c.stage = "done" /\ c.status = chat[t].status
    BY <1>1
  <2> HIDE DEF c
  <2> QED
    BY <2>1, <2>2, <2>4, <2>5, OneChatStep DEF FlowInv, FlowTypeOK
\* The only step that touches the registry: it marks the entry of a chat whose
\* log is written, with the status that was settled.
<1>6. CASE Respond(t)
  <2>1. PICK s \in {"save", "done"} : /\ chat' = [chat EXCEPT ![t].stage = s]
                                      /\ s = "save" => ToBeCached(t)
    BY <1>6 DEF Respond, Goto
  <2>2. /\ chat'[t].stage = s /\ chat'[t].status = chat[t].status
        /\ chat'[t].evidence = chat[t].evidence /\ chat'[t].scope = chat[t].scope
        /\ \A u \in Chats \ {t} : chat'[u] = chat[u]
    BY <1>1, <2>1
  <2>3. /\ UNCHANGED <<logged, answerCache, cuts>> /\ chat[t].stage = "respond"
        /\ progress' = CompletedProgress(t, chat[t].status)
    BY <1>6 DEF Respond, Now
  <2>4. ChatSettled(t)'
    BY <1>2, <2>1, <2>2, <2>3 DEF ChatSettled, Settled, StatusEarned, Checked, ToBeCached, Scoped
  <2>5. ASSUME NEW u \in Chats \ {t} PROVE ChatSettled(u)'
    BY <2>2, <2>3 DEF FlowInv, ChatSettled, Settled, StatusEarned, ToBeCached, Checked, Scoped
  <2>6. DOMAIN progress' = DOMAIN progress
    BY <2>3 DEF CompletedProgress
  <2>7. ASSUME NEW i \in DOMAIN progress
        PROVE  /\ progress'[i] \in [chat : Chats, status : Outcomes \union {"running"}]
               /\ ProgressSettled(progress[i])'
    <3>1. progress[i] \in [chat : Chats, status : Outcomes \union {"running"}] /\ ProgressSettled(progress[i])
      BY EntriesTyped DEF FlowInv
    <3>2. CASE progress[i].chat = t
      <4>1. progress'[i] = [progress[i] EXCEPT !.status = chat[t].status]
        BY <2>3, <3>2 DEF CompletedProgress
      <4>2. chat[t].status \in Outcomes
        BY <1>1
      <4>3. progress'[i] \in [chat : Chats, status : Outcomes \union {"running"}]
            /\ progress'[i].chat = t /\ progress'[i].status = chat[t].status
        BY <3>1, <3>2, <4>1, <4>2
      <4> QED
        BY <2>1, <2>2, <4>3 DEF ProgressSettled
    <3>3. CASE progress[i].chat # t
      <4>1. progress'[i] = progress[i]
        BY <2>3, <3>3 DEF CompletedProgress
      <4>2. chat'[progress[i].chat] = chat[progress[i].chat]
        BY <2>2, <3>1, <3>3
      <4> QED
        BY <3>1, <4>1, <4>2 DEF ProgressSettled
    <3> QED
      BY <3>2, <3>3
  <2>8. progress' \in Seq([chat : Chats, status : Outcomes \union {"running"}]) /\ Len(progress') = Len(progress)
    <3> DEFINE E == [chat : Chats, status : Outcomes \union {"running"}]
    <3>1. progress \in Seq(E)
      BY DEF FlowInv, FlowTypeOK
    <3>2. progress' = [i \in DOMAIN progress |-> progress'[i]]
      BY <2>3 DEF CompletedProgress
    <3>3. \A i \in DOMAIN progress : progress'[i] \in E
      BY <2>7
    <3> HIDE DEF E
    <3>4. DOMAIN progress = 1..Len(progress) /\ Len(progress) \in Nat
      BY <3>1
    <3>5. progress' \in [1..Len(progress) -> E]
      BY <3>2, <3>3, <3>4
    <3>6. progress' \in Seq(E) /\ Len(progress') = Len(progress)
      BY <3>4, <3>5
    <3> QED
      BY <3>6 DEF E
  <2>9. FlowTypeOK'
    BY <1>1, <2>1, <2>3, <2>8 DEF FlowInv, FlowTypeOK, Running
  <2> QED
    BY <2>4, <2>5, <2>6, <2>7, <2>9 DEF FlowInv
<1> QED
  BY <1>3, <1>4, <1>5, <1>6 DEF ChatStep

\* A chat begins as the newest entry; the oldest may go.
LEMMA AskKeeps ==
  ASSUME FlowInv, NEW t \in Chats, NEW scope \in Scopes, NEW opens \in BOOLEAN, Ask(t, scope, opens)
  PROVE  FlowInv'
<1> DEFINE E == [chat : Chats, status : Outcomes \union {"running"}]
           entry == [chat |-> t, status |-> "running"]
           all == Append(progress, entry)
<1>1. progress \in Seq(E) /\ Len(progress) <= MaxEntries /\ entry \in E
  BY DEF FlowInv, FlowTypeOK
<1>2. /\ chat[t].stage = "new" /\ UNCHANGED <<logged, answerCache, cuts>>
      /\ progress' = IF Len(all) > MaxEntries THEN Tail(all) ELSE all
  BY DEF Ask, StartedProgress, Now
<1> HIDE DEF E
<1>3. all \in Seq(E) /\ Len(all) = Len(progress) + 1
      /\ \A i \in 1..Len(all) : all[i] = IF i <= Len(progress) THEN progress[i] ELSE entry
  BY <1>1
<1>4. /\ progress' \in Seq(E) /\ Len(progress') <= MaxEntries
      /\ \A i \in DOMAIN progress' :
           progress'[i] = entry \/ \E j \in DOMAIN progress : progress'[i] = progress[j]
  <2>1. CASE Len(all) > MaxEntries
    <3>1. progress' = Tail(all) /\ all # <<>>
      BY <1>2, <1>3, <2>1, FlowAssumption
    <3>2. progress' \in Seq(E) /\ Len(progress') = Len(progress)
          /\ \A i \in 1..Len(progress') : progress'[i] = all[i + 1]
      BY <1>1, <1>3, <3>1
    <3>3. ASSUME NEW i \in DOMAIN progress'
          PROVE  progress'[i] = entry \/ \E j \in DOMAIN progress : progress'[i] = progress[j]
      <4>1. i \in 1..Len(progress) /\ i + 1 \in 1..Len(all) /\ progress'[i] = all[i + 1]
        BY <1>1, <1>3, <3>2
      <4>2. all[i + 1] = IF i + 1 <= Len(progress) THEN progress[i + 1] ELSE entry
        BY <1>3, <4>1
      <4>3. i + 1 <= Len(progress) => i + 1 \in DOMAIN progress
        BY <1>1, <4>1
      <4> QED
        BY <4>1, <4>2, <4>3
    <3> QED
      BY <1>1, <3>2, <3>3
  <2>2. CASE Len(all) <= MaxEntries
    BY <1>1, <1>2, <1>3, <2>2, FlowAssumption
  <2> QED
    BY <1>1, <1>3, <2>1, <2>2, FlowAssumption
<1>5. /\ \A u \in Chats \ {t} : chat'[u] = chat[u]
      /\ chat'[t].stage \in {"open", "input"}
      /\ chat' \in [Chats -> [stage : Running \union {"new", "done", "cut"}, scope : Scopes,
                             evidence : BOOLEAN, status : Outcomes]]
  <2>1. PICK at \in {"open", "input"} :
          chat' = [chat EXCEPT ![t].scope = scope, ![t].stage = at]
    BY DEF Ask
  <2> DEFINE c == [chat[t] EXCEPT !.scope = scope, !.stage = at]
             C == [stage : Running \union {"new", "done", "cut"}, scope : Scopes,
                   evidence : BOOLEAN, status : Outcomes]
  <2>2. chat \in [Chats -> C]
    BY DEF FlowInv, FlowTypeOK
  <2>3. c \in C /\ c.stage = at
    BY <2>2 DEF Running
  <2>4. chat' = [chat EXCEPT ![t] = c]
    BY <2>1, <2>2
  <2> HIDE DEF c, C
  <2>5. chat' \in [Chats -> C] /\ chat'[t] = c /\ \A u \in Chats \ {t} : chat'[u] = chat[u]
    BY <2>2, <2>3, <2>4
  <2> QED
    BY <2>3, <2>5 DEF C
<1>6. logged[t] = "none" /\ t \notin answerCache
  BY <1>2 DEF FlowInv, ChatSettled
<1>7. ASSUME NEW u \in Chats PROVE ChatSettled(u)'
  BY <1>2, <1>5, <1>6 DEF FlowInv, ChatSettled, Settled, StatusEarned, ToBeCached, Checked, Scoped
<1>8. ASSUME NEW i \in DOMAIN progress' PROVE ProgressSettled(progress[i])'
  <2>1. CASE progress'[i] = entry
    BY <2>1 DEF ProgressSettled
  <2>2. ASSUME NEW j \in DOMAIN progress, progress'[i] = progress[j] PROVE ProgressSettled(progress[i])'
    <3>1. ProgressSettled(progress[j]) /\ progress[j].chat \in Chats
      BY EntriesTyped DEF FlowInv
    <3>2. progress[j].status # "running" => progress[j].chat # t
      BY <1>2, <3>1 DEF ProgressSettled
    <3> QED
      BY <1>5, <2>2, <3>1, <3>2 DEF ProgressSettled
  <2> QED
    BY <1>4, <2>1, <2>2
<1>9. FlowTypeOK'
  BY <1>2, <1>4, <1>5 DEF FlowInv, FlowTypeOK, E
<1> QED
  BY <1>7, <1>8, <1>9 DEF FlowInv

LEMMA PruneKeeps ==
  ASSUME FlowInv, NEW k \in DOMAIN progress, PruneProgress(k) PROVE FlowInv'
<1> DEFINE E == [chat : Chats, status : Outcomes \union {"running"}]
<1>1. progress \in Seq(E) /\ Len(progress) <= MaxEntries
  BY DEF FlowInv, FlowTypeOK
<1>2. progress' = SubSeq(progress, 1, k - 1) \o SubSeq(progress, k + 1, Len(progress))
  BY DEF PruneProgress, SeqExt!RemoveAt
<1> HIDE DEF E
<1>3. k \in 1..Len(progress) /\ Len(progress) \in Nat
  BY <1>1
<1>4. /\ progress' \in Seq(E) /\ Len(progress') = Len(progress) - 1
      /\ \A i \in 1..Len(progress') : progress'[i] = IF i < k THEN progress[i] ELSE progress[i + 1]
  <2> DEFINE before == SubSeq(progress, 1, k - 1)
             after == SubSeq(progress, k + 1, Len(progress))
  <2>1. before \in Seq(E) /\ Len(before) = k - 1 /\ \A i \in 1..(k - 1) : before[i] = progress[i]
    BY <1>1, <1>3
  <2>2. /\ after \in Seq(E) /\ Len(after) = Len(progress) - k
        /\ \A i \in 1..(Len(progress) - k) : after[i] = progress[i + k]
    BY <1>1, <1>3
  <2> HIDE DEF before, after
  <2>3. progress' = before \o after
    BY <1>2 DEF before, after
  <2>4. progress' \in Seq(E) /\ Len(progress') = Len(progress) - 1
    BY <1>3, <2>1, <2>2, <2>3
  <2>5. ASSUME NEW i \in 1..Len(progress')
        PROVE  progress'[i] = IF i < k THEN progress[i] ELSE progress[i + 1]
    <3>0. i \in 1..(Len(before) + Len(after)) /\ i \in Nat
      BY <1>3, <2>1, <2>2, <2>4
    <3>1. progress'[i] = IF i <= Len(before) THEN before[i] ELSE after[i - Len(before)]
      <4>1. before \in Seq(E) /\ after \in Seq(E)
        BY <2>1, <2>2
      <4> QED
        BY <2>3, <3>0, <4>1, ConcatProperties
    <3>2. CASE i < k
      <4>1. i \in 1..(k - 1) /\ i <= Len(before)
        BY <1>3, <2>1, <3>0, <3>2
      <4> QED
        BY <2>1, <3>1, <3>2, <4>1
    <3>3. CASE ~(i < k)
      <4>1. i - (k - 1) \in 1..(Len(progress) - k) /\ (i - (k - 1)) + k = i + 1
        BY <1>3, <2>4, <3>3
      <4>2. progress'[i] = after[i - (k - 1)]
        BY <1>3, <2>1, <3>0, <3>1, <3>3
      <4>3. after[i - (k - 1)] = progress[i + 1]
        BY <2>2, <4>1
      <4> QED
        BY <3>3, <4>2, <4>3
    <3> QED
      BY <3>2, <3>3
  <2> QED
    BY <2>4, <2>5
<1>5. ASSUME NEW i \in DOMAIN progress'
      PROVE  \E j \in DOMAIN progress : progress'[i] = progress[j]
  <2>1. DOMAIN progress = 1..Len(progress) /\ i \in 1..Len(progress') /\ i \in Nat
    BY <1>1, <1>4
  <2>2. CASE i < k
    BY <1>3, <1>4, <2>1, <2>2
  <2>3. CASE ~(i < k)
    <3>1. i + 1 \in DOMAIN progress
      BY <1>3, <1>4, <2>1
    <3> QED
      BY <1>4, <2>1, <2>3, <3>1
  <2> QED
    BY <2>2, <2>3
<1>6. UNCHANGED <<chat, logged, answerCache, cuts>>
  BY DEF PruneProgress
<1>7. FlowTypeOK'
  <2>1. Len(progress') <= MaxEntries
    BY <1>1, <1>3, <1>4, FlowAssumption
  <2> QED
    BY <1>4, <1>6, <2>1 DEF FlowInv, FlowTypeOK, E
<1> QED
  BY <1>5, <1>6, <1>7 DEF FlowInv, ChatSettled, Settled, StatusEarned, ToBeCached, Checked, Scoped,
                          ProgressSettled

LEMMA CutKeeps == ASSUME FlowInv, CutChats PROVE FlowInv'
<1>1. \A t \in Chats : /\ chat'[t].status = chat[t].status /\ chat'[t].evidence = chat[t].evidence
                       /\ chat'[t].scope = chat[t].scope
                       /\ chat'[t].stage = IF chat[t].stage \in Running THEN "cut" ELSE chat[t].stage
  BY DEF CutChats, FlowInv, FlowTypeOK
<1>2. UNCHANGED <<logged, answerCache>> /\ progress' = <<>>
  BY DEF CutChats
<1>3. FlowTypeOK'
  <2>1. chat' \in [Chats -> [stage : Running \union {"new", "done", "cut"}, scope : Scopes,
                           evidence : BOOLEAN, status : Outcomes]]
    BY DEF CutChats, FlowInv, FlowTypeOK
  <2>2. cuts' \in 0..MaxCuts
    BY FlowAssumption DEF CutChats, FlowInv, FlowTypeOK
  <2>3. /\ progress' \in Seq([chat : Chats, status : Outcomes \union {"running"}])
        /\ Len(progress') <= MaxEntries
    BY <1>2, FlowAssumption
  <2> QED
    BY <1>2, <2>1, <2>2, <2>3 DEF FlowInv, FlowTypeOK
<1>4. ASSUME NEW t \in Chats PROVE ChatSettled(t)'
  BY <1>1, <1>2 DEF FlowInv, ChatSettled, Settled, StatusEarned, ToBeCached, Checked, Scoped, Running
<1> QED
  BY <1>2, <1>3, <1>4 DEF FlowInv

LEMMA FlowStep == FlowInv /\ [FlowNext]_flowVars => FlowInv'
<1> SUFFICES ASSUME FlowInv, [FlowNext]_flowVars PROVE FlowInv'
  OBVIOUS
<1>1. CASE UNCHANGED flowVars
  BY <1>1 DEF flowVars, FlowInv, FlowTypeOK, ChatSettled, Settled, StatusEarned, ToBeCached, Checked,
              Scoped, ProgressSettled
<1> QED
  BY <1>1, ChatStepKeeps, AskKeeps, PruneKeeps, CutKeeps DEF FlowNext

\* The requests, the log and the progress registry keep their types and bounds.
THEOREM FlowTypeCorrect == FlowSpec => []FlowTypeOK
<1>1. FlowInv => FlowTypeOK
  BY DEF FlowInv
<1> QED
  BY <1>1, InitFlow, FlowStep, PTL DEF FlowSpec

\* The log, the progress and the stored answers tell one story of a chat,
\* whatever is evicted, pruned or cut meanwhile.
THEOREM OneStory == FlowSpec => []OneOutcome
<1>1. FlowInv => OneOutcome
  <2> SUFFICES ASSUME FlowInv PROVE OneOutcome
    OBVIOUS
  <2>1. ASSUME NEW i \in DOMAIN progress, progress[i].status # "running"
        PROVE  LET t == progress[i].chat
               IN  /\ progress[i].status = chat[t].status
                   /\ logged[t] \in {"none", progress[i].status}
                   /\ chat[t].stage \in {"save", "done"}
    <3>1. ProgressSettled(progress[i]) /\ progress[i].chat \in Chats
      BY EntriesTyped DEF FlowInv
    <3> QED
      BY <2>1, <3>1 DEF FlowInv, ProgressSettled, ChatSettled
  <2> QED
    BY <2>1 DEF FlowInv, ChatSettled, StatusEarned, ToBeCached, OneOutcome
<1> QED
  BY <1>1, InitFlow, FlowStep, PTL DEF FlowSpec

-----------------------------------------------------------------------------
(* ChatRecords                                                             *)

Log == [user : Owners, client : Browsers \union {NoUser}, session : Traces \union {NoChat},
        evidence : BOOLEAN, judged : BOOLEAN, rated : BOOLEAN]

\* A chat that has still to write a row has not written it, and a session has
\* one row.
RowsInv ==
  /\ sessions \subseteq [id : Traces, client : Browsers, user : Owners]
  /\ logs \in [Traces -> Log]
  /\ asked \in [Traces -> [stage : {"new", "open", "generating", "over"},
                          who : Requesters \union {Nobody}, session : Traces \union {NoChat}]]
  /\ \A t \in Traces : asked[t].stage = "generating" => asked[t].who \in Requesters
  /\ \A t \in Traces : asked[t].stage = "open" => asked[t].who \in Requesters
  /\ job \in [Jobs -> [stage : {"new", "first", "second", "queue", "judging", "done"},
                       kind : {"none", "delete", "erase", "claim", "judge"},
                       who : Requesters \union {Nobody}, about : Traces \union {NoChat}]]
  /\ \A j \in Jobs : job[j].kind = "judge" => job[j].about \in Traces
  /\ \A t \in Traces : asked[t].stage # "over" => logs[t] = NoLog
  /\ \A x \in sessions : asked[x.id].stage \notin {"new", "open"}
  /\ \A x, y \in sessions : x.id = y.id => x = y

LEMMA InitRows == RecordsInit => RowsInv
BY DEF RecordsInit, RowsInv, Log, NoLog, NotAsked, NewJob, Nobody, Owners, Browsers

\* A job that goes on or ends disturbs the jobs of RowsInv alone.
LEMMA JobMoves ==
  ASSUME RowsInv, NEW j \in Jobs,
         \/ JobGoes(j, "second") \/ JobGoes(j, "queue") \/ JobGoes(j, "judging") \/ JobEnds(j),
         UNCHANGED <<logs, asked>>,
         sessions' \subseteq [id : Traces, client : Browsers, user : Owners],
         \A x \in sessions' : \E y \in sessions : x.id = y.id,
         \A x, y \in sessions' : x.id = y.id => x = y
  PROVE  RowsInv'
<1> DEFINE JobType == [stage : {"new", "first", "second", "queue", "judging", "done"},
                       kind : {"none", "delete", "erase", "claim", "judge"},
                       who : Requesters \union {Nobody}, about : Traces \union {NoChat}]
<1>1. /\ job \in [Jobs -> JobType]
      /\ \A k \in Jobs : job[k].kind = "judge" => job[k].about \in Traces
  BY DEF RowsInv
<1>2. /\ job' \in [Jobs -> JobType]
      /\ \A k \in Jobs : job'[k].kind = "judge" => job'[k].about \in Traces
  <2>1. CASE \E s \in {"second", "queue", "judging"} : JobGoes(j, s)
    BY <1>1, <2>1 DEF JobGoes
  <2>2. CASE JobEnds(j)
    BY <1>1, <2>2 DEF JobEnds, NewJob
  <2> QED
    BY <2>1, <2>2
<1> QED
  BY <1>2 DEF RowsInv

LEMMA NoLogTyped == NoLog \in Log
BY DEF NoLog, Log, Owners

LEMMA MarkedLogTyped ==
  ASSUME NEW log \in Log
  PROVE  [log EXCEPT !.rated = TRUE] \in Log /\ [log EXCEPT !.judged = TRUE] \in Log
<1>1. TRUE \in BOOLEAN
  OBVIOUS
<1> QED
  BY <1>1, Zenon DEF Log

\* A change of logs that brings none back, by a request of an owner's.
LEMMA LogsChange ==
  ASSUME RowsInv, UNCHANGED <<sessions, asked>>, logs' \in [Traces -> Log],
         \A t \in Traces : logs[t] = NoLog => logs'[t] = NoLog,
         job' = job \/ \E j \in Jobs : JobEnds(j)
  PROVE  RowsInv'
BY DEF RowsInv, JobEnds, NewJob, Nobody

\* What each step does to the rows, given that those who write them are theirs.
LEMMA RowsStep == RowsInv /\ [RecordsNext]_recordVars => RowsInv'
<1> SUFFICES ASSUME RowsInv, [RecordsNext]_recordVars PROVE RowsInv'
  OBVIOUS
<1>1. CASE UNCHANGED recordVars
  BY <1>1 DEF recordVars, RowsInv
<1>2. ASSUME NEW w \in Requesters, NEW t \in Traces, UpdateFeedback(t, w) PROVE RowsInv'
  <2>1. [logs[t] EXCEPT !.rated = TRUE] \in Log /\ logs \in [Traces -> Log]
    BY MarkedLogTyped DEF RowsInv
  <2>2. logs' \in [Traces -> Log] /\ \A u \in Traces \ {t} : logs'[u] = logs[u]
    BY <1>2, <2>1 DEF UpdateFeedback
  <2> QED
    BY <1>2, <2>2, LogsChange DEF UpdateFeedback, onlyRows, Logged
<1>3. ASSUME NEW w \in Requesters, NEW t \in Traces, NEW s \in Traces, AskIn(t, w, s) PROVE RowsInv'
  BY <1>3 DEF AskIn, RowsInv
<1>4. ASSUME NEW w \in Requesters, NEW j \in Jobs, NEW t \in Traces \union {NoChat},
             NEW kind \in {"delete", "judge", "claim", "erase"},
             kind = "judge" => t \in Traces, BeginJob(j, kind, w, t)
      PROVE  RowsInv'
  BY <1>4 DEF BeginJob, onlyRows, RowsInv
<1>5. ASSUME NEW t \in Traces, CreateSession(t) PROVE RowsInv'
  <2>1. asked[t].stage = "open" /\ asked[t].who \in Requesters /\ UNCHANGED <<logs, job>>
    BY <1>5 DEF CreateSession, RowsInv
  <2>2. \/ UNCHANGED sessions
        \/ sessions' = sessions \union {[id |-> t, client |-> asked[t].who[1], user |-> asked[t].who[2]]}
    BY <1>5 DEF CreateSession
  <2>3. asked[t].who[1] \in Browsers /\ asked[t].who[2] \in Owners
    BY <2>1 DEF Browsers, Owners
  <2>4. /\ sessions' \subseteq [id : Traces, client : Browsers, user : Owners]
        /\ \A x \in sessions' : x \in sessions \/ x.id = t
        /\ \A x, y \in sessions' : x.id = y.id => x = y
    BY <2>1, <2>2, <2>3 DEF RowsInv
  <2>5. \/ asked' = [asked EXCEPT ![t].stage = "generating"]
        \/ asked' = [asked EXCEPT ![t] = [NotAsked EXCEPT !.stage = "over"]]
    BY <1>5 DEF CreateSession, ChatOver
  <2>6. /\ asked' \in [Traces -> [stage : {"new", "open", "generating", "over"},
                                 who : Requesters \union {Nobody},
                                 session : Traces \union {NoChat}]]
        /\ asked'[t].stage \in {"generating", "over"}
        /\ asked'[t].stage = "generating" => asked'[t].who \in Requesters
        /\ \A u \in Traces \ {t} : asked'[u] = asked[u]
    <3>1. asked \in [Traces -> [stage : {"new", "open", "generating", "over"},
                               who : Requesters \union {Nobody},
                               session : Traces \union {NoChat}]]
      BY DEF RowsInv
    <3>2. CASE asked' = [asked EXCEPT ![t].stage = "generating"]
      BY <2>1, <3>1, <3>2
    <3>3. CASE asked' = [asked EXCEPT ![t] = [NotAsked EXCEPT !.stage = "over"]]
      BY <3>1, <3>3 DEF NotAsked
    <3> QED
      BY <2>5, <3>2, <3>3
  <2>7. logs[t] = NoLog
    BY <2>1 DEF RowsInv
  <2> QED
    BY <2>1, <2>4, <2>6, <2>7 DEF RowsInv
<1>6. ASSUME NEW t \in Traces, WriteLog(t) PROVE RowsInv'
  <2>1. /\ asked[t].stage = "generating" /\ UNCHANGED <<sessions, job>>
        /\ asked' = [asked EXCEPT ![t] = [NotAsked EXCEPT !.stage = "over"]]
    BY <1>6 DEF WriteLog, ChatOver
  <2>2. /\ asked' \in [Traces -> [stage : {"new", "open", "generating", "over"},
                                 who : Requesters \union {Nobody},
                                 session : Traces \union {NoChat}]]
        /\ asked'[t].stage = "over" /\ \A u \in Traces \ {t} : asked'[u] = asked[u]
    BY <2>1 DEF RowsInv, NotAsked
  <2>3. logs' \in [Traces -> Log] /\ \A u \in Traces \ {t} : logs'[u] = logs[u]
    <3>1. asked[t].who[1] \in Browsers /\ asked[t].who[2] \in Owners
          /\ asked[t].session \in Traces \union {NoChat}
      BY <2>1 DEF RowsInv, Browsers, Owners
    <3>2. ASSUME NEW found \in BOOLEAN
          PROVE  [NoLog EXCEPT !.client = asked[t].who[1], !.user = asked[t].who[2],
                               !.session = asked[t].session, !.evidence = found] \in Log
      BY <3>1 DEF NoLog, Log
    <3>3. logs \in [Traces -> Log]
      BY DEF RowsInv
    <3>4. logs' = logs \/ \E log \in Log : logs' = [logs EXCEPT ![t] = log]
      BY <1>6, <3>2 DEF WriteLog
    <3> QED
      BY <3>3, <3>4
  <2> QED
    BY <2>1, <2>2, <2>3 DEF RowsInv
<1>7. ASSUME NEW t \in Traces, ExpireLog(t) PROVE RowsInv'
  BY <1>7 DEF ExpireLog, onlyRows, NoLog, Log, Owners, RowsInv
<1>8. ASSUME NEW x \in sessions, ExpireSession(x) PROVE RowsInv'
  BY <1>8 DEF ExpireSession, onlyRows, RowsInv
<1>9. CASE NextDay
  BY <1>9 DEF NextDay, RowsInv
<1>10. CASE RestartServer
  BY <1>10 DEF RestartServer, NotAsked, NewJob, Nobody, RowsInv
<1>11. ASSUME NEW j \in Jobs, JobStep(j) PROVE RowsInv'
  <2>1. CASE DeleteSession(j) \/ EraseSessions(j)
    BY <2>1 DEF DeleteSession, EraseSessions, JobAt, JobGoes, onlyRows, RowsInv
  <2>2. CASE DeleteMessages(j) \/ EraseMessages(j)
    <3>1. logs' \in [Traces -> Log] /\ \A t \in Traces : logs'[t] \in {NoLog, logs[t]}
      BY <2>2, NoLogTyped DEF DeleteMessages, EraseMessages, RowsInv
    <3> QED
      BY <2>2, <3>1, LogsChange DEF DeleteMessages, EraseMessages, onlyRows
  <2>3. CASE ClaimSessions(j)
    <3>1. JobGoes(j, "second") /\ UNCHANGED <<logs, asked>>
      BY <2>3 DEF ClaimSessions, onlyRows
    <3>2. /\ sessions \subseteq [id : Traces, client : Browsers, user : Owners]
          /\ \A x, y \in sessions : x.id = y.id => x = y
          /\ job[j].who[2] \in Owners
      BY DEF RowsInv, Nobody, Owners
    <3>3. \A x \in sessions' : \E y \in sessions :
             x = y \/ (Unclaimed(y, job[j].who[1]) /\ x = [y EXCEPT !.user = job[j].who[2]])
      BY <2>3 DEF ClaimSessions
    <3>4. ASSUME NEW x \in sessions'
          PROVE  /\ x \in [id : Traces, client : Browsers, user : Owners]
                 /\ \E y \in sessions : x.id = y.id
      BY <3>2, <3>3
    <3>5. \A x, y \in sessions' : x.id = y.id => x = y
      <4>1. \A x \in sessions' : \E y \in sessions :
              /\ x.id = y.id
              /\ x = IF Unclaimed(y, job[j].who[1]) THEN [y EXCEPT !.user = job[j].who[2]] ELSE y
        BY <2>3, <3>2 DEF ClaimSessions
      <4> QED
        BY <3>2, <4>1
    <3> QED
      BY <3>1, <3>4, <3>5, JobMoves
  <2>4. CASE ClaimMessages(j)
    <3>1. job[j].who[2] \in Owners
      BY DEF RowsInv, Nobody, Owners
    <3>2. \A t \in Traces : [logs[t] EXCEPT !.user = job[j].who[2]] \in Log
      BY <3>1 DEF RowsInv, Log
    <3>3. logs' \in [Traces -> Log]
      BY <2>4, <3>2 DEF ClaimMessages, RowsInv
    <3>4. \A t \in Traces : logs[t] = NoLog => logs'[t] = NoLog
      BY <2>4 DEF ClaimMessages, Logged
    <3> QED
      BY <2>4, <3>3, <3>4, LogsChange DEF ClaimMessages, onlyRows
  <2>5. CASE ReadForJudge(j) \/ EnterJudge(j)
    <3>1. JobGoes(j, "queue") \/ JobGoes(j, "judging") \/ JobEnds(j)
      BY <2>5 DEF ReadForJudge, Reserve, EnterJudge
    <3>2. UNCHANGED <<sessions, logs, asked>>
      BY <2>5 DEF ReadForJudge, EnterJudge, onlyRows
    <3> QED
      BY <3>1, <3>2, JobMoves DEF RowsInv
  <2>6. CASE RecordScore(j)
    <3>1. job[j].about \in Traces
      BY <2>6 DEF RecordScore, JobAt, RowsInv
    <3>2. [logs[job[j].about] EXCEPT !.judged = TRUE] \in Log /\ logs \in [Traces -> Log]
      BY <3>1, MarkedLogTyped DEF RowsInv
    <3>3. \/ logs' = logs
          \/ /\ Logged(job[j].about)
             /\ logs' = [logs EXCEPT ![job[j].about] = [logs[job[j].about] EXCEPT !.judged = TRUE]]
      BY <2>6 DEF RecordScore
    <3>4. logs' \in [Traces -> Log] /\ \A t \in Traces : logs[t] = NoLog => logs'[t] = NoLog
      BY <3>1, <3>2, <3>3 DEF Logged
    <3> QED
      BY <2>6, <3>4, LogsChange DEF RecordScore, onlyRows
  <2>7. CASE FailJob(j)
    BY <2>7 DEF FailJob, JobEnds, NewJob, Nobody, onlyRows, RowsInv
  <2> QED
    BY <1>11, <2>1, <2>2, <2>3, <2>4, <2>5, <2>6, <2>7 DEF JobStep
<1> QED
  BY <1>1, <1>2, <1>3, <1>4, <1>5, <1>6, <1>7, <1>8, <1>9, <1>10, <1>11 DEF RecordsNext, Arrive

LEMMA LogsStep == RowsInv /\ [RecordsNext]_recordVars => LogsKept
<1> SUFFICES ASSUME RowsInv, [RecordsNext]_recordVars, NEW t \in Traces
             PROVE  /\ asked[t].stage = "over" /\ ~Logged(t) => logs'[t] = NoLog
                    /\ logs[t].user # NoUser /\ logs'[t] # NoLog => logs'[t].user = logs[t].user
  BY DEF LogsKept
<1>1. CASE logs' = logs
  BY <1>1 DEF Logged
<1>2. ASSUME NEW u \in Traces, WriteLog(u) \/ ExpireLog(u)
      PROVE  /\ asked[t].stage = "over" /\ ~Logged(t) => logs'[t] = NoLog
             /\ logs[t].user # NoUser /\ logs'[t] # NoLog => logs'[t].user = logs[t].user
  <2>1. logs'[t] \in {logs[t], NoLog} \/ (u = t /\ asked[t].stage = "generating")
    BY <1>2 DEF WriteLog, ExpireLog, RowsInv
  <2>2. NoLog.user = NoUser
    BY DEF NoLog
  <2> QED
    BY <2>1, <2>2 DEF Logged, RowsInv
\* Feedback and scores change what is there, and not whose it is.
<1>3. ASSUME NEW u \in Traces, Logged(u),
             logs' = [logs EXCEPT ![u].rated = TRUE] \/ logs' = [logs EXCEPT ![u].judged = TRUE]
      PROVE  /\ asked[t].stage = "over" /\ ~Logged(t) => logs'[t] = NoLog
             /\ logs[t].user # NoUser /\ logs'[t] # NoLog => logs'[t].user = logs[t].user
  <2>1. CASE u = t
    <3>1. logs'[t].user = logs[t].user
      BY <1>3, <2>1 DEF RowsInv, Log
    <3> QED
      BY <1>3, <2>1, <3>1
  <2>2. CASE u # t
    <3>1. logs'[t] = logs[t]
      BY <1>3, <2>2 DEF RowsInv
    <3> QED
      BY <3>1 DEF Logged
  <2> QED
    BY <2>1, <2>2
<1>4. ASSUME NEW j \in Jobs, JobStep(j)
      PROVE  /\ asked[t].stage = "over" /\ ~Logged(t) => logs'[t] = NoLog
             /\ logs[t].user # NoUser /\ logs'[t] # NoLog => logs'[t].user = logs[t].user
  <2>1. CASE DeleteMessages(j) \/ EraseMessages(j)
    BY <2>1 DEF DeleteMessages, EraseMessages, Logged
  <2>2. CASE ClaimMessages(j)
    BY <2>2 DEF ClaimMessages, Unclaimed, Logged
  <2>3. CASE RecordScore(j)
    <3>1. job[j].about \in Traces
      BY <2>3 DEF RecordScore, JobAt, RowsInv
    <3> QED
      BY <1>1, <1>3, <2>3, <3>1 DEF RecordScore
  <2>4. CASE \/ DeleteSession(j) \/ EraseSessions(j) \/ ClaimSessions(j)
             \/ ReadForJudge(j) \/ EnterJudge(j) \/ FailJob(j)
    BY <1>1, <2>4 DEF DeleteSession, EraseSessions, ClaimSessions, ReadForJudge, EnterJudge, FailJob
  <2> QED
    BY <1>4, <2>1, <2>2, <2>3, <2>4 DEF JobStep
<1>5. ASSUME NEW w \in Requesters, Arrive(w)
      PROVE  /\ asked[t].stage = "over" /\ ~Logged(t) => logs'[t] = NoLog
             /\ logs[t].user # NoUser /\ logs'[t] # NoLog => logs'[t].user = logs[t].user
  BY <1>1, <1>3, <1>5 DEF Arrive, UpdateFeedback, AskIn, BeginJob
<1> QED
  BY <1>1, <1>2, <1>4, <1>5 DEF RecordsNext, CreateSession, ExpireSession, NextDay, RestartServer,
                                recordVars

LEMMA SessionsStep == RowsInv /\ [RecordsNext]_recordVars => SessionsKept
<1> SUFFICES ASSUME RowsInv, [RecordsNext]_recordVars, NEW x \in sessions, x.user # NoUser,
                    NEW y \in sessions', y.id = x.id
             PROVE  y.user = x.user
  BY DEF SessionsKept
\* Sessions that stay as they are.
<1>1. CASE sessions' \subseteq sessions
  BY <1>1 DEF RowsInv
\* A new session has an id that no other has.
<1>2. ASSUME NEW t \in Traces, CreateSession(t) PROVE y.user = x.user
  <2>1. asked[t].stage = "open"
    BY <1>2 DEF CreateSession
  <2>2. x.id # t
    BY <2>1 DEF RowsInv
  <2> QED
    BY <1>2, <2>2 DEF CreateSession, RowsInv
\* Only what nobody owns is claimed.
<1>3. ASSUME NEW j \in Jobs, ClaimSessions(j) PROVE y.user = x.user
  <2>1. PICK z \in sessions :
          y = IF Unclaimed(z, job[j].who[1]) THEN [z EXCEPT !.user = job[j].who[2]] ELSE z
    BY <1>3 DEF ClaimSessions
  <2>2. y.id = z.id
    BY <2>1 DEF RowsInv
  <2>3. z = x
    BY <2>2 DEF RowsInv
  <2> QED
    BY <2>1, <2>3 DEF Unclaimed
<1>4. ASSUME NEW j \in Jobs, JobStep(j) PROVE y.user = x.user
  BY <1>1, <1>3, <1>4
  DEF JobStep, DeleteSession, DeleteMessages, EraseSessions, EraseMessages, ClaimMessages,
      ReadForJudge, EnterJudge, RecordScore, FailJob
<1>5. ASSUME NEW w \in Requesters, Arrive(w) PROVE y.user = x.user
  BY <1>1, <1>5 DEF Arrive, UpdateFeedback, AskIn, BeginJob
<1> QED
  BY <1>1, <1>2, <1>4, <1>5
  DEF RecordsNext, WriteLog, ExpireLog, ExpireSession, NextDay, RestartServer, recordVars

\* A deleted interaction stays away whatever was about to mark it, and a row
\* that a user owns is never handed to another.
THEOREM KeptRows == RecordsSpec => RowsKept
<1>1. RowsInv /\ [RecordsNext]_recordVars => [LogsKept /\ SessionsKept]_recordVars
  BY LogsStep, SessionsStep
<1> QED
  BY <1>1, InitRows, RowsStep, PTL DEF RecordsSpec, RowsKept

-----------------------------------------------------------------------------
(* The budget of the judge                                                 *)

PaidOn(d) == {r \in reserved : r.day = d}
PaidBy(c, d) == {r \in reserved : r.day = d /\ r.client = c}

QuotaType == [day : Nat, all : Nat, of : [Browsers -> Nat]]

\* The counters are those of their day, which no reservation is after.
CountersExact ==
  /\ day \in Nat \ {0} /\ quota \in QuotaType /\ quota.day <= day
  /\ IsFiniteSet(reserved)
  /\ \A r \in reserved : r.day \in Nat /\ r.day <= quota.day
  /\ quota.all = Cardinality(PaidOn(quota.day))
  /\ \A c \in Browsers : quota.of[c] = Cardinality(PaidBy(c, quota.day))

\* Every day, and not only that of the counters.
WithinLimits == \A d \in Nat :
  /\ Cardinality(PaidOn(d)) <= GlobalLimit
  /\ \A c \in Browsers : Cardinality(PaidBy(c, d)) <= ClientLimit

\* A job reserves once: whoever has is past the check.
JobsPaid ==
  /\ \A r \in reserved : r.job \in Jobs /\ job[r.job].stage \in {"queue", "judging", "done"}
  /\ \A j \in Jobs : job[j].stage \in {"queue", "judging"} =>
       \E r \in reserved : r.job = j /\ r.client = job[j].who[1]
  /\ \A j, k \in Jobs : job[j].stage = "judging" /\ job[k].stage = "judging" => j = k
  /\ \A j \in Jobs : job[j].kind = "judge" => job[j].who \in Requesters

BudgetInv == CountersExact /\ WithinLimits /\ JobsPaid

LEMMA InitBudget == RecordsInit => BudgetInv
<1> SUFFICES ASSUME RecordsInit PROVE BudgetInv
  OBVIOUS
<1>1. /\ quota = NothingReserved(0) /\ reserved = {} /\ day = 1
      /\ job = [j \in Jobs |-> NewJob]
  BY DEF RecordsInit
<1>2. \A d : PaidOn(d) = {} /\ \A c : PaidBy(c, d) = {}
  BY <1>1 DEF PaidOn, PaidBy
<1>3. Cardinality({}) = 0 /\ IsFiniteSet({})
  BY FS_EmptySet
<1>4. CountersExact
  BY <1>1, <1>2, <1>3 DEF CountersExact, NothingReserved, QuotaType
<1>5. WithinLimits
  BY <1>2, <1>3, RecordsAssumption DEF WithinLimits
<1>6. JobsPaid
  BY <1>1 DEF JobsPaid, NewJob
<1> QED
  BY <1>4, <1>5, <1>6 DEF BudgetInv

LEMMA PaidFinite ==
  ASSUME CountersExact, NEW d, NEW c
  PROVE  IsFiniteSet(PaidOn(d)) /\ IsFiniteSet(PaidBy(c, d))
BY FS_Subset DEF CountersExact, PaidOn, PaidBy

\* What reserve counts with: the reservations of today.
LEMMA CountersOfToday ==
  ASSUME CountersExact
  PROVE  /\ Counters \in QuotaType /\ Counters.day = day
         /\ Counters.all = Cardinality(PaidOn(day))
         /\ \A c \in Browsers : Counters.of[c] = Cardinality(PaidBy(c, day))
<1>1. CASE quota.day = day
  BY <1>1 DEF Counters, CountersExact
<1>2. CASE quota.day # day
  <2>1. PaidOn(day) = {} /\ \A c : PaidBy(c, day) = {}
    <3>1. \A r \in reserved : r.day < day
      BY <1>2 DEF CountersExact, QuotaType
    <3>2. day \in Nat
      BY DEF CountersExact
    <3>3. \A r \in reserved : r.day # day
      BY <3>1, <3>2
    <3> QED
      BY <3>3 DEF PaidOn, PaidBy
  <2>2. Counters = NothingReserved(day) /\ day \in Nat
    BY <1>2 DEF Counters, CountersExact
  <2>3. Cardinality({}) = 0
    BY FS_EmptySet
  <2> QED
    BY <2>1, <2>2, <2>3 DEF NothingReserved, QuotaType
<1> QED
  BY <1>1, <1>2

\* One reservation more, within both limits.
LEMMA ReserveKeeps ==
  ASSUME RowsInv, BudgetInv, NEW j \in Jobs, JobAt(j, "judge", "first"), Reserve(j), UNCHANGED day
  PROVE  BudgetInv'
<1>0. PICK c, now, today, new : /\ c = job[j].who[1] /\ now = Counters /\ today = day
                               /\ new = [job |-> j, client |-> c, day |-> day]
  OBVIOUS
<1>1. job[j].stage = "first" /\ job[j].who \in Requesters /\ c \in Browsers
  BY <1>0 DEF JobAt, BudgetInv, JobsPaid, Browsers
<1>2. /\ now \in QuotaType /\ now.day = day
      /\ now.all = Cardinality(PaidOn(today))
      /\ \A b \in Browsers : now.of[b] = Cardinality(PaidBy(b, today))
  BY <1>0, CountersOfToday DEF BudgetInv
<1>3. day \in Nat \ {0} /\ \A r \in reserved : r.day \in Nat /\ r.day <= day
  BY DEF BudgetInv, CountersExact, QuotaType
<1>4. CASE ~Reservable(c)
  <2>1. quota' = now /\ reserved' = reserved /\ JobEnds(j)
    BY <1>0, <1>4 DEF Reserve
  <2>2. \A d : PaidOn(d)' = PaidOn(d) /\ \A b : PaidBy(b, d)' = PaidBy(b, d)
    BY <2>1 DEF PaidOn, PaidBy
  <2>3. CountersExact'
    BY <1>0, <1>2, <1>3, <2>1, <2>2 DEF BudgetInv, CountersExact
  <2>4. WithinLimits'
    BY <2>2 DEF BudgetInv, WithinLimits
  <2>5. JobsPaid'
    BY <1>1, <2>1 DEF BudgetInv, JobsPaid, JobEnds, NewJob, RowsInv
  <2> QED
    BY <2>3, <2>4, <2>5 DEF BudgetInv
<1>5. CASE Reservable(c)
  <2>1. /\ quota' = [now EXCEPT !.all = @ + 1, !.of[c] = @ + 1]
        /\ reserved' = reserved \union {new} /\ JobGoes(j, "queue")
        /\ now.of[c] < ClientLimit /\ now.all < GlobalLimit
    BY <1>0, <1>5 DEF Reserve, Reservable
  <2>2. new \notin reserved /\ new.day = day /\ new.client = c /\ new.job = j
    BY <1>0, <1>1 DEF BudgetInv, JobsPaid
  <2>3. /\ quota' \in QuotaType /\ quota'.day = day /\ quota'.all = now.all + 1
        /\ \A b \in Browsers : quota'.of[b] = IF b = c THEN now.of[b] + 1 ELSE now.of[b]
    <3>1. now.of \in [Browsers -> Nat] /\ now.all \in Nat /\ now.day \in Nat
      BY <1>2 DEF QuotaType
    <3>2. quota' = [day |-> now.day, all |-> now.all + 1, of |-> [now.of EXCEPT ![c] = @ + 1]]
      BY <1>2, <2>1 DEF QuotaType
    <3>3. now.of[c] + 1 \in Nat
      BY <1>1, <3>1
    <3> QED
      BY <1>1, <1>2, <3>1, <3>2, <3>3 DEF QuotaType
  <2>4. /\ PaidOn(today)' = PaidOn(today) \union {new} /\ new \notin PaidOn(today)
        /\ PaidBy(c, today)' = PaidBy(c, today) \union {new} /\ new \notin PaidBy(c, today)
        /\ \A d : d # today => PaidOn(d)' = PaidOn(d) /\ \A b : PaidBy(b, d)' = PaidBy(b, d)
        /\ \A b : b # c => PaidBy(b, today)' = PaidBy(b, today)
    BY <1>0, <2>1, <2>2 DEF PaidOn, PaidBy
  <2>5. /\ Cardinality(PaidOn(today)') = Cardinality(PaidOn(today)) + 1
        /\ Cardinality(PaidBy(c, today)') = Cardinality(PaidBy(c, today)) + 1
    BY <2>4, PaidFinite, FS_AddElement DEF BudgetInv
  <2>6. CountersExact'
    <3>1. IsFiniteSet(reserved')
      BY <2>1, FS_AddElement DEF BudgetInv, CountersExact
    <3>2. \A r \in reserved' : r.day \in Nat /\ r.day <= day
      BY <1>3, <2>1, <2>2
    <3>3. \A b \in Browsers : quota'.of[b] = Cardinality(PaidBy(b, today)')
      BY <1>2, <2>3, <2>4, <2>5
    <3> QED
      BY <1>0, <1>2, <1>3, <2>3, <2>5, <3>1, <3>2, <3>3 DEF CountersExact
  <2>7. WithinLimits'
    <3>1. ASSUME NEW d \in Nat
          PROVE  /\ Cardinality(PaidOn(d)') <= GlobalLimit
                 /\ \A b \in Browsers : Cardinality(PaidBy(b, d)') <= ClientLimit
      <4>1. CASE d # today
        BY <2>4, <4>1 DEF BudgetInv, WithinLimits
      <4>2. CASE d = today
        <5>1. Cardinality(PaidOn(today)') <= GlobalLimit /\ Cardinality(PaidBy(c, today)') <= ClientLimit
          BY <1>1, <1>2, <2>1, <2>5, RecordsAssumption DEF QuotaType
        <5>2. \A b \in Browsers : b # c => Cardinality(PaidBy(b, today)') <= ClientLimit
          BY <1>0, <1>3, <2>4 DEF BudgetInv, WithinLimits
        <5> QED
          BY <4>2, <5>1, <5>2
      <4> QED
        BY <4>1, <4>2
    <3> QED
      BY <3>1 DEF WithinLimits, PaidOn, PaidBy
  <2>8. JobsPaid'
    <3>1. \A k \in Jobs : /\ job'[k].who = job[k].who /\ job'[k].kind = job[k].kind
                          /\ job'[k].stage = IF k = j THEN "queue" ELSE job[k].stage
      BY <2>1 DEF JobGoes, RowsInv
    <3>2. \A r \in reserved' : r.job \in Jobs /\ job'[r.job].stage \in {"queue", "judging", "done"}
      BY <2>1, <2>2, <3>1 DEF BudgetInv, JobsPaid
    <3>3. ASSUME NEW k \in Jobs, job'[k].stage \in {"queue", "judging"}
          PROVE  \E r \in reserved' : r.job = k /\ r.client = job'[k].who[1]
      BY <1>0, <2>1, <2>2, <3>1, <3>3 DEF BudgetInv, JobsPaid
    <3> QED
      BY <3>1, <3>2, <3>3 DEF BudgetInv, JobsPaid
  <2> QED
    BY <2>6, <2>7, <2>8 DEF BudgetInv
<1> QED
  BY <1>4, <1>5

\* Other steps leave the counters, and move no job to the queue.
LEMMA JobsKeep ==
  ASSUME BudgetInv, UNCHANGED <<quota, reserved, day>>, JobsPaid'
  PROVE  BudgetInv'
BY DEF BudgetInv, CountersExact, WithinLimits, PaidOn, PaidBy

LEMMA BudgetStep == RowsInv /\ BudgetInv /\ [RecordsNext]_recordVars => BudgetInv'
<1> SUFFICES ASSUME RowsInv, BudgetInv, [RecordsNext]_recordVars PROVE BudgetInv'
  OBVIOUS
<1>1. ASSUME UNCHANGED <<quota, reserved, day, job>> PROVE BudgetInv'
  BY <1>1, JobsKeep DEF BudgetInv, JobsPaid
<1>2. ASSUME NEW w \in Requesters, NEW j \in Jobs, NEW t \in Traces \union {NoChat},
             NEW kind \in {"delete", "judge", "claim", "erase"}, BeginJob(j, kind, w, t)
      PROVE  BudgetInv'
  <2>1. JobsPaid'
    BY <1>2 DEF BeginJob, onlyRows, BudgetInv, JobsPaid, RowsInv
  <2> QED
    BY <1>2, <2>1, JobsKeep DEF BeginJob, onlyRows
<1>3. CASE NextDay
  <2>1. day' \in Nat \ {0} /\ quota.day <= day' /\ UNCHANGED <<quota, reserved, job>>
    BY <1>3 DEF NextDay, BudgetInv, CountersExact, QuotaType
  <2> QED
    BY <2>1 DEF BudgetInv, CountersExact, WithinLimits, JobsPaid, PaidOn, PaidBy
<1>4. CASE RestartServer
  <2>1. /\ quota' = NothingReserved(0) /\ reserved' = {} /\ day' = day /\ day \in Nat \ {0}
        /\ \A j \in Jobs : job'[j].kind = "none" /\ job'[j].stage \in {"new", "done"}
    BY <1>4 DEF RestartServer, NewJob, BudgetInv, CountersExact
  <2>2. \A d : PaidOn(d)' = {} /\ \A c : PaidBy(c, d)' = {}
    BY <2>1 DEF PaidOn, PaidBy
  <2>3. Cardinality({}) = 0 /\ IsFiniteSet({})
    BY FS_EmptySet
  <2>4. CountersExact'
    BY <2>1, <2>2, <2>3 DEF CountersExact, NothingReserved, QuotaType
  <2>5. WithinLimits'
    BY <2>2, <2>3, RecordsAssumption DEF WithinLimits
  <2>6. JobsPaid'
    BY <2>1 DEF JobsPaid
  <2> QED
    BY <2>4, <2>5, <2>6 DEF BudgetInv
<1>5. ASSUME NEW j \in Jobs, JobStep(j) PROVE BudgetInv'
  <2>1. CASE \/ DeleteSession(j) \/ DeleteMessages(j) \/ EraseSessions(j) \/ EraseMessages(j)
             \/ ClaimSessions(j) \/ ClaimMessages(j) \/ RecordScore(j) \/ FailJob(j)
    <3>1. /\ UNCHANGED <<quota, reserved, day>>
          /\ JobEnds(j) \/ (job[j].stage = "first" /\ JobGoes(j, "second"))
      BY <2>1 DEF DeleteSession, DeleteMessages, EraseSessions, EraseMessages, ClaimSessions,
                  ClaimMessages, RecordScore, FailJob, JobAt, onlyRows
    <3>2. \A k \in Jobs : k # j => job'[k] = job[k]
      BY <3>1 DEF JobEnds, JobGoes, RowsInv
    <3>3. \/ job'[j].stage = "done" /\ job'[j].kind = "none"
          \/ /\ job[j].stage = "first" /\ job'[j].stage = "second"
             /\ job'[j].who = job[j].who /\ job'[j].kind = job[j].kind
      BY <3>1 DEF JobEnds, JobGoes, RowsInv, NewJob
    <3>4. JobsPaid'
      BY <3>1, <3>2, <3>3 DEF BudgetInv, JobsPaid
    <3> QED
      BY <3>1, <3>4, JobsKeep
  <2>2. CASE ReadForJudge(j)
    <3>1. JobAt(j, "judge", "first") /\ UNCHANGED day
          /\ (Reserve(j) \/ (UNCHANGED <<quota, reserved>> /\ JobEnds(j)))
      BY <2>2 DEF ReadForJudge
    <3>2. CASE UNCHANGED <<quota, reserved>> /\ JobEnds(j)
      <4>1. JobsPaid'
        BY <3>2 DEF JobEnds, NewJob, BudgetInv, JobsPaid, RowsInv
      <4> QED
        BY <3>1, <3>2, <4>1, JobsKeep
    <3> QED
      BY <3>1, <3>2, ReserveKeeps
  <2>3. CASE EnterJudge(j)
    <3>1. /\ job[j].stage = "queue" /\ \A k \in Jobs : job[k].stage # "judging"
          /\ UNCHANGED <<quota, reserved, day>>
          /\ \A k \in Jobs : /\ job'[k].who = job[k].who /\ job'[k].kind = job[k].kind
                             /\ job'[k].stage = IF k = j THEN "judging" ELSE job[k].stage
      BY <2>3 DEF EnterJudge, JobAt, JobGoes, onlyRows, RowsInv
    <3>2. JobsPaid'
      BY <3>1 DEF BudgetInv, JobsPaid
    <3> QED
      BY <3>1, <3>2, JobsKeep
  <2> QED
    BY <1>5, <2>1, <2>2, <2>3 DEF JobStep
<1> QED
  BY <1>1, <1>2, <1>3, <1>4, <1>5
  DEF RecordsNext, Arrive, UpdateFeedback, AskIn, CreateSession, WriteLog, ExpireLog, ExpireSession,
      onlyRows, recordVars

(* The judge of one request at a time, on a reservation of its own, and no *)
(* more reservations in a day than each client and the system may have,    *)
(* for every limit and any number of requests.                             *)
THEOREM JudgeWithinBudget == RecordsSpec => []JudgeBudget
<1>1. BudgetInv => JudgeBudget
  <2> SUFFICES ASSUME BudgetInv PROVE JudgeBudget
    OBVIOUS
  <2>1. \A d \in 1..MaxDays : d \in Nat
    BY RecordsAssumption
  <2> QED
    BY <2>1 DEF BudgetInv, WithinLimits, JobsPaid, JudgeBudget, PaidOn, PaidBy
<1> QED
  BY <1>1, InitRows, RowsStep, InitBudget, BudgetStep, PTL DEF RecordsSpec

-----------------------------------------------------------------------------
(* The failures of a search                                                *)

\* A lane that failed, or found nothing, shows nothing; one that reports itself whole has
\* lost no source but, in the full corpus, one that its status may leave out.
StructuralSound(lane) ==
  /\ lane.at # "done" => lane.evidence = << >>
  /\ lane.at = "done" =>
       /\ lane.status \in {"retrieval_error", "reranker_error", "no_candidate"}
            => lane.evidence = << >>
       /\ lane.status \in {"ok", "no_candidate"} => lane.errors = {}
       /\ lane.status \in {"retrieval_error", "reranker_error", "partial_technical_error",
                           "ok", "no_candidate"}

FullCorpusSound(lane) ==
  /\ lane.at # "done" => lane.evidence = << >> /\ lane.errors \subseteq {"hybrid", "lexical"}
  /\ lane.at = "done" =>
       /\ lane.status \in {"retrieval_error", "reranker_error", "no_candidate"}
            => lane.evidence = << >>
       /\ lane.status \in {"ok", "no_candidate"} => lane.errors \subseteq {"hybrid", "lexical"}
       /\ lane.status = "ok" => "hybrid" \notin lane.errors
       /\ lane.status \in Technical \union {"ok", "no_candidate"}

VertexSound(lane) ==
  lane.at = "done" =>
    /\ lane.status \in {"retrieval_error", "no_candidate"} => lane.evidence = << >>
    /\ lane.status = "ok" => lane.errors = {}
    /\ lane.status \in {"retrieval_error", "partial_retrieval_error", "ok", "no_candidate"}

SearchInv ==
  /\ DOMAIN lanes = LaneNames
  /\ StructuralSound(lanes["structural"])
  /\ FullCorpusSound(lanes["full_corpus"])
  /\ VertexSound(lanes["vertex"])
  /\ stage \in {"rewrite", "retrieve"} => outcome = Fresh
  /\ FailuresShow

LEMMA FreshIs == /\ Fresh.at = "sources" /\ Fresh.evidence = << >> /\ Fresh.errors = {}
                 /\ Fresh.status = "none"
BY DEF Fresh

LEMMA FreshSound == StructuralSound(Fresh) /\ FullCorpusSound(Fresh) /\ VertexSound(Fresh)
BY DEF Fresh, StructuralSound, FullCorpusSound, VertexSound

LEMMA SearchInit == RetrievalInit => SearchInv
BY FreshSound, FreshIs DEF RetrievalInit, SearchInv, FailuresShow, LaneNames

\* A step of one lane, which leaves the outcome alone.
LEMMA LaneStep ==
  ASSUME SearchInv, NEW l \in LaneNames, NEW lane, lanes' = [lanes EXCEPT ![l] = lane],
         UNCHANGED common,
         l = "structural" => StructuralSound(lane),
         l = "full_corpus" => FullCorpusSound(lane),
         l = "vertex" => VertexSound(lane)
  PROVE  SearchInv'
BY DEF SearchInv, LaneNames, common, FailuresShow

LEMMA EndedLane ==
  ASSUME NEW l, NEW status, NEW evidence, NEW errors, Ends(l, status, evidence, errors)
  PROVE  \E lane : /\ lanes' = [lanes EXCEPT ![l] = lane] /\ lane.at = "done"
                   /\ lane.status = status /\ lane.evidence = evidence /\ lane.errors = errors
<1> DEFINE lane == [Fresh EXCEPT !.at = "done", !.status = status,
                                  !.evidence = evidence, !.errors = errors]
<1>1. /\ lane.at = "done" /\ lane.status = status
      /\ lane.evidence = evidence /\ lane.errors = errors
  BY DEF Fresh
<1>2. lanes' = [lanes EXCEPT ![l] = lane]
  BY DEF Ends
<1> HIDE DEF lane
<1> QED
  BY <1>1, <1>2

LEMMA QueuedLane ==
  ASSUME NEW l, NEW input, NEW errors, ToRerank(l, input, errors)
  PROVE  \E lane : /\ lanes' = [lanes EXCEPT ![l] = lane] /\ lane.at = "rerank"
                   /\ lane.evidence = << >> /\ lane.errors = errors
<1> DEFINE lane == [Fresh EXCEPT !.at = "rerank", !.input = input, !.errors = errors]
<1>1. lane.at = "rerank" /\ lane.evidence = << >> /\ lane.errors = errors
  BY DEF Fresh
<1>2. lanes' = [lanes EXCEPT ![l] = lane]
  BY DEF ToRerank
<1> HIDE DEF lane
<1> QED
  BY <1>1, <1>2

LEMMA StructuralEnds ==
  ASSUME SearchInv, UNCHANGED common, NEW status, NEW evidence, NEW errors,
         Ends("structural", status, evidence, errors),
         status \in {"retrieval_error", "reranker_error", "partial_technical_error",
                     "ok", "no_candidate"},
         status \in {"retrieval_error", "reranker_error", "no_candidate"} => evidence = << >>,
         status \in {"ok", "no_candidate"} => errors = {}
  PROVE  SearchInv'
<1>1. PICK lane : /\ lanes' = [lanes EXCEPT !["structural"] = lane] /\ lane.at = "done"
                  /\ lane.status = status /\ lane.evidence = evidence /\ lane.errors = errors
  BY EndedLane
<1>2. StructuralSound(lane)
  BY <1>1 DEF StructuralSound
<1> QED
  BY <1>1, <1>2, LaneStep DEF LaneNames

LEMMA FullCorpusEnds ==
  ASSUME SearchInv, UNCHANGED common, NEW status, NEW evidence, NEW errors,
         Ends("full_corpus", status, evidence, errors),
         status \in {"retrieval_error", "reranker_error", "partial_retrieval_error",
                     "ok", "no_candidate"},
         status \in {"retrieval_error", "reranker_error", "no_candidate"} => evidence = << >>,
         status \in {"ok", "no_candidate"} => errors \subseteq {"hybrid", "lexical"},
         status = "ok" => "hybrid" \notin errors
  PROVE  SearchInv'
<1>1. PICK lane : /\ lanes' = [lanes EXCEPT !["full_corpus"] = lane] /\ lane.at = "done"
                  /\ lane.status = status /\ lane.evidence = evidence /\ lane.errors = errors
  BY EndedLane
<1>2. FullCorpusSound(lane)
  BY <1>1 DEF FullCorpusSound, Technical
<1> QED
  BY <1>1, <1>2, LaneStep DEF LaneNames

LEMMA VertexEnds ==
  ASSUME SearchInv, UNCHANGED common, NEW status, NEW evidence, NEW errors,
         Ends("vertex", status, evidence, errors),
         status \in {"retrieval_error", "partial_retrieval_error", "ok", "no_candidate"},
         status \in {"retrieval_error", "no_candidate"} => evidence = << >>,
         status = "ok" => errors = {}
  PROVE  SearchInv'
<1>1. PICK lane : /\ lanes' = [lanes EXCEPT !["vertex"] = lane] /\ lane.at = "done"
                  /\ lane.status = status /\ lane.evidence = evidence /\ lane.errors = errors
  BY EndedLane
<1>2. VertexSound(lane)
  BY <1>1 DEF VertexSound
<1> QED
  BY <1>1, <1>2, LaneStep DEF LaneNames

LEMMA LaneQueued ==
  ASSUME SearchInv, UNCHANGED common, NEW l \in {"structural", "full_corpus"},
         NEW input, NEW errors, ToRerank(l, input, errors),
         l = "full_corpus" => errors \subseteq {"hybrid", "lexical"}
  PROVE  SearchInv'
<1>1. PICK lane : /\ lanes' = [lanes EXCEPT ![l] = lane] /\ lane.at = "rerank"
                  /\ lane.evidence = << >> /\ lane.errors = errors
  BY QueuedLane
<1>2. /\ l = "structural" => StructuralSound(lane)
      /\ l = "full_corpus" => FullCorpusSound(lane)
  BY <1>1 DEF StructuralSound, FullCorpusSound
<1> QED
  BY <1>1, <1>2, LaneStep DEF LaneNames

LEMMA StructuralSteps ==
  ASSUME SearchInv, QueryStructural \/ RerankStructural PROVE SearchInv'
<1>1. UNCHANGED common
  BY DEF QueryStructural, RerankStructural
<1>2. CASE QueryStructural
  <2>1. PICK read \in [{"dense", "bm25", "exact"} -> Reads(ChunkLists)] :
          LET errors == {x \in DOMAIN read : ~read[x].ok}
              fused == Fused(read["dense"].hits, read["bm25"].hits, read["exact"].hits)
              input == StructuralInput(IF config.expand THEN Expanded(fused) ELSE fused)
          IN  \/ Ends("structural", "retrieval_error", << >>, errors)
              \/ \E lost \in {"fusion"} \union IF config.expand THEN {"neighbors"} ELSE {} :
                   Ends("structural", "retrieval_error", << >>, errors \union {lost})
              \/ ToRerank("structural", input, errors)
              \/ Ends("structural", IF errors = {} THEN "no_candidate" ELSE "partial_technical_error",
                      << >>, errors)
    BY <1>2 DEF QueryStructural
  <2> DEFINE errors == {x \in DOMAIN read : ~read[x].ok}
             fused == Fused(read["dense"].hits, read["bm25"].hits, read["exact"].hits)
             input == StructuralInput(IF config.expand THEN Expanded(fused) ELSE fused)
  <2>2. CASE Ends("structural", "retrieval_error", << >>, errors)
    <3> HIDE DEF errors
    <3> QED
      BY <1>1, <2>2, StructuralEnds
  <2>3. ASSUME NEW lost, Ends("structural", "retrieval_error", << >>, errors \union {lost})
        PROVE  SearchInv'
    <3> HIDE DEF errors
    <3> QED
      BY <1>1, <2>3, StructuralEnds
  <2>4. CASE ToRerank("structural", input, errors)
    <3> HIDE DEF errors, input
    <3> QED
      BY <1>1, <2>4, LaneQueued
  <2>5. CASE Ends("structural", IF errors = {} THEN "no_candidate" ELSE "partial_technical_error",
                  << >>, errors)
    <3> HIDE DEF errors
    <3> QED
      BY <1>1, <2>5, StructuralEnds
  <2> QED
    BY <2>1, <2>2, <2>3, <2>4, <2>5
<1>3. CASE RerankStructural
  <2>1. CASE Ends("structural", "reranker_error", << >>,
                  lanes["structural"].errors \union {"reranker"})
    BY <1>1, <2>1, StructuralEnds
  <2>2. ASSUME NEW evidence, NEW errors,
               Ends("structural", StructuralStatus(evidence, errors), evidence, errors)
        PROVE  SearchInv'
    <3>1. /\ StructuralStatus(evidence, errors) \in {"partial_technical_error", "ok", "no_candidate"}
          /\ StructuralStatus(evidence, errors) = "no_candidate" => evidence = << >>
          /\ StructuralStatus(evidence, errors) \in {"ok", "no_candidate"} => errors = {}
      BY DEF StructuralStatus
    <3> QED
      BY <1>1, <2>2, <3>1, StructuralEnds
  <2> QED
    BY <1>3, <2>1, <2>2 DEF RerankStructural
<1> QED
  BY <1>2, <1>3

LEMMA FullCorpusSteps ==
  ASSUME SearchInv, QueryFullCorpus \/ RerankFullCorpus PROVE SearchInv'
<1>1. UNCHANGED common
  BY DEF QueryFullCorpus, RerankFullCorpus
<1>2. CASE QueryFullCorpus
  <2>1. PICK errors, input :
          /\ errors \subseteq {"hybrid", "lexical"}
          /\ \/ Ends("full_corpus", "retrieval_error", << >>, errors \union {"resolve"})
             \/ Ends("full_corpus", "retrieval_error", << >>, errors)
             \/ Ends("full_corpus", "no_candidate", << >>, errors)
             \/ ToRerank("full_corpus", input, errors)
    BY <1>2 DEF QueryFullCorpus
  <2> QED
    BY <1>1, <2>1, FullCorpusEnds, LaneQueued
<1>3. CASE RerankFullCorpus
  <2> DEFINE errors == lanes["full_corpus"].errors
  <2>1. errors \subseteq {"hybrid", "lexical"}
    BY <1>3 DEF RerankFullCorpus, Doing, SearchInv, FullCorpusSound
  <2>2. CASE Ends("full_corpus", "reranker_error", << >>, errors \union {"reranker"})
    BY <1>1, <2>2, FullCorpusEnds
  <2>3. ASSUME NEW evidence,
               Ends("full_corpus", FullCorpusStatus(evidence, errors), evidence, errors)
        PROVE  SearchInv'
    <3> HIDE DEF errors
    <3>1. /\ FullCorpusStatus(evidence, errors) \in {"partial_retrieval_error", "ok", "no_candidate"}
          /\ FullCorpusStatus(evidence, errors) = "no_candidate" => evidence = << >>
          /\ FullCorpusStatus(evidence, errors) = "ok" => "hybrid" \notin errors
      BY DEF FullCorpusStatus
    <3> QED
      BY <1>1, <2>1, <2>3, <3>1, FullCorpusEnds
  <2> QED
    BY <1>3, <2>2, <2>3 DEF RerankFullCorpus
<1> QED
  BY <1>2, <1>3

LEMMA VertexStep == ASSUME SearchInv, QueryVertex PROVE SearchInv'
<1>1. UNCHANGED common
  BY DEF QueryVertex
<1>2. \E evidence :
        \/ Ends("vertex", "retrieval_error", << >>, {"vertex"})
        \/ Ends("vertex", IF evidence = << >> THEN "no_candidate" ELSE "ok", evidence, {})
        \/ Ends("vertex", "partial_retrieval_error", evidence, {"expansion"})
        \/ Ends("vertex", "ok", evidence, {})
  <2>1. PICK read \in Reads(ChunkLists) :
          LET top == SubSeq(read.hits, 1, Min({FinalLimit, Len(read.hits)}))
          IN  \/ Ends("vertex", "retrieval_error", << >>, {"vertex"})
              \/ Ends("vertex", IF top = << >> THEN "no_candidate" ELSE "ok", top, {})
              \/ Ends("vertex", "partial_retrieval_error", top, {"expansion"})
              \/ \E c \in Siblings(read.hits, top) : Ends("vertex", "ok", WithSibling(top, c), {})
    BY DEF QueryVertex
  <2> DEFINE top == SubSeq(read.hits, 1, Min({FinalLimit, Len(read.hits)}))
  <2> HIDE DEF top
  <2> QED
    BY <2>1 DEF top
<1> QED
  BY <1>1, <1>2, VertexEnds

LEMMA Concluded ==
  ASSUME SearchInv, NEW status, NEW evidence, NEW errors, Concludes(status, evidence, errors),
         status \in {"retrieval_error", "reranker_error"} => evidence = << >>,
         evidence # << >> /\ status # "partial_retrieval_error" =>
           /\ status = "ok"
           /\ errors \subseteq {"lexical"}
                \union IF config.backend = "parallel" THEN {"hybrid"} ELSE {}
  PROVE  SearchInv'
<1>1. /\ outcome'.evidence = evidence /\ outcome'.status = status /\ outcome'.errors = errors
      /\ lanes' = [l \in LaneNames |-> Fresh] /\ config' = config
      /\ stage' = IF status \in {"retrieval_error", "reranker_error"} THEN "raised"
                  ELSE IF evidence = << >> THEN "refused" ELSE "generate"
  BY DEF Concludes, Fresh
<1>2. FailuresShow'
  BY <1>1 DEF FailuresShow
<1> QED
  BY <1>1, <1>2, FreshSound DEF SearchInv, LaneNames

LEMMA MergeStep == ASSUME SearchInv, MergeLanes PROVE SearchInv'
<1> DEFINE s == lanes["structural"]
           f == lanes["full_corpus"]
<1>1. /\ config.backend = "parallel" /\ s.at = "done" /\ f.at = "done"
  BY DEF MergeLanes, AllDone, Active
<1>2. StructuralSound(s) /\ FullCorpusSound(f)
  BY DEF SearchInv
<1> DEFINE pool == Alternate(s.evidence, f.evidence)
           lost == s.errors \union f.errors
<1>3. \E evidence : \/ Concludes(MergedStatus(evidence, FailedLanes, FALSE), evidence, lost)
                    \/ Concludes(MergedStatus(evidence, FailedLanes, TRUE), evidence, lost)
                    \/ Concludes(MergedStatus(evidence, FailedLanes \union {"final"}, FALSE),
                                 evidence, lost \union {"final"})
  <2>1. \/ Concludes(MergedStatus(Final(pool), FailedLanes, FALSE), Final(pool), lost)
        \/ \E r \in Rankings(pool, Len(pool)) :
              Concludes(MergedStatus(Final(r), FailedLanes, TRUE), Final(r), lost)
        \/ Concludes(MergedStatus(Final(pool), FailedLanes \union {"final"}, FALSE),
                     Final(pool), lost \union {"final"})
    BY DEF MergeLanes
  <2> HIDE DEF pool, lost
  <2> QED
    BY <2>1
<1>4. FailedLanes = {} => s.errors \union f.errors \subseteq {"lexical", "hybrid"}
  <2>1. SUFFICES ASSUME FailedLanes = {} PROVE s.errors \union f.errors \subseteq {"lexical", "hybrid"}
    OBVIOUS
  <2>2. Reported("structural") \notin Technical /\ Reported("full_corpus") \notin Technical
    BY <2>1 DEF FailedLanes
  <2>3. s.status \in {"ok", "no_candidate"}
    BY <1>1, <1>2, <2>2 DEF Reported, StructuralSound, Technical
  <2>4. f.status \in {"ok", "no_candidate"}
    BY <1>1, <1>2, <2>2 DEF Reported, FullCorpusSound, Technical
  <2> QED
    BY <1>1, <1>2, <2>3, <2>4 DEF StructuralSound, FullCorpusSound
<1>5. ASSUME NEW evidence, NEW failed, NEW reranked, NEW errors,
             Concludes(MergedStatus(evidence, failed, reranked), evidence, errors),
             failed = {} => FailedLanes = {} /\ errors = lost
      PROVE  SearchInv'
  <2> DEFINE status == MergedStatus(evidence, failed, reranked)
  <2>1. status \in {"retrieval_error", "reranker_error"} => evidence = << >>
    BY DEF MergedStatus
  <2>2. evidence # << >> /\ status # "partial_retrieval_error" => status = "ok" /\ failed = {}
    BY DEF MergedStatus
  <2>3. evidence # << >> /\ status # "partial_retrieval_error" => errors \subseteq {"lexical", "hybrid"}
    BY <1>4, <1>5, <2>2
  <2>4. Concludes(status, evidence, errors)
    BY <1>5
  <2> HIDE DEF status
  <2> QED
    BY <1>1, <2>1, <2>2, <2>3, <2>4, Concluded
<1> HIDE DEF lost
<1> QED
  BY <1>3, <1>5

LEMMA TakeStep == ASSUME SearchInv, TakeLane PROVE SearchInv'
<1>1. PICK l \in Active : Concludes(lanes[l].status, lanes[l].evidence, lanes[l].errors)
  BY DEF TakeLane
<1>2. lanes[l].at = "done" /\ l \in {"vertex", "full_corpus"} /\ config.backend # "parallel"
  BY DEF TakeLane, AllDone, Active
<1>3. CASE l = "vertex"
  <2>1. VertexSound(lanes[l])
    BY <1>3 DEF SearchInv
  <2> QED
    BY <1>1, <1>2, <2>1, Concluded DEF VertexSound
<1>4. CASE l = "full_corpus"
  <2>1. FullCorpusSound(lanes[l])
    BY <1>4 DEF SearchInv
  <2> QED
    BY <1>1, <1>2, <2>1, Concluded DEF FullCorpusSound, Technical
<1> QED
  BY <1>2, <1>3, <1>4

LEMMA SearchStep == SearchInv /\ [RetrievalNext]_retrievalVars => SearchInv'
<1> SUFFICES ASSUME SearchInv, [RetrievalNext]_retrievalVars PROVE SearchInv'
  OBVIOUS
<1>1. CASE Rewrite
  BY <1>1, FreshIs DEF Rewrite, SearchInv, FailuresShow
<1>2. CASE QueryStructural \/ RerankStructural
  BY <1>2, StructuralSteps
<1>3. CASE QueryFullCorpus \/ RerankFullCorpus
  BY <1>3, FullCorpusSteps
<1>4. CASE QueryVertex
  BY <1>4, VertexStep
<1>5. CASE MergeLanes
  BY <1>5, MergeStep
<1>6. CASE TakeLane
  BY <1>6, TakeStep
<1>7. CASE Generate
  BY <1>7 DEF Generate, SearchInv, FailuresShow
<1>8. CASE NextQuestion
  BY <1>8, FreshIs DEF NextQuestion, SearchInv, FailuresShow
<1>9. ASSUME NEW p \in Configured, Cooled(p) PROVE SearchInv'
  BY <1>9 DEF Cooled, SearchInv, FailuresShow
<1>10. CASE UNCHANGED retrievalVars
  BY <1>10 DEF retrievalVars, SearchInv, FailuresShow
<1> QED
  BY <1>1, <1>2, <1>3, <1>4, <1>5, <1>6, <1>7, <1>8, <1>9, <1>10 DEF RetrievalNext

(* Evidence reported as complete comes from a search in which nothing      *)
(* failed but the optional words index, or the hybrid index beside another *)
(* lane; a search that failed answers nothing: for any indexes, rerankers, *)
(* limits and providers (rag_pipeline, retrieve_detailed).                 *)
THEOREM FailuresTold == RetrievalSpec => []FailuresShow
<1>1. SearchInv => FailuresShow
  BY DEF SearchInv
<1> QED
  BY <1>1, SearchInit, SearchStep, PTL DEF RetrievalSpec

-----------------------------------------------------------------------------
(* Lists made position by position                                         *)

\* What 0 has and every successor inherits, every number has.
LEMMA Induction ==
  ASSUME NEW S, 0 \in S, \A n \in Nat : n \in S => n + 1 \in S
  PROVE  Nat \subseteq S
<1> SUFFICES ASSUME Nat \ S # {} PROVE FALSE
  OBVIOUS
<1>1. PICK x \in Nat \ S : \A y \in Nat \ S : ~(<<y, x>> \in OpToRel(<, Nat))
  <2> DEFINE T == Nat \ S
             R == OpToRel(<, Nat)
  <2>1. IsWellFoundedOn(R, Nat) /\ T \subseteq Nat /\ T # {}
    BY NatLessThanWellFounded
  <2> HIDE DEF T, R
  <2>2. \E z \in T : \A y \in T : ~(<<y, z>> \in R)
    BY <2>1, WFMin
  <2> QED
    BY <2>2 DEF T, R
<1>2. x # 0 /\ x - 1 \in Nat /\ x - 1 < x
  OBVIOUS
<1>3. x - 1 \in S
  <2>1. <<x - 1, x>> \in OpToRel(<, Nat)
    BY <1>2 DEF OpToRel
  <2> QED
    BY <1>1, <1>2, <2>1
<1> QED
  BY <1>2, <1>3

\* What a recursive function over the positions of a list makes of the value before.
Steps(N, V) == [(1..N) \X V -> V]
Unrolls(f, N, b, step) ==
  \A i \in 0..N : f[i] = IF i = 0 THEN b ELSE step[<<i, f[i - 1]>>]

LEMMA Unrolled ==
  ASSUME NEW N \in Nat, NEW V, NEW b \in V, NEW step \in Steps(N, V)
  PROVE  \E f \in [0..N -> V] : Unrolls(f, N, b, step)
<1> DEFINE Built(n) == \E f \in [0..n -> V] : Unrolls(f, n, b, step)
           S == {n \in Nat : n <= N => Built(n)}
<1>1. 0 \in S
  <2> DEFINE f == [i \in 0..0 |-> b]
  <2>1. f \in [0..0 -> V] /\ f[0] = b /\ \A i \in 0..0 : i = 0
    OBVIOUS
  <2> HIDE DEF f
  <2>2. Unrolls(f, 0, b, step)
    BY <2>1 DEF Unrolls
  <2>3. Built(0)
    BY <2>1, <2>2
  <2> QED
    BY <2>3
<1>2. ASSUME NEW n \in Nat, n \in S PROVE n + 1 \in S
  <2> SUFFICES ASSUME n + 1 <= N PROVE Built(n + 1)
    OBVIOUS
  <2>1. PICK f \in [0..n -> V] : Unrolls(f, n, b, step)
    BY <1>2
  <2> DEFINE g == [i \in 0..n + 1 |-> IF i = n + 1 THEN step[<<n + 1, f[n]>>] ELSE f[i]]
  <2>2. step[<<n + 1, f[n]>>] \in V
    BY DEF Steps
  <2>3. g \in [0..n + 1 -> V]
    BY <2>1, <2>2
  <2>4. ASSUME NEW i \in 0..n + 1
        PROVE  g[i] = IF i = 0 THEN b ELSE step[<<i, g[i - 1]>>]
    <3>1. CASE i = n + 1
      BY <3>1
    <3>2. CASE i = 0
      <4>1. 0 \in 0..n /\ 0 # n + 1 /\ 0 \in 0..n + 1
        OBVIOUS
      <4>2. f[0] = b
        BY <2>1, <4>1 DEF Unrolls
      <4> QED
        BY <3>2, <4>1, <4>2
    <3>3. CASE i # n + 1 /\ i # 0
      <4>1. i \in 0..n /\ i - 1 \in 0..n
        BY <3>3
      <4>2. g[i] = f[i] /\ g[i - 1] = f[i - 1]
        BY <4>1
      <4>3. f[i] = step[<<i, f[i - 1]>>]
        BY <2>1, <3>3, <4>1 DEF Unrolls
      <4> QED
        BY <3>3, <4>2, <4>3
    <3> QED
      BY <3>1, <3>2, <3>3
  <2> QED
    BY <2>3, <2>4 DEF Unrolls
<1>3. N \in S
  BY <1>1, <1>2, Induction
<1> QED
  BY <1>3

-----------------------------------------------------------------------------
(* The evidence of a search                                                *)

\* A list without repetition.
IsList(s) == s \in Seq(Range(s)) /\ IsInjective(s)

LEMMA ListAppend ==
  ASSUME NEW l, IsList(l), NEW c, c \notin Range(l)
  PROVE  /\ IsList(Append(l, c)) /\ Range(Append(l, c)) = Range(l) \union {c}
         /\ Len(Append(l, c)) = Len(l) + 1
<1> DEFINE V == Range(l) \union {c}
           m == Append(l, c)
<1>1. l \in Seq(V) /\ c \in V
  <2>1. l \in Seq(Range(l)) /\ Range(l) \subseteq V
    BY DEF IsList
  <2> HIDE DEF V
  <2>2. l \in Seq(V)
    BY <2>1, SeqMonotonic
  <2> QED
    BY <2>2 DEF V
<1>2. /\ m \in Seq(V) /\ Len(m) = Len(l) + 1 /\ Len(l) \in Nat
      /\ \A i \in 1..Len(l) : m[i] = l[i]
      /\ m[Len(l) + 1] = c
  <2> HIDE DEF V
  <2> QED
    BY <1>1, AppendProperties, LenProperties
<1>3. DOMAIN m = 1..Len(l) + 1 /\ DOMAIN l = 1..Len(l)
  <2> HIDE DEF V, m
  <2> QED
    BY <1>1, <1>2, LenProperties
<1> HIDE DEF m
<1>4. Range(m) = V
  <2>1. ASSUME NEW x \in Range(m) PROVE x \in V
    BY <1>2, <1>3 DEF Range
  <2>2. ASSUME NEW x \in V PROVE x \in Range(m)
    <3>1. CASE x = c
      BY <1>2, <1>3, <3>1 DEF Range
    <3>2. CASE x \in Range(l)
      BY <1>2, <1>3, <3>2 DEF Range
    <3> QED
      BY <3>1, <3>2
  <2> QED
    BY <2>1, <2>2
<1>5. IsInjective(m)
  <2> SUFFICES ASSUME NEW a \in DOMAIN m, NEW b \in DOMAIN m, m[a] = m[b] PROVE a = b
    BY DEF IsInjective
  <2>1. \A i \in 1..Len(l) : m[i] # c /\ m[i] = l[i]
    BY <1>2, <1>3 DEF Range
  <2>2. a \in 1..Len(l) \/ a = Len(l) + 1
    BY <1>2, <1>3
  <2>3. b \in 1..Len(l) \/ b = Len(l) + 1
    BY <1>2, <1>3
  <2>4. \A i, j \in 1..Len(l) : l[i] = l[j] => i = j
    BY <1>3 DEF IsList, IsInjective
  <2> QED
    BY <1>2, <2>1, <2>2, <2>3, <2>4
<1> QED
  BY <1>2, <1>4, <1>5 DEF IsList, m

LEMMA EmptyList == IsList(<< >>) /\ Range(<< >>) = {} /\ Len(<< >>) = 0
BY EmptySeq DEF IsList, IsInjective, Range

\* Within limits on its length, on each document and on its tokens.
Within(l, limit, documents, budget) ==
  /\ IsList(l) /\ Len(l) <= limit /\ TokensIn(l) <= budget
  /\ \A c \in Range(l) : FromDocument(l, DocumentOf[c]) <= documents

LEMMA NoTokens == TokensIn(<< >>) = 0
<1> DEFINE n[i \in 0..0] == IF i = 0 THEN 0 ELSE n[i - 1] + Tokens[<< >>[i]]
<1>1. \A i \in 0..0 : i = 0
  OBVIOUS
<1>2. \E f : f = [i \in 0..0 |-> IF i = 0 THEN 0 ELSE f[i - 1] + Tokens[<< >>[i]]]
  <2> DEFINE f == [i \in 0..0 |-> 0]
  <2>1. f = [i \in 0..0 |-> IF i = 0 THEN 0 ELSE f[i - 1] + Tokens[<< >>[i]]]
    BY <1>1
  <2> QED
    BY <2>1
<1>3. n = [i \in 0..0 |-> IF i = 0 THEN 0 ELSE n[i - 1] + Tokens[<< >>[i]]]
  BY <1>2
<1>4. TokensIn(<< >>) = n[0]
  <2>1. Len(<< >>) = 0
    OBVIOUS
  <2> QED
    BY <2>1 DEF TokensIn
<1> HIDE DEF n
<1>5. n[0] = 0
  BY <1>3
<1> QED
  BY <1>4, <1>5

\* One more of a document counts for that document alone.
LEMMA OneMore ==
  ASSUME NEW l, IsList(l), NEW c, NEW d
  PROVE  /\ FromDocument(l, d) \in Nat
         /\ FromDocument(Append(l, c), d) = FromDocument(l, d) + IF DocumentOf[c] = d THEN 1 ELSE 0
<1> DEFINE V == Range(l) \union {c}
           m == Append(l, c)
           of == {i \in DOMAIN l : DocumentOf[l[i]] = d}
           ofm == {i \in DOMAIN m : DocumentOf[m[i]] = d}
<1>1. l \in Seq(V) /\ c \in V
  <2>1. l \in Seq(Range(l)) /\ Range(l) \subseteq V
    BY DEF IsList
  <2> HIDE DEF V
  <2>2. l \in Seq(V)
    BY <2>1, SeqMonotonic
  <2> QED
    BY <2>2 DEF V
<1>2. /\ Len(l) \in Nat /\ DOMAIN l = 1..Len(l) /\ DOMAIN m = 1..Len(l) + 1
      /\ \A i \in 1..Len(l) : m[i] = l[i]
      /\ m[Len(l) + 1] = c
  <2> HIDE DEF V
  <2>1. m \in Seq(V) /\ Len(m) = Len(l) + 1
    BY <1>1, AppendProperties
  <2>2. DOMAIN m = 1..Len(m)
    <3> HIDE DEF m
    <3> QED
      BY <2>1, LenProperties
  <2> QED
    BY <1>1, <2>1, <2>2, AppendProperties, LenProperties
<1> HIDE DEF m
<1>3. IsFiniteSet(of)
  <2>1. IsFiniteSet(1..Len(l))
    BY <1>2, FS_Interval
  <2>2. of \subseteq 1..Len(l)
    BY <1>2
  <2> HIDE DEF of
  <2> QED
    BY <2>1, <2>2, FS_Subset
<1>4. ofm = of \union IF DocumentOf[c] = d THEN {Len(l) + 1} ELSE {}
  BY <1>2
<1>5. Len(l) + 1 \notin of
  BY <1>2
<1>6. FromDocument(l, d) = Cardinality(of) /\ FromDocument(Append(l, c), d) = Cardinality(ofm)
  BY DEF FromDocument, m
<1> HIDE DEF of, ofm
<1>7. Cardinality(of) \in Nat /\ Cardinality(of \union {Len(l) + 1}) = Cardinality(of) + 1
  BY <1>3, <1>5, FS_AddElement, FS_CardinalityType
<1>8. CASE DocumentOf[c] = d
  BY <1>4, <1>6, <1>7, <1>8
<1>9. CASE DocumentOf[c] # d
  <2>1. ofm = of
    BY <1>4, <1>9
  <2> QED
    BY <1>6, <1>7, <1>9, <2>1
<1> QED
  BY <1>8, <1>9

LEMMA TakenWithin ==
  ASSUME NEW limit \in Nat, NEW documents \in Nat, NEW budget \in Nat,
         NEW l, Within(l, limit, documents, budget), NEW c, c \notin Range(l)
  PROVE  /\ Within(Taken(l, c, limit, documents, budget), limit, documents, budget)
         /\ Range(Taken(l, c, limit, documents, budget)) \subseteq Range(l) \union {c}
<1> DEFINE m == Append(l, c)
           fits == /\ Len(l) < limit /\ FromDocument(l, DocumentOf[c]) < documents
                   /\ TokensIn(m) <= budget
<1>1. CASE ~fits
  BY <1>1 DEF Taken
<1>2. CASE fits
  <2>1. Taken(l, c, limit, documents, budget) = m
    BY <1>2 DEF Taken
  <2>2. IsList(m) /\ Range(m) = Range(l) \union {c} /\ Len(m) = Len(l) + 1
    BY ListAppend DEF Within
  <2>3. Len(l) \in Nat
    BY LenProperties DEF Within, IsList
  <2>4. \A d : /\ FromDocument(l, d) \in Nat
               /\ FromDocument(m, d) = FromDocument(l, d) + IF DocumentOf[c] = d THEN 1 ELSE 0
    BY OneMore DEF Within
  <2> HIDE DEF m
  <2>5. ASSUME NEW b \in Range(m) PROVE FromDocument(m, DocumentOf[b]) <= documents
    <3>1. CASE DocumentOf[b] = DocumentOf[c]
      BY <1>2, <2>4, <3>1
    <3>2. CASE DocumentOf[b] # DocumentOf[c]
      <4>1. b \in Range(l)
        BY <2>2, <3>2
      <4> QED
        BY <2>4, <3>2, <4>1 DEF Within
    <3> QED
      BY <3>1, <3>2
  <2> QED
    BY <1>2, <2>1, <2>2, <2>3, <2>5 DEF Within
<1> QED
  BY <1>1, <1>2

\* What still fits, of a list without repetition, is one, and within the limits.
LEMMA BoundedWithin ==
  ASSUME NEW s, IsList(s), NEW limit \in Nat, NEW documents \in Nat, NEW budget \in Nat
  PROVE  Within(Bounded(s, limit, documents, budget), limit, documents, budget)
<1> DEFINE N == Len(s)
           V == Seq(Range(s))
           taken(m, c) == Taken(m, c, limit, documents, budget)
           step == [p \in (1..N) \X V |-> taken(p[2], s[p[1]])]
<1>1. /\ N \in Nat /\ DOMAIN s = 1..N /\ \A i \in 1..N : s[i] \in Range(s)
      /\ \A i, j \in 1..N : s[i] = s[j] => i = j
  <2>1. N \in Nat /\ DOMAIN s = 1..N
    BY LenProperties DEF IsList
  <2> HIDE DEF N
  <2> QED
    BY <2>1 DEF IsList, IsInjective, Range
<1>2. << >> \in V /\ step \in Steps(N, V)
  <2>1. ASSUME NEW m \in V, NEW i \in 1..N PROVE taken(m, s[i]) \in V
    <3>1. Append(m, s[i]) \in V
      <4> HIDE DEF N
      <4> QED
        BY <1>1, AppendProperties
    <3> QED
      BY <3>1 DEF Taken
  <2> HIDE DEF N, taken
  <2>2. step \in [(1..N) \X V -> V]
    BY <2>1
  <2> QED
    BY <2>2, EmptySeq DEF Steps
<1>3. PICK f \in [0..N -> V] : Unrolls(f, N, << >>, step)
  <2> HIDE DEF N, V, step
  <2> QED
    BY <1>1, <1>2, Unrolled
<1>4. f = [i \in 0..N |-> IF i = 0 THEN << >> ELSE taken(f[i - 1], s[i])]
  <2> HIDE DEF N, V, taken
  <2>1. \A i \in 1..N : step[<<i, f[i - 1]>>] = taken(f[i - 1], s[i])
    BY <1>1
  <2> HIDE DEF step
  <2>2. ASSUME NEW i \in 0..N
        PROVE  f[i] = IF i = 0 THEN << >> ELSE taken(f[i - 1], s[i])
    <3>1. CASE i = 0
      BY <1>3, <3>1 DEF Unrolls
    <3>2. CASE i # 0
      <4>1. i \in 1..N
        BY <1>1, <3>2
      <4> QED
        BY <1>3, <2>1, <3>2, <4>1 DEF Unrolls
    <3> QED
      BY <3>1, <3>2
  <2> QED
    BY <1>3, <2>2
<1> DEFINE l[i \in 0..N] ==
      IF i = 0 THEN << >> ELSE Taken(l[i - 1], s[i], limit, documents, budget)
<1>5. l = [i \in 0..N |-> IF i = 0 THEN << >> ELSE taken(l[i - 1], s[i])]
  <2> HIDE DEF N
  <2> QED
    BY <1>4
<1>6. Bounded(s, limit, documents, budget) = l[N]
  BY DEF Bounded
<1> HIDE DEF l, N
<1> DEFINE Good(i) == /\ Within(l[i], limit, documents, budget)
                      /\ \A c \in Range(l[i]) : \E j \in 1..i : c = s[j]
           G == {i \in Nat : i <= N => Good(i)}
<1>7. 0 \in G
  <2>1. l[0] = << >>
    BY <1>1, <1>5
  <2> QED
    BY <2>1, EmptyList, NoTokens DEF Within
<1>8. ASSUME NEW i \in Nat, i \in G PROVE i + 1 \in G
  <2> SUFFICES ASSUME i + 1 <= N PROVE Good(i + 1)
    OBVIOUS
  <2>1. i + 1 \in 0..N /\ i + 1 \in 1..N /\ i \in 0..N
    BY <1>1
  <2>2. l[i + 1] = taken(l[i], s[i + 1])
    BY <1>5, <2>1
  <2>3. Good(i)
    BY <2>1, <1>8
  <2>4. s[i + 1] \notin Range(l[i])
    BY <1>1, <2>1, <2>3
  <2>5. /\ Within(l[i + 1], limit, documents, budget)
        /\ Range(l[i + 1]) \subseteq Range(l[i]) \union {s[i + 1]}
    <3> HIDE DEF G
    <3>1. Within(l[i], limit, documents, budget)
      BY <2>3
    <3> QED
      BY <2>2, <2>4, <3>1, TakenWithin
  <2> QED
    BY <2>3, <2>5
<1>9. Good(N)
  <2>1. Nat \subseteq G
    <3> HIDE DEF G
    <3> QED
      BY <1>7, <1>8, Induction
  <2>2. N \in G
    BY <1>1, <2>1
  <2>3. N <= N
    BY <1>1
  <2> HIDE DEF Good
  <2> QED
    BY <2>2, <2>3
<1> QED
  BY <1>6, <1>9
LEMMA AddedList ==
  ASSUME NEW W, NEW l \in Seq(W), IsList(l), NEW s, IsList(s), Range(s) \subseteq W,
         NEW i \in Nat \ {0}
  PROVE  AtRank(l, s, i) \in Seq(W) /\ IsList(AtRank(l, s, i))
<1>1. CASE i <= Len(s) /\ s[i] \notin Range(l)
  <2>1. s[i] \in W
    <3>1. DOMAIN s = 1..Len(s) /\ Len(s) \in Nat
      BY LenProperties DEF IsList
    <3> QED
      BY <1>1, <3>1 DEF Range
  <2>2. AtRank(l, s, i) = Append(l, s[i])
    BY <1>1 DEF AtRank, Added
  <2> QED
    BY <1>1, <2>1, <2>2, ListAppend, AppendProperties
<1>2. CASE ~(i <= Len(s) /\ s[i] \notin Range(l))
  BY <1>2 DEF AtRank, Added
<1> QED
  BY <1>1, <1>2

\* What two lists give by rank is a list without repetition.
LEMMA AlternateList ==
  ASSUME NEW s, IsList(s), NEW t, IsList(t)
  PROVE  IsList(Alternate(s, t))
<1> DEFINE N == Max({Len(s), Len(t)})
           W == Range(s) \union Range(t)
           V == {l \in Seq(W) : IsList(l)}
           both(l, i) == AtRank(AtRank(l, s, i), t, i)
           step == [p \in (1..N) \X V |-> both(p[2], p[1])]
<1>1. N \in Nat
  <2>1. Len(s) \in Nat /\ Len(t) \in Nat
    BY LenProperties DEF IsList
  <2>2. \E x \in {Len(s), Len(t)} : \A y \in {Len(s), Len(t)} : x >= y
    BY <2>1
  <2> QED
    BY <2>1, <2>2 DEF Max
<1>2. << >> \in V
  BY EmptyList, EmptySeq
<1>3. ASSUME NEW l \in V, NEW i \in Nat \ {0} PROVE both(l, i) \in V
  <2>1. AtRank(l, s, i) \in Seq(W) /\ IsList(AtRank(l, s, i))
    BY AddedList
  <2>2. Range(t) \subseteq W
    OBVIOUS
  <2> DEFINE m == AtRank(l, s, i)
  <2> HIDE DEF W, m
  <2>3. m \in Seq(W) /\ IsList(m)
    BY <2>1 DEF m
  <2>4. AtRank(m, t, i) \in Seq(W) /\ IsList(AtRank(m, t, i))
    BY <2>2, <2>3, AddedList
  <2> QED
    BY <2>4 DEF m
<1>4. step \in Steps(N, V)
  <2> HIDE DEF N, V, both
  <2>1. \A i \in 1..N : i \in Nat \ {0}
    BY <1>1
  <2> QED
    BY <1>3, <2>1 DEF Steps
<1>5. PICK f \in [0..N -> V] : Unrolls(f, N, << >>, step)
  <2> HIDE DEF N, V, step
  <2> QED
    BY <1>1, <1>2, <1>4, Unrolled
<1>6. f = [i \in 0..N |-> IF i = 0 THEN << >> ELSE both(f[i - 1], i)]
  <2> HIDE DEF N, V, both
  <2>1. \A i \in 1..N : step[<<i, f[i - 1]>>] = both(f[i - 1], i)
    BY <1>1
  <2> HIDE DEF step
  <2>2. ASSUME NEW i \in 0..N
        PROVE  f[i] = IF i = 0 THEN << >> ELSE both(f[i - 1], i)
    <3>1. CASE i = 0
      BY <1>5, <3>1 DEF Unrolls
    <3>2. CASE i # 0
      <4>1. i \in 1..N
        BY <1>1, <3>2
      <4> QED
        BY <1>5, <2>1, <3>2, <4>1 DEF Unrolls
    <3> QED
      BY <3>1, <3>2
  <2> QED
    BY <1>5, <2>2
<1> DEFINE l[i \in 0..N] == IF i = 0 THEN << >> ELSE AtRank(AtRank(l[i - 1], s, i), t, i)
<1>7. l = [i \in 0..N |-> IF i = 0 THEN << >> ELSE both(l[i - 1], i)]
  <2> HIDE DEF N
  <2> QED
    BY <1>6
<1>8. Alternate(s, t) = l[N]
  BY DEF Alternate
<1> HIDE DEF l, N, V, both
<1> DEFINE G == {i \in Nat : i <= N => l[i] \in V}
<1>9. 0 \in G
  <2>1. l[0] = << >>
    BY <1>1, <1>7
  <2> QED
    BY <1>2, <2>1
<1>10. ASSUME NEW i \in Nat, i \in G PROVE i + 1 \in G
  <2> SUFFICES ASSUME i + 1 <= N PROVE l[i + 1] \in V
    OBVIOUS
  <2>1. i + 1 \in 0..N /\ i + 1 \in Nat \ {0} /\ i <= N
    BY <1>1
  <2>2. l[i + 1] = both(l[i], i + 1)
    BY <1>7, <2>1
  <2> QED
    BY <1>3, <1>10, <2>1, <2>2
<1>11. N \in G
  <2> HIDE DEF G
  <2> QED
    BY <1>1, <1>9, <1>10, Induction
<1>12. l[N] \in V
  BY <1>1, <1>11
<1> QED
  BY <1>8, <1>12 DEF V

LEMMA RankingList ==
  ASSUME NEW s, NEW limit, NEW r \in Rankings(s, limit)
  PROVE  IsList(r)
<1>1. PICK n \in Nat : r \in [1..n -> Range(s)] /\ IsInjective(r)
  BY DEF Rankings, Injection
<1>2. r \in [1..n -> Range(r)]
  BY <1>1 DEF Range
<1>3. r \in Seq(Range(r))
  BY <1>2, SeqDef
<1> QED
  BY <1>1, <1>3 DEF IsList

Selected(e) == Within(e, FinalLimit, PerDocument, MaxTokens)
Found(e) == IsList(e) /\ Len(e) <= FinalLimit

LEMMA FinalSelected == ASSUME NEW s, IsList(s) PROVE Selected(Final(s))
BY BoundedWithin, RetrievalAssumption DEF Selected, Final

LEMMA NothingSelected == Selected(<< >>)
BY EmptyList, NoTokens, RetrievalAssumption DEF Selected, Within

LEMMA SelectedFound == ASSUME NEW e, Selected(e) PROVE Found(e)
BY DEF Selected, Found, Within
\* What each lane shows, and the outcome: the v3 collection is bounded in length alone.
EvidenceInv ==
  /\ DOMAIN lanes = LaneNames
  /\ Selected(lanes["structural"].evidence)
  /\ Selected(lanes["full_corpus"].evidence)
  /\ Found(lanes["vertex"].evidence)
  /\ Found(outcome.evidence)
  /\ config.backend # "vertex" => Selected(outcome.evidence)

LEMMA EvidenceInit == RetrievalInit => EvidenceInv
BY FreshIs, NothingSelected, SelectedFound DEF RetrievalInit, EvidenceInv, LaneNames

LEMMA LaneFound ==
  ASSUME EvidenceInv, NEW l \in LaneNames, NEW lane, lanes' = [lanes EXCEPT ![l] = lane],
         UNCHANGED common,
         l # "vertex" => Selected(lane.evidence), l = "vertex" => Found(lane.evidence)
  PROVE  EvidenceInv'
<1>1. /\ DOMAIN lanes' = LaneNames
      /\ \A k \in LaneNames : lanes'[k] = IF k = l THEN lane ELSE lanes[k]
      /\ outcome' = outcome /\ config' = config
  BY DEF EvidenceInv, common
<1>2. Selected(lanes'["structural"].evidence)
  BY <1>1 DEF EvidenceInv, LaneNames
<1>3. Selected(lanes'["full_corpus"].evidence)
  BY <1>1 DEF EvidenceInv, LaneNames
<1>4. Found(lanes'["vertex"].evidence)
  BY <1>1 DEF EvidenceInv, LaneNames
<1> QED
  BY <1>1, <1>2, <1>3, <1>4 DEF EvidenceInv

LEMMA LaneEndsFound ==
  ASSUME EvidenceInv, UNCHANGED common, NEW l \in LaneNames,
         NEW status, NEW evidence, NEW errors, Ends(l, status, evidence, errors),
         l # "vertex" => Selected(evidence), Found(evidence)
  PROVE  EvidenceInv'
<1>1. PICK lane : lanes' = [lanes EXCEPT ![l] = lane] /\ lane.evidence = evidence
  BY EndedLane
<1> QED
  BY <1>1, LaneFound

LEMMA LaneQueuedFound ==
  ASSUME EvidenceInv, UNCHANGED common, NEW l \in LaneNames, NEW input, NEW errors,
         ToRerank(l, input, errors)
  PROVE  EvidenceInv'
<1>1. PICK lane : lanes' = [lanes EXCEPT ![l] = lane] /\ lane.evidence = << >>
  BY QueuedLane
<1> QED
  BY <1>1, LaneFound, NothingSelected, SelectedFound

LEMMA LanesFound ==
  ASSUME EvidenceInv, QueryStructural \/ RerankStructural \/ QueryFullCorpus \/ RerankFullCorpus
  PROVE  EvidenceInv'
<1>1. UNCHANGED common
  BY DEF QueryStructural, RerankStructural, QueryFullCorpus, RerankFullCorpus
<1> DEFINE Goes(l) == \E status, errors, input :
             \/ Ends(l, status, << >>, errors)
             \/ ToRerank(l, input, errors)
             \/ \E r \in Rankings(input, ReturnLimit) : Ends(l, status, Final(r), errors)
<1>2. Goes("structural") \/ Goes("full_corpus")
  <2>1. CASE QueryStructural
    <3>1. PICK read \in [{"dense", "bm25", "exact"} -> Reads(ChunkLists)] :
            LET errors == {x \in DOMAIN read : ~read[x].ok}
                fused == Fused(read["dense"].hits, read["bm25"].hits, read["exact"].hits)
                input == StructuralInput(IF config.expand THEN Expanded(fused) ELSE fused)
            IN  \/ Ends("structural", "retrieval_error", << >>, errors)
                \/ \E lost \in {"fusion"} \union IF config.expand THEN {"neighbors"} ELSE {} :
                     Ends("structural", "retrieval_error", << >>, errors \union {lost})
                \/ ToRerank("structural", input, errors)
                \/ Ends("structural",
                        IF errors = {} THEN "no_candidate" ELSE "partial_technical_error",
                        << >>, errors)
      BY <2>1 DEF QueryStructural
    <3> QED
      BY <3>1
  <2>2. CASE RerankStructural
    BY <2>2 DEF RerankStructural
  <2>3. CASE QueryFullCorpus
    BY <2>3 DEF QueryFullCorpus
  <2>4. CASE RerankFullCorpus
    BY <2>4 DEF RerankFullCorpus
  <2> QED
    BY <2>1, <2>2, <2>3, <2>4
<1>7. PICK l \in {"structural", "full_corpus"} : Goes(l)
  <2> HIDE DEF Goes
  <2> QED
    BY <1>2
<1>8. PICK status, errors, input :
        \/ Ends(l, status, << >>, errors)
        \/ ToRerank(l, input, errors)
        \/ \E r \in Rankings(input, ReturnLimit) : Ends(l, status, Final(r), errors)
  BY <1>7
<1>3. l \in LaneNames /\ l # "vertex"
  BY DEF LaneNames
<1>4. CASE Ends(l, status, << >>, errors)
  BY <1>1, <1>3, <1>4, LaneEndsFound, NothingSelected, SelectedFound
<1>5. CASE ToRerank(l, input, errors)
  BY <1>1, <1>3, <1>5, LaneQueuedFound
<1>6. ASSUME NEW r \in Rankings(input, ReturnLimit), Ends(l, status, Final(r), errors)
      PROVE  EvidenceInv'
  <2>1. Selected(Final(r)) /\ Found(Final(r))
    BY RankingList, FinalSelected, SelectedFound
  <2> QED
    BY <1>1, <1>3, <1>6, <2>1, LaneEndsFound
<1> QED
  BY <1>8, <1>4, <1>5, <1>6

\* The first chunks of a read, and one more in place of the last when they are many.
LEMMA TopFound ==
  ASSUME NEW hits \in ChunkLists \union {<< >>}, NEW top,
         top = SubSeq(hits, 1, Min({FinalLimit, Len(hits)}))
  PROVE  /\ Found(top)
         /\ \A c : c \notin Range(top) => Found(WithSibling(top, c))
<1>1. IsInjective(hits) /\ hits \in Seq(Chunks)
  <2>1. CASE hits \in ChunkLists
    BY <2>1, RetrievalAssumption
  <2>2. CASE hits = << >>
    BY <2>2, EmptyList, EmptySeq DEF IsList
  <2> QED
    BY <2>1, <2>2
<1>2. ASSUME NEW s \in Seq(Chunks), IsInjective(s), NEW limit \in Nat
      PROVE  LET n == Min({limit, Len(s)})
             IN  /\ n \in Nat /\ n <= limit /\ n <= Len(s)
                 /\ SubSeq(s, 1, n) \in Seq(Chunks) /\ IsInjective(SubSeq(s, 1, n))
                 /\ Len(SubSeq(s, 1, n)) = n
                 /\ Range(SubSeq(s, 1, n)) \subseteq Range(s)
  <2> DEFINE n == Min({limit, Len(s)})
             p == SubSeq(s, 1, n)
  <2>1. n \in Nat /\ n <= limit /\ n <= Len(s)
    <3>1. Len(s) \in Nat
      BY LenProperties
    <3>2. \E x \in {limit, Len(s)} : \A y \in {limit, Len(s)} : x =< y
      BY <3>1
    <3> QED
      BY <3>1, <3>2 DEF Min
  <2> HIDE DEF n
  <2>2. /\ p \in Seq(Chunks) /\ Len(p) = n
        /\ \A i \in 1..n : p[i] = s[i]
    BY <2>1, SubSeqProperties
  <2> HIDE DEF p
  <2>3. DOMAIN p = 1..n /\ DOMAIN s = 1..Len(s) /\ Len(s) \in Nat
    BY <2>2, LenProperties
  <2>4. \A i \in 1..n : i \in DOMAIN s /\ p[i] = s[i]
    BY <2>1, <2>2, <2>3
  <2>5. IsInjective(p)
    BY <1>2, <2>3, <2>4 DEF IsInjective
  <2>6. Range(p) \subseteq Range(s)
    BY <2>3, <2>4 DEF Range
  <2> QED
    BY <2>1, <2>2, <2>5, <2>6 DEF n, p
<1>3. FinalLimit \in Nat /\ FinalLimit - 1 \in Nat
  BY RetrievalAssumption
<1>4. top \in Seq(Chunks) /\ IsInjective(top) /\ Len(top) <= FinalLimit
  BY <1>1, <1>2, <1>3
<1>5. Found(top)
  BY <1>4, SeqOfRange DEF Found, IsList
<1>6. ASSUME NEW c, c \notin Range(top) PROVE Found(WithSibling(top, c))
  <2> DEFINE n == Min({FinalLimit - 1, Len(top)})
             p == SubSeq(top, 1, n)
  <2>1. /\ n \in Nat /\ n <= FinalLimit - 1 /\ p \in Seq(Chunks) /\ IsInjective(p) /\ Len(p) = n
        /\ Range(p) \subseteq Range(top)
    BY <1>2, <1>3, <1>4
  <2>2. WithSibling(top, c) = Append(p, c)
    BY DEF WithSibling
  <2> HIDE DEF n, p
  <2>3. IsList(p) /\ c \notin Range(p)
    BY <1>6, <2>1, SeqOfRange DEF IsList
  <2> QED
    <3>1. IsList(Append(p, c)) /\ Len(Append(p, c)) = n + 1
      BY <2>1, <2>3, ListAppend
    <3>2. n + 1 <= FinalLimit
      BY <1>3, <2>1
    <3> QED
      BY <2>2, <3>1, <3>2 DEF Found
<1> QED
  BY <1>5, <1>6

LEMMA SiblingNew ==
  ASSUME NEW found, NEW selected, NEW c \in Siblings(found, selected)
  PROVE  c \notin Range(selected)
<1> DEFINE near == UNION {Neighbors[b] : b \in Range(found)}
           there == Range(selected)
<1>1. c \in {x \in near \ there : DocumentOf[x] \notin Stale}
  BY DEF Siblings
<1> HIDE DEF near, there
<1>2. c \notin there
  BY <1>1
<1> QED
  BY <1>2 DEF there

LEMMA VertexFound == ASSUME EvidenceInv, QueryVertex PROVE EvidenceInv'
<1>1. UNCHANGED common
  BY DEF QueryVertex
<1>2. PICK read \in Reads(ChunkLists) :
        LET top == SubSeq(read.hits, 1, Min({FinalLimit, Len(read.hits)}))
        IN  \/ Ends("vertex", "retrieval_error", << >>, {"vertex"})
            \/ Ends("vertex", IF top = << >> THEN "no_candidate" ELSE "ok", top, {})
            \/ Ends("vertex", "partial_retrieval_error", top, {"expansion"})
            \/ \E c \in Siblings(read.hits, top) : Ends("vertex", "ok", WithSibling(top, c), {})
  BY DEF QueryVertex
<1> DEFINE top == SubSeq(read.hits, 1, Min({FinalLimit, Len(read.hits)}))
<1>3. read.hits \in ChunkLists \union {<< >>}
  <2>1. read \in [ok : {TRUE}, hits : ChunkLists] \/ read = [ok |-> FALSE, hits |-> << >>]
    BY DEF Reads
  <2>2. CASE read \in [ok : {TRUE}, hits : ChunkLists]
    BY <2>2
  <2>3. CASE read = [ok |-> FALSE, hits |-> << >>]
    BY <2>3
  <2> QED
    BY <2>1, <2>2, <2>3
<1>4. Found(top) /\ \A c : c \notin Range(top) => Found(WithSibling(top, c))
  BY <1>3, TopFound
<1>5. \A c \in Siblings(read.hits, top) : c \notin Range(top)
  BY SiblingNew
<1>6. PICK status, evidence, errors : Ends("vertex", status, evidence, errors) /\ Found(evidence)
  <2> HIDE DEF top
  <2> QED
    BY <1>2, <1>4, <1>5, NothingSelected, SelectedFound DEF top
<1> QED
  BY <1>1, <1>6, LaneEndsFound DEF LaneNames

LEMMA ConcludedFound ==
  ASSUME EvidenceInv, NEW status, NEW evidence, NEW errors, Concludes(status, evidence, errors),
         Found(evidence), config.backend # "vertex" => Selected(evidence)
  PROVE  EvidenceInv'
<1>1. outcome'.evidence = evidence /\ lanes' = [l \in LaneNames |-> Fresh] /\ config' = config
  BY DEF Concludes, Fresh
<1> QED
  BY <1>1, FreshIs, NothingSelected, SelectedFound DEF EvidenceInv, LaneNames

LEMMA MergedFound == ASSUME EvidenceInv, MergeLanes PROVE EvidenceInv'
<1> DEFINE pool == Alternate(lanes["structural"].evidence, lanes["full_corpus"].evidence)
<1>1. IsList(pool)
  BY AlternateList DEF EvidenceInv, Selected, Within
<1>2. PICK r, status, errors : IsList(r) /\ Concludes(status, Final(r), errors)
  <2> HIDE DEF pool
  <2> QED
    BY <1>1, RankingList DEF MergeLanes, pool
<1>3. Selected(Final(r)) /\ Found(Final(r))
  BY <1>2, FinalSelected, SelectedFound
<1> QED
  BY <1>2, <1>3, ConcludedFound

LEMMA TakenFound == ASSUME EvidenceInv, TakeLane PROVE EvidenceInv'
<1>1. PICK l \in Active : Concludes(lanes[l].status, lanes[l].evidence, lanes[l].errors)
  BY DEF TakeLane
<1>2. l = "full_corpus" \/ (l = "vertex" /\ config.backend = "vertex")
  BY DEF TakeLane, Active
<1>3. Found(lanes[l].evidence) /\ (config.backend # "vertex" => Selected(lanes[l].evidence))
  BY <1>2, SelectedFound DEF EvidenceInv
<1> QED
  BY <1>1, <1>3, ConcludedFound

LEMMA EvidenceStep == EvidenceInv /\ [RetrievalNext]_retrievalVars => EvidenceInv'
<1> SUFFICES ASSUME EvidenceInv, [RetrievalNext]_retrievalVars PROVE EvidenceInv'
  OBVIOUS
<1>1. CASE Rewrite
  BY <1>1 DEF Rewrite, EvidenceInv
<1>2. CASE QueryStructural \/ RerankStructural \/ QueryFullCorpus \/ RerankFullCorpus
  BY <1>2, LanesFound
<1>3. CASE QueryVertex
  BY <1>3, VertexFound
<1>4. CASE MergeLanes
  BY <1>4, MergedFound
<1>5. CASE TakeLane
  BY <1>5, TakenFound
<1>6. CASE Generate
  BY <1>6 DEF Generate, EvidenceInv
<1>7. CASE NextQuestion
  BY <1>7, FreshIs, NothingSelected, SelectedFound DEF NextQuestion, EvidenceInv
<1>8. ASSUME NEW p \in Configured, Cooled(p) PROVE EvidenceInv'
  BY <1>8 DEF Cooled, EvidenceInv
<1>9. CASE UNCHANGED retrievalVars
  BY <1>9 DEF retrievalVars, EvidenceInv
<1> QED
  BY <1>1, <1>2, <1>3, <1>4, <1>5, <1>6, <1>7, <1>8, <1>9 DEF RetrievalNext

(* What the language model is given is within the final limits on its       *)
(* length, on each document and on its tokens, and repeats nothing, through *)
(* any lane, fallback or reranking; with the expansion of the v3 collection *)
(* within the first: for any limits, lists and rerankers                    *)
(* (select_final_structural_candidates, select_ranked_evidence,             *)
(* _interleave_evidence, expand_v3_evidence).                               *)
THEOREM EvidenceWithinBounds == RetrievalSpec => []EvidenceBounded
<1>1. EvidenceInv => EvidenceBounded
  BY DEF EvidenceInv, EvidenceBounded, Found, Selected, Within, IsList
<1> QED
  BY <1>1, EvidenceInit, EvidenceStep, PTL DEF RetrievalSpec

===============================================================================
