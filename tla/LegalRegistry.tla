---------------------------- MODULE LegalRegistry ----------------------------
(***************************************************************************)
(* Published reviews of legal effect: app/legal_registry_database.py under *)
(* the handlers of app/api/legal_registry_routes.py, and the view of one   *)
(* document that app/services/legal_registry.py computes from them with    *)
(* _effect_for_target of app/services/legal_effect.py.                     *)
(*                                                                         *)
(* Only events that name the document looked at are modelled: incoming if  *)
(* it is their target, outgoing if it is the document that acts.           *)
(***************************************************************************)
EXTENDS Integers, FiniteSets, Collections

CONSTANTS Rulings,      \* ids of legal-effect analyses
          Events,       \* [kind, date, scope, incoming]
          Days

ASSUME RegistryAssumption ==
  /\ Days \subseteq Nat
  /\ \A e \in Events : /\ e.kind \in {"effective", "amend", "repeal", "replace"}
                       /\ e.date \in Nat

VARIABLES
  reviewed,       \* the event each review asserts; an analysis never changes
  registry        \* collection legal_effect_registry

registryVars == <<reviewed, registry>>

NotPublished == [state |-> "none", withdrawal |-> FALSE]

RegistryInit == /\ reviewed \in [Rulings -> Events]
                /\ registry = [v \in Rulings |-> NotPublished]

\* mutant: $set in place of $setOnInsert, which leaves the withdrawal there
PublishReview_Set(v) ==
  /\ registry' = [registry EXCEPT ![v].state = "published"]
  /\ UNCHANGED reviewed

\* publish_review: inserts, or finds what was published or withdrawn before.
PublishReview(v) ==
  /\ registry' = [registry EXCEPT ![v] =
                    IF @ = NotPublished THEN [@ EXCEPT !.state = "published"] ELSE @]
  /\ UNCHANGED reviewed

WithdrawReview(v) ==
  /\ registry[v].state = "published"
  /\ registry' = [registry EXCEPT ![v] = [state |-> "withdrawn", withdrawal |-> TRUE]]
  /\ UNCHANGED reviewed

RegistryNext == \E v \in Rulings : PublishReview(v) \/ WithdrawReview(v)

RegistrySpec == RegistryInit /\ [][RegistryNext]_registryVars

-----------------------------------------------------------------------------
(* registry_view on a day                                                  *)

Shown == {reviewed[v] : v \in {w \in Rulings : registry[w].state = "published"}}

Own == {e \in Shown : e.incoming /\ e.scope = "whole_document"}
Dated(day) == {e \in Shown : e.incoming /\ e.date <= day}
StatusEvents(day) == {e \in Own : e.date <= day /\ e.kind # "amend"}

Terminations == {"repeal", "replace"}
LastOf(events) == CHOOSE e \in events : \A x \in events : x.date <= e.date

\* _effect_for_target
EffectStatus(day) ==
  LET status == StatusEvents(day)
      latest == LastOf(status)
      changes == {e \in Dated(day) : e.date >= latest.date}
      terminated == \E e \in changes : e.scope = "partial" /\ e.kind \in Terminations
      amended == \E e \in changes : e.kind = "amend"
  IN  IF status = {} \/ \E x, y \in status : x.date = y.date /\ x.kind # y.kind
      THEN "unknown"
      ELSE IF latest.kind = "repeal" THEN "repealed"
      ELSE IF latest.kind = "replace" THEN "replaced"
      ELSE IF terminated THEN "partially_effective"
      ELSE IF amended THEN "amended" ELSE "effective"

\* effective_from: the last start that has come, else the first to come.
StartDates == {e.date : e \in {x \in Own : x.kind = "effective"}}
EffectiveFrom(day) ==
  LET past == {d \in StartDates : d <= day}
  IN  IF past # {} THEN {SetExt!Max(past)} ELSE IF StartDates # {} THEN {SetExt!Min(StartDates)} ELSE {}

\* mutant: ends before the start are kept
EffectiveTo_Any(day) ==
  LET ends == {e.date : e \in {x \in Own : x.kind \in Terminations}}
  IN  IF ends # {} THEN {SetExt!Min(ends)} ELSE {}

\* effective_to: the first end from there on.
EffectiveTo(day) ==
  LET ends == {e.date : e \in {x \in Own : /\ x.kind \in Terminations
                                           /\ \A d \in EffectiveFrom(day) : x.date >= d}}
  IN  IF ends # {} THEN {SetExt!Min(ends)} ELSE {}

-----------------------------------------------------------------------------
RegistryTypeOK ==
  /\ reviewed \in [Rulings -> Events]
  /\ registry \in [Rulings -> [state : {"none", "published", "withdrawn"},
                               withdrawal : BOOLEAN]]

(* The status of a document and the interval shown beside it agree on      *)
(* every day, whichever reviews have been published and withdrawn by then: *)
(* a document in force has started and not ended, one that had started and *)
(* was repealed or replaced has ended; and no withdrawn review speaks      *)
(* again.                                                                  *)
ViewAgrees ==
  /\ \A day \in Days :
       /\ EffectStatus(day) \in {"effective", "amended", "partially_effective"} =>
            /\ \E d \in EffectiveFrom(day) : d <= day
            /\ \A d \in EffectiveTo(day) : d > day
       /\ /\ EffectStatus(day) \in {"repealed", "replaced"}
          /\ \E d \in EffectiveFrom(day) : d <= day
          => \E d \in EffectiveTo(day) : d <= day
  /\ \A v \in Rulings : registry[v].withdrawal => registry[v].state = "withdrawn"
==============================================================================
