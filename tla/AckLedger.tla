------------------------------ MODULE AckLedger ------------------------------
(***************************************************************************)
(* What an upload checkpoint promises, whatever the pipeline behind it:    *)
(* a local ledger of acknowledged items beside a remote target.  The       *)
(* ledger is what a resumed run skips, so an item may be acknowledged only *)
(* while the live target holds it, and the target may be (re)created empty *)
(* only while the ledger is empty.  FullIngestion implements this.         *)
(***************************************************************************)
CONSTANT Items                  \* what is uploaded: documents or chunk records

VARIABLES points,               \* items the live target holds
          acked,                \* items the ledger lets a resumed run skip
          alive                 \* the target exists

ledgerVars == <<points, acked, alive>>

\* An earlier pipeline may have left a target behind, never a ledger.
LedgerInit == acked = {} /\ alive \in BOOLEAN /\ points \in SUBSET Items

CreateTarget == /\ acked = {}
                /\ alive' = TRUE
                /\ points' = {}
                /\ UNCHANGED acked

WriteItems == /\ alive
              /\ \E S \in SUBSET Items : points' = points \union S
              /\ UNCHANGED <<acked, alive>>

Acknowledge == /\ alive
               /\ \E S \in SUBSET points : acked' = acked \union S
               /\ UNCHANGED <<points, alive>>

\* The target vanishes; the ledger survives and must not be believed.
LoseTarget == alive' = FALSE /\ points' = {} /\ UNCHANGED acked

LedgerNext == CreateTarget \/ WriteItems \/ Acknowledge \/ LoseTarget

LedgerSpec == LedgerInit /\ [][LedgerNext]_ledgerVars
==============================================================================
