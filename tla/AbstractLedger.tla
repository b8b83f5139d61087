---------------------------- MODULE AbstractLedger ----------------------------
(***************************************************************************)
(* What the UTXO model promises to whoever holds coins (README.md:336),    *)
(* whatever blocks, mempools and wallets are behind it: coins are settled  *)
(* in batches.  A batch consumes coins that exist and are gone for good    *)
(* afterwards, makes coins nobody has seen before, worth no more than what *)
(* it consumed and one issue, and touches no other coin.                   *)
(***************************************************************************)
EXTENDS UTXOTransactions

CONSTANTS Allocation,   \* the coins there are at first
          Issue         \* what a batch may make without consuming anything

VARIABLES coins,        \* the coins that can be spent, a set of UTXOs
          spent         \* the outpoints of those that have been

ledgerVars == <<coins, spent>>

LedgerInit == coins = Allocation /\ spent = {}

Consumed == {c \in coins : Outpoint(c) \in spent' \ spent}

Made == {c \in coins' : Outpoint(c) \notin Outpoints(coins)}

Settle ==
    /\ spent \subseteq spent'
    /\ spent' \ spent \subseteq Outpoints(coins)
    /\ Outpoints(coins') \cap spent' = {}
    /\ coins' = (coins \ Consumed) \cup Made
    /\ TotalValue(Made) <= TotalValue(Consumed) + Issue

LedgerSpec == LedgerInit /\ [][Settle]_ledgerVars
===============================================================================
