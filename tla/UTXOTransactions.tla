-------------------------- MODULE UTXOTransactions --------------------------
(***************************************************************************)
(* The pure part of UTXOTransactionManager (utxo-transaction.ts) and of    *)
(* UTXOManager (utxo.ts): what a wallet builds, what the node accepts and  *)
(* how a batch of additions and removals changes the UTXO set.             *)
(*                                                                         *)
(* Money is counted in units of 0.00001 coin, the program's fee rate per   *)
(* byte, so that every fee and tolerance of the code is an integer.        *)
(*                                                                         *)
(* A UTXO is [txId, outputIndex, value, to]; its map key in the code,      *)
(* `txId:outputIndex`, is the pair Outpoint(u).  A transaction is          *)
(* [id, inputs, outputs, fee]: inputs a set of outpoints, outputs a        *)
(* sequence of [value, to] (the code numbers outputs by their position).   *)
(* Signatures, lock times and timestamps are left out: the wallet always   *)
(* fills them and no property depends on them.                             *)
(***************************************************************************)
EXTENDS Integers, Sequences, FiniteSets, FiniteSetsExt

(* calculateTransactionFee: size estimate times 0.00001, at least 0.001.   *)
TransactionFee(nInputs, nOutputs) ==
    LET size == 32 + 150 * nInputs + 34 * nOutputs
    IN  IF size < 100 THEN 100 ELSE size

(* createTransaction asks for one input and two outputs whatever it picks. *)
EstimatedFee == TransactionFee(1, 2)

(* |expectedFee - fee| > 0.001 is a mismatch.                              *)
FeeTolerance == 100

-----------------------------------------------------------------------------
(* The UTXO set.                                                           *)

Outpoint(u) == <<u.txId, u.outputIndex>>

Outpoints(utxos) == {Outpoint(u) : u \in utxos}

TotalValue(utxos) ==
    LET value(u) == u.value IN MapThenSumSet(value, utxos)

OwnedBy(utxos, address) == {u \in utxos : u.to = address}

OutputsOf(tx) ==
    {[txId |-> tx.id, outputIndex |-> i - 1,
      value |-> tx.outputs[i].value, to |-> tx.outputs[i].to] :
        i \in DOMAIN tx.outputs}

(* Fault: spent outputs stay in the map.                                   *)
ApplyUTXOUpdatesKeepsSpent(utxos, additions, removals) ==
    {u \in utxos : Outpoint(u) \notin Outpoints(additions)} \cup additions

(* applyUTXOUpdates: all removals, then all additions (a Map.set, which    *)
(* replaces an entry with the same key).                                   *)
ApplyUTXOUpdates(utxos, additions, removals) ==
    {u \in utxos : Outpoint(u) \notin removals \cup Outpoints(additions)}
        \cup additions

-----------------------------------------------------------------------------
(* Transactions.                                                           *)

InputValue(tx, utxos) == TotalValue({u \in utxos : Outpoint(u) \in tx.inputs})

OutputValue(tx) == TotalValue(OutputsOf(tx))

FeeMatches(tx, utxos) ==
    LET difference == InputValue(tx, utxos) - OutputValue(tx) - tx.fee
    IN  difference \in -FeeTolerance .. FeeTolerance

ValidateTransaction(tx, utxos) ==
    /\ tx.outputs # <<>>
    /\ \A i \in DOMAIN tx.outputs : tx.outputs[i].value > 0
    /\ \/ /\ tx.inputs = {}
          /\ tx.fee = 0
       \/ /\ tx.inputs # {}
          /\ tx.inputs \subseteq Outpoints(utxos)
          /\ FeeMatches(tx, utxos)
          /\ tx.fee >= 0
          /\ InputValue(tx, utxos) >= OutputValue(tx)

(* selectUTXOs: sort by value, largest first, take until the target is     *)
(* covered.  Ties keep the order of the address index, which is any order. *)
GreedySelections(available, target) ==
    {S \in SUBSET available :
        /\ \A u \in S, w \in available \ S : u.value >= w.value
        /\ \/ S = available /\ TotalValue(S) < target
           \/ /\ TotalValue(S) >= target
              /\ \A u \in S :
                    (\A w \in S : u.value <= w.value)
                        => TotalValue(S) - u.value < target}

(* Fault: the change is not reduced when the fee exceeds the estimate.     *)
CreateTransactionKeepsEstimate(id, from, to, amount, selected) ==
    LET change  == TotalValue(selected) - (amount + EstimatedFee)
        payment == [value |-> amount, to |-> to]
    IN  [id      |-> id,
         inputs  |-> Outpoints(selected),
         outputs |-> IF change > 0
                     THEN <<payment, [value |-> change, to |-> from]>>
                     ELSE <<payment>>,
         fee     |-> TransactionFee(Cardinality(selected),
                                    IF change > 0 THEN 2 ELSE 1)]

(* createTransaction once `selected` is chosen.  The change is reduced by  *)
(* what the fee exceeds the estimate, and dropped when nothing is left;    *)
(* the recorded fee stays the one computed with the change output.         *)
CreateTransaction(id, from, to, amount, selected) ==
    LET change    == TotalValue(selected) - (amount + EstimatedFee)
        nOutputs  == IF change > 0 THEN 2 ELSE 1
        fee       == TransactionFee(Cardinality(selected), nOutputs)
        remaining == change - (fee - EstimatedFee)
        payment   == [value |-> amount, to |-> to]
    IN  [id      |-> id,
         inputs  |-> Outpoints(selected),
         outputs |-> IF change > 0 /\ remaining > 0
                     THEN <<payment, [value |-> remaining, to |-> from]>>
                     ELSE <<payment>>,
         fee     |-> fee]

(* The selections createTransaction does not throw on; selecting nothing   *)
(* covers no amount.                                                       *)
SufficientSelections(available, amount) ==
    {S \in GreedySelections(available, amount + EstimatedFee) \ {{}} :
        TotalValue(S) >= amount + EstimatedFee}

=============================================================================
