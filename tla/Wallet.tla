------------------------------- MODULE Wallet -------------------------------
(***************************************************************************)
(* One wallet address: it receives outputs and asks createTransaction      *)
(* (utxo-transaction.ts) to pay; the node that holds the UTXO set          *)
(* validates the transaction and, if it is valid, applies it.              *)
(***************************************************************************)
EXTENDS UTXOTransactions

CONSTANTS Values,        \* values of received outputs
          Amounts,       \* amounts the wallet pays
          MaxReceived,   \* bound: outputs received from others
          MaxPayments    \* bound: transactions built

ASSUME WalletAssumption ==
    /\ Values \subseteq Nat \ {0}
    /\ Amounts \subseteq Nat \ {0}
    /\ MaxReceived \in Nat
    /\ MaxPayments \in Nat

VARIABLES utxos,     \* the UTXO set
          received,  \* outputs received so far
          payment,   \* the last transaction built, NoPayment at first
          submitted  \* whether the last transaction was handed to the node

walletVars == <<utxos, received, payment, submitted>>

NoPayment == [id |-> 0, inputs |-> {}, outputs |-> <<>>, fee |-> 0]

Mine == OwnedBy(utxos, "wallet")

WalletInit ==
    /\ utxos = {}
    /\ received = 0
    /\ payment = NoPayment
    /\ submitted = TRUE

(* A confirmed output of somebody else's transaction.                      *)
Receive(value) ==
    /\ submitted
    /\ received < MaxReceived
    /\ utxos' = utxos \cup {[txId |-> -(received + 1), outputIndex |-> 0,
                             value |-> value, to |-> "wallet"]}
    /\ received' = received + 1
    /\ UNCHANGED <<payment, submitted>>

Pay(amount) ==
    /\ submitted
    /\ payment.id < MaxPayments
    /\ \E selected \in SufficientSelections(Mine, amount) :
          payment' = CreateTransaction(payment.id + 1, "wallet", "shop",
                                       amount, selected)
    /\ submitted' = FALSE
    /\ UNCHANGED <<utxos, received>>

(* addUTXOTransaction and, for a valid one, the block that confirms it.    *)
Submit ==
    /\ ~submitted
    /\ submitted' = TRUE
    /\ utxos' = IF ValidateTransaction(payment, utxos)
                THEN ApplyUTXOUpdates(utxos, OutputsOf(payment), payment.inputs)
                ELSE utxos
    /\ UNCHANGED <<received, payment>>

WalletNext ==
    \/ \E value \in Values : Receive(value)
    \/ \E amount \in Amounts : Pay(amount)
    \/ Submit

WalletSpec == WalletInit /\ [][WalletNext]_walletVars

-----------------------------------------------------------------------------
Burn == InputValue(payment, utxos) - OutputValue(payment)

(* The wallet pays the amount it was asked for, never spends more than it  *)
(* selected, and gives up no more than the fee it records, or the estimate *)
(* it selected for when that is larger: a dropped change output never      *)
(* costs more.                                                             *)
WalletBurnBounded ==
    ~submitted =>
        /\ payment.outputs[1].to = "shop"
        /\ Burn >= 0
        /\ Burn <= payment.fee \/ Burn <= EstimatedFee

(* What the node takes from the wallet covers the fee it records whenever  *)
(* change is returned, so a payment with change is always accepted, and so *)
(* is every payment with one input.                                        *)
ChangeOrSingleInputAccepted ==
    ~submitted /\ (Len(payment.outputs) = 2 \/ Cardinality(payment.inputs) = 1)
        => ValidateTransaction(payment, utxos)

(* Largest-first selection takes nothing it could do without: without any  *)
(* one of its inputs, the payment and the estimated fee are not covered.   *)
NoNeedlessInput ==
    ~submitted =>
        \A u \in Mine :
            Outpoint(u) \in payment.inputs =>
                InputValue(payment, utxos) - u.value
                    < payment.outputs[1].value + EstimatedFee

(* A payment costs the wallet what it should, and the node takes it.       *)
PaymentsSound ==
    WalletBurnBounded /\ ChangeOrSingleInputAccepted /\ NoNeedlessInput
=============================================================================
