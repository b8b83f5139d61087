---------------------------- MODULE MCPriorityMesh ----------------------------
(* PriorityMesh for TLC: three messages of different urgency and a queue with  *)
(* room for two of them and one emergency.                                    *)
EXTENDS PriorityMesh, TLC

MCContext ==
    [averageFee |-> 1, congestion |-> 0, battery |-> 100, completeness |-> 100, currentBlockHeight |-> 2]

Submission(call, id, type, fee, priority, height) ==
    [call |-> call, id |-> id, type |-> type, feePerByte |-> fee, priority |-> priority,
     blockHeight |-> height, size |-> 1]

(* Some messages can be sent in two ways. *)
MCSubmissions ==
    {Submission("emergency", 1, "transaction", 0, NORMAL, 0),
     Submission("transaction", 2, "transaction", 0, LOW, 0),
     Submission("message", 2, "transaction", 0, NORMAL, 0),
     Submission("emergency", 2, "transaction", 0, NORMAL, 0),
     Submission("block", 3, "block", 0, NORMAL, 2)}

MCCapacity == (CRITICAL :> 2) @@ (HIGH :> 1) @@ (NORMAL :> 1) @@ (LOW :> 1)

MCMaxAttempts == [p \in Priorities |-> IF p = LOW THEN 2 ELSE 1]

MCTimeToLive == [p \in Priorities |-> IF p = LOW THEN 1 ELSE 0]

MCExemption == [p \in Priorities |-> p = CRITICAL]
=============================================================================
