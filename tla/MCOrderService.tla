--------------------------- MODULE MCOrderService ---------------------------
(* Values of the constants for the TLC runs of OrderService.               *)
EXTENDS OrderServiceProperties

CONSTANTS c1, c2

(* Three item ids, so that both orders fit into three readings.            *)
TwoAndOne == [r \in Creators |-> IF r = c1 THEN 2 ELSE 1]

(* Readers ask for the id of an order that has been begun: any other is    *)
(* answered like one that is not there yet.                                *)
SensibleQuestions ==
  \A r \in Readers : asked[r].id \in {0} \cup {orderId[q] : q \in Creators}

(* A reader that gets an error leaves nothing behind: the others go on as  *)
(* if it had not come.                                                     *)
NoErrorsToReaders == \A r \in Readers : answer[r] # "error"
=============================================================================
