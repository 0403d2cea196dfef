----------------------------- MODULE MCOrderSaga -----------------------------
(* Values of the constants for the TLC runs of OrderSaga.                  *)
EXTENDS OrderSagaProperties

CONSTANTS o1, o2

(* One order asks for one unit of every product, the other for two.        *)
OneAndTwo == [o \in Orders |-> [p \in Products |-> IF o = o1 THEN 1 ELSE 2]]

(* Two units of each product: the two orders compete for them, and a       *)
(* reservation of the smaller one that is made twice finds the stock.      *)
Two == [p \in Products |-> 2]

(* An error or a crash, at any point, and not both, and either such a      *)
(* fault or a rival order.                                                 *)
OneFault == errors + crashes <= 1
FaultOrRival == orders[o2] # "none" => errors + crashes = 0

(* Only a crash makes a consumer read its stored offset, so where none can *)
(* follow, no offset need have been stored.                                *)
StoreForCrash == errors > 0 \/ orders[o2] # "none" => \A g \in Groups : committed[g] = 0
StoreBeforeFault == errors + crashes = 1 => UNCHANGED committed
=============================================================================
