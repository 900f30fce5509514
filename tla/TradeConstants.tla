--------------------------- MODULE TradeConstants ---------------------------
(***************************************************************************)
(* The parameters shared by the components an order passes through.        *)
(***************************************************************************)
EXTENDS Integers, FiniteSets

CONSTANTS
    Orders,      \* the order numbers
    AdminKeys    \* idempotency keys administrators send with a refund

ASSUME OrdersAssumption == IsFiniteSet(Orders)

\* The key of every refund the system itself makes is "order:<no>:refund".
RefundKeys == {"order"} \cup AdminKeys

=============================================================================
